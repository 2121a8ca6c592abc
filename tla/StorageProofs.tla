----------------------------- MODULE StorageProofs -----------------------------
(***************************************************************************)
(* Proofs about the storage layer's four machines, each an induction of    *)
(* its own: pipelines of any length, files and chunks of any size, any     *)
(* number of versions and trees of any depth.                              *)
(***************************************************************************)
EXTENDS StorageStreams, SequentialRead, RangedRead, SftpTree, SequenceTheorems, TLAPS

-----------------------------------------------------------------------------
(* Facades and their reads (StorageStreams) *)

\* Who may hold a connection, and which facades were closed.
FacadeInv ==
    \A f \in Facades :
        /\ conn[f] # "none" => stage[f] \in {"making", "failing", "ready"} /\ ~closed[f]
        /\ closed[f] => stage[f] \in {"ready", "dead"}
        /\ ~closed[f] => cuts[f] = 0
        /\ cuts[f] <= 1

\* What is still on the stack are the lowest layers, in their order.
StackInv ==
    /\ top + todo <= MaxTransforms
    /\ Len(stack) <= top + 1
    /\ \A i \in 1..Len(stack) : stack[i] = i - 1
    /\ place \in {"opening", "building", "open"} => Len(stack) = top + 1
    /\ place = "opening" => top = -1
    /\ place = "idle" => stack = <<>>

\* A layer above the stack is closed; the highest one on it is closed if a
\* greedy one did it; those below it are open.
CloseInv ==
    /\ \A l \in Layer :
          /\ l < Len(stack) - 1 => l \in open /\ closes[l] = 0
          /\ l = Len(stack) - 1 => closes[l] = IF l \in open THEN 0 ELSE 1
          /\ Len(stack) <= l /\ l <= top => closes[l] = 1
          /\ l > top => closes[l] = 0
    /\ place \in {"opening", "building", "open"} =>
          \A l \in Layer : closes[l] = 0 /\ (l <= top => l \in open)

\* What was raised and what has failed, place by place.
ErrorInv ==
    /\ raised = "none" => failed \subseteq {"finalizer"}
    /\ place \in {"opening", "building", "open"} => raised = "none" /\ failed = {}
    /\ place = "unwinding" => raised = "opening"
    /\ "opening" \in failed /\ op # "random" => raised = "opening" /\ place \in {"unwinding", "idle"}
    /\ place \in {"closing", "finalizing"} /\ op \in Copies /\ raised = "none" => written = "whole"
    /\ place = "idle" /\ op \in Copies /\ raised = "none" /\ top >= 0 => written = "whole"

StreamIInv == TypeOK /\ FacadeInv /\ StackInv /\ CloseInv /\ ErrorInv

-----------------------------------------------------------------------------
\* At first nothing is made and nothing is read.
LEMMA StreamInitIInv == Init => StreamIInv
<1> SUFFICES ASSUME Init PROVE StreamIInv
  OBVIOUS
<1> USE TransformsAssumption
<1>1. TypeOK
  BY DEF Init, TypeOK, Facades, Layer, Reads
<1>2. FacadeInv
  BY DEF Init, FacadeInv
<1>3. StackInv /\ CloseInv
  BY DEF Init, StackInv, CloseInv, Layer
<1>4. ErrorInv
  BY DEF Init, ErrorInv, Copies
<1> QED BY <1>1, <1>2, <1>3, <1>4 DEF StreamIInv

\* The two halves of the types: the facades and the read.
LifeTypes ==
    /\ stage \in [Facades -> {"absent", "making", "failing", "ready", "dead"}]
    /\ closed \in [Facades -> BOOLEAN]
    /\ conn \in [Facades -> {"none", "made", "live"}]
    /\ cuts \in [Facades -> 0..1]

ReadTypes ==
    /\ op \in Reads
    /\ place \in {"idle", "opening", "building", "open", "unwinding", "closing", "finalizing"}
    /\ todo \in 0..MaxTransforms
    /\ top \in {-1} \cup Layer
    /\ greedy \subseteq Layer /\ open \subseteq Layer
    /\ closes \in [Layer -> Nat]
    /\ stack \in Seq(Layer)
    /\ raised \in {"none", "opening", "use", "close"}
    /\ failed \subseteq {"opening", "use", "close", "finalizer"}
    /\ written \in {"no", "partly", "whole"}

LEMMA Halves == TypeOK <=> LifeTypes /\ ReadTypes
  BY DEF TypeOK, LifeTypes, ReadTypes

StreamReadInv == ReadTypes /\ StackInv /\ CloseInv /\ ErrorInv

\* A step in a facade's life touches no read.
LEMMA LifeStep ==
    ASSUME LifeTypes, FacadeInv, NEW f \in Facades, Life(f)
    PROVE  LifeTypes' /\ FacadeInv'
<1>1. CASE Construct(f)
  <2>1. PICK c \in {"none", "made"} : conn' = [conn EXCEPT ![f] = c]
    BY <1>1 DEF Construct
  <2> QED BY <1>1, <2>1 DEF Construct, LifeTypes, FacadeInv
<1>2. CASE Connect(f)
  BY <1>2 DEF Connect, LifeTypes, FacadeInv
<1>3. CASE Constructed(f)
  BY <1>3 DEF Constructed, LifeTypes, FacadeInv
<1>4. CASE ConstructFails(f)
  BY <1>4 DEF ConstructFails, LifeTypes, FacadeInv
<1>5. CASE Close(f)
  <2>1. ~closed[f] => cuts[f] = 0
    BY DEF FacadeInv
  <2>2. cuts'[f] \in 0..1 /\ cuts' \in [Facades -> 0..1]
    BY <1>5, <2>1 DEF Close, LifeTypes
  <2>3. LifeTypes'
    BY <1>5, <2>2 DEF Close, LifeTypes
  <2>4. FacadeInv'
    <3> SUFFICES ASSUME NEW g \in Facades
                 PROVE  /\ conn'[g] # "none" => stage'[g] \in {"making", "failing", "ready"} /\ ~closed'[g]
                        /\ closed'[g] => stage'[g] \in {"ready", "dead"}
                        /\ ~closed'[g] => cuts'[g] = 0
                        /\ cuts'[g] <= 1
      BY DEF FacadeInv
    <3>1. CASE g = f
      BY <1>5, <2>2, <3>1 DEF Close, LifeTypes
    <3>2. CASE g # f
      BY <1>5, <3>2 DEF Close, LifeTypes, FacadeInv
    <3> QED BY <3>1, <3>2
  <2> QED BY <2>3, <2>4
<1> QED BY <1>1, <1>2, <1>3, <1>4, <1>5 DEF Life

-----------------------------------------------------------------------------
\* Opening a stream keeps the invariant of a read.
LEMMA OpeningStep ==
    ASSUME StreamReadInv,
           \/ \E k \in Reads : Begin(k)
           \/ OpenFails \/ OpenSource \/ OpenRanged \/ AddLayer \/ UnwrapRaises \/ Built
    PROVE  StreamReadInv'
<1> USE TransformsAssumption
<1>0. ReadTypes /\ StackInv /\ CloseInv /\ ErrorInv
  BY DEF StreamReadInv
<1>1. ASSUME NEW k \in Reads, Begin(k) PROVE StreamReadInv'
  <2>1. ReadTypes'
    BY <1>0, <1>1 DEF Begin, ReadTypes
  <2>2. StackInv' /\ CloseInv'
    <3>1. top' = -1 /\ stack' = <<>> /\ Len(stack') = 0 /\ place' = "opening"
          /\ todo' \in 0..MaxTransforms /\ closes' = [l \in Layer |-> 0]
      BY <1>1 DEF Begin
    <3> QED BY <3>1 DEF StackInv, CloseInv, Layer
  <2>3. ErrorInv'
    BY <1>1 DEF Begin, ErrorInv
  <2> QED BY <2>1, <2>2, <2>3 DEF StreamReadInv
<1>2. CASE OpenFails
  <2>1. ReadTypes'
    BY <1>0, <1>2 DEF OpenFails, ReadTypes, layers
  <2>2. stack = <<>>
    BY <1>0, <1>2 DEF OpenFails, StackInv, ReadTypes
  <2>3. StackInv' /\ CloseInv'
    BY <1>0, <1>2, <2>2 DEF OpenFails, StackInv, CloseInv, layers
  <2>4. ErrorInv'
    BY <1>0, <1>2 DEF OpenFails, ErrorInv
  <2> QED BY <2>1, <2>3, <2>4 DEF StreamReadInv
<1>3. CASE OpenSource
  <2>1. ReadTypes'
    BY <1>0, <1>3 DEF OpenSource, ReadTypes, Layer
  <2>2. StackInv' /\ CloseInv'
    BY <1>0, <1>3 DEF OpenSource, StackInv, CloseInv, ReadTypes, Layer
  <2>3. ErrorInv'
    BY <1>0, <1>3 DEF OpenSource, ErrorInv
  <2> QED BY <2>1, <2>2, <2>3 DEF StreamReadInv
<1>4. CASE OpenRanged
  <2>1. \/ top' = 0 /\ open' = {0} /\ stack' = <<0>>
        \/ UNCHANGED <<top, open, stack>>
    BY <1>4 DEF OpenRanged
  <2>2. /\ UNCHANGED <<op, todo, greedy, closes, written>> /\ op = "random" /\ place = "opening"
        /\ \/ place' = "open" /\ UNCHANGED <<raised, failed>>
           \/ place' = "closing" /\ raised' = "opening" /\ failed' = failed \cup {"opening"}
    BY <1>4 DEF OpenRanged
  <2>3. top = -1 /\ Len(stack) = 0 /\ todo \in 0..MaxTransforms
        /\ \A l \in Layer : closes[l] = 0
    BY <1>0, <2>2 DEF StackInv, CloseInv, ReadTypes
  <2>4. ErrorInv'
    BY <1>0, <2>2 DEF ErrorInv, Copies
  <2>5. CASE top' = 0 /\ open' = {0} /\ stack' = <<0>>
    <3>1. 0 \in Layer /\ Len(stack') = 1 /\ stack'[1] = 0 /\ stack' \in Seq(Layer)
      BY <2>5 DEF Layer
    <3>2. ReadTypes'
      BY <1>0, <2>2, <2>5, <3>1 DEF ReadTypes
    <3>3. StackInv'
      BY <2>2, <2>3, <2>5, <3>1 DEF StackInv
    <3>4. CloseInv'
      BY <2>2, <2>3, <2>5, <3>1 DEF CloseInv, Layer
    <3> QED BY <3>2, <3>3, <3>4, <2>4 DEF StreamReadInv
  <2>6. CASE UNCHANGED <<top, open, stack>>
    <3>1. ReadTypes'
      BY <1>0, <2>2, <2>6 DEF ReadTypes
    <3>2. StackInv' /\ CloseInv'
      BY <1>0, <2>2, <2>6 DEF StackInv, CloseInv
    <3> QED BY <3>1, <3>2, <2>4 DEF StreamReadInv
  <2> QED BY <2>1, <2>5, <2>6
<1>5. CASE AddLayer
  <2>1. /\ UNCHANGED <<op, place, raised, failed, written>> /\ place = "building"
        /\ todo > 0 /\ todo' = todo - 1
    BY <1>5 DEF AddLayer
  <2>2. ErrorInv'
    BY <1>0, <2>1 DEF ErrorInv
  <2>3. CASE UNCHANGED layers
    BY <1>0, <2>1, <2>2, <2>3 DEF layers, StreamReadInv, ReadTypes, StackInv, CloseInv
  <2>4. CASE /\ top' = top + 1 /\ open' = open \cup {top'} /\ stack' = Append(stack, top')
             /\ \E g \in BOOLEAN : greedy' = IF g THEN greedy \cup {top'} ELSE greedy
             /\ UNCHANGED closes
    <3>1. top' \in Layer
      BY <1>0, <2>1, <2>4 DEF ReadTypes, StackInv, Layer
    <3>2. /\ stack' \in Seq(Layer) /\ Len(stack') = Len(stack) + 1
          /\ \A i \in 1..Len(stack') : stack'[i] = IF i <= Len(stack) THEN stack[i] ELSE top'
      BY <1>0, <2>4, <3>1 DEF ReadTypes
    <3>3. ReadTypes'
      BY <1>0, <2>1, <2>4, <3>1, <3>2 DEF ReadTypes
    <3>4. StackInv'
      BY <1>0, <2>1, <2>4, <3>1, <3>2 DEF ReadTypes, StackInv, Layer
    <3>5. CloseInv'
      BY <1>0, <2>1, <2>4, <3>1, <3>2 DEF ReadTypes, StackInv, CloseInv, Layer
    <3> QED BY <2>2, <3>3, <3>4, <3>5 DEF StreamReadInv
  <2> QED BY <1>5, <2>3, <2>4 DEF AddLayer
<1>6. CASE UnwrapRaises
  BY <1>0, <1>6 DEF UnwrapRaises, layers, StreamReadInv, ReadTypes, StackInv, CloseInv, ErrorInv, Copies
<1>7. CASE Built
  BY <1>0, <1>7 DEF Built, layers, StreamReadInv, ReadTypes, StackInv, CloseInv, ErrorInv
<1> QED BY <1>1, <1>2, <1>3, <1>4, <1>5, <1>6, <1>7

-----------------------------------------------------------------------------
\* What SubSeq makes of a sequence whose last element is taken off.
LEMMA WithoutLast ==
    ASSUME NEW S, NEW s \in Seq(S), Len(s) >= 1
    PROVE  /\ SubSeq(s, 1, Len(s) - 1) \in Seq(S)
           /\ Len(SubSeq(s, 1, Len(s) - 1)) = Len(s) - 1
           /\ \A i \in 1..Len(s) - 1 : SubSeq(s, 1, Len(s) - 1)[i] = s[i]
<1> DEFINE n == Len(s) - 1
<1>1. n \in Nat /\ \A i \in 1..n : s[i] \in S
  OBVIOUS
<1> HIDE DEF n
<1>2. /\ SubSeq(s, 1, n) \in Seq(S)
      /\ Len(SubSeq(s, 1, n)) = IF 1 <= n THEN n - 1 + 1 ELSE 0
      /\ \A i \in 1..n - 1 + 1 : SubSeq(s, 1, n)[i] = s[1 + i - 1]
  BY <1>1, SubSeqProperties
<1>3. /\ SubSeq(s, 1, n) \in Seq(S)
      /\ Len(SubSeq(s, 1, n)) = n
      /\ \A i \in 1..n : SubSeq(s, 1, n)[i] = s[i]
  BY <1>1, <1>2
<1> QED BY <1>3 DEF n

\* The top of a stack that is not empty, and what is under it.
LEMMA Popped ==
    ASSUME StackInv, ReadTypes, stack # <<>>
    PROVE  /\ TopEntry(stack) = Len(stack) - 1 /\ TopEntry(stack) \in Layer
           /\ Len(stack) >= 1
           /\ Rest(stack) \in Seq(Layer) /\ Len(Rest(stack)) = Len(stack) - 1
           /\ \A i \in 1..Len(Rest(stack)) : Rest(stack)[i] = stack[i]
<1>1. Len(stack) \in Nat /\ Len(stack) >= 1
  BY DEF ReadTypes
<1>2. TopEntry(stack) = Len(stack) - 1 /\ TopEntry(stack) \in Layer
  BY <1>1 DEF TopEntry, StackInv, ReadTypes
<1>3. /\ Rest(stack) \in Seq(Layer) /\ Len(Rest(stack)) = Len(stack) - 1
      /\ \A i \in 1..Len(Rest(stack)) : Rest(stack)[i] = stack[i]
  BY <1>1, WithoutLast DEF Rest, ReadTypes
<1> QED BY <1>1, <1>2, <1>3

\* Closing a layer: which are open afterwards, and how often each was closed.
LEMMA CloseStep == ASSUME StreamReadInv, CloseLayer PROVE StreamReadInv'
<1> USE TransformsAssumption
<1>0. ReadTypes /\ StackInv /\ CloseInv /\ ErrorInv
  BY DEF StreamReadInv
<1> DEFINE l == TopEntry(stack)
<1>1. /\ place \in {"unwinding", "closing", "finalizing"} /\ stack # <<>>
      /\ stack' = Rest(stack) /\ UNCHANGED <<life, op, place, todo, top, greedy, written>>
  BY DEF CloseLayer
<1>2. /\ l = Len(stack) - 1 /\ l \in Layer /\ Len(stack) >= 1
      /\ stack' \in Seq(Layer) /\ Len(stack') = Len(stack) - 1
      /\ \A i \in 1..Len(stack') : stack'[i] = stack[i]
  BY <1>0, <1>1, Popped
<1>3. StackInv'
  <2>1. Len(stack) \in Nat /\ top \in Int
    BY <1>0 DEF ReadTypes, Layer
  <2> QED BY <1>0, <1>1, <1>2, <2>1 DEF StackInv
<1>4. CASE l \notin open
  <2>1. UNCHANGED <<open, closes, raised, failed>>
    BY <1>4 DEF CloseLayer, Needed
  <2>2. ReadTypes'
    BY <1>0, <1>1, <1>2, <2>1 DEF ReadTypes
  <2>3. ErrorInv'
    BY <1>0, <1>1, <2>1 DEF ErrorInv
  <2>4. CloseInv'
    <3>1. Len(stack) \in Nat /\ top \in Int /\ l <= top
      BY <1>0, <1>2 DEF ReadTypes, StackInv, Layer
    <3>2. closes[l] = 1
      BY <1>0, <1>2, <1>4 DEF CloseInv
    <3> QED BY <1>0, <1>1, <1>2, <1>4, <2>1, <3>1, <3>2 DEF CloseInv, Layer
  <2> QED BY <1>3, <2>2, <2>3, <2>4 DEF StreamReadInv
<1>5. CASE l \in open
  <2>1. /\ closes' = [m \in Layer |-> IF m \in Closed(l) THEN closes[m] + 1 ELSE closes[m]]
        /\ \/ open' = open \ Closed(l) /\ UNCHANGED <<raised, failed>>
           \/ /\ \E s \in StaysOpen(l) : open' = (open \ Closed(l)) \cup s
              /\ raised' = Replaced("close")
              /\ failed' = failed \cup {IF place = "finalizing" THEN "finalizer" ELSE "close"}
    BY <1>5 DEF CloseLayer, Needed
  <2>2. /\ l \in Closed(l) /\ Closed(l) \subseteq open \cap Layer
        /\ \A m \in Closed(l) : m = l \/ m = l - 1
    BY <1>0, <1>2, <1>5 DEF Closed, ReadTypes
  <2>3. /\ open' \subseteq open
        /\ \A m \in open : m \in open' \/ m \in Closed(l)
        /\ \A m \in Closed(l) : m # l => m \notin open'
    BY <1>5, <2>1, <2>2 DEF StaysOpen
  <2>4. /\ raised' \in {raised, "close"} /\ failed \subseteq failed'
        /\ failed' \subseteq failed \cup {"close", "finalizer"}
    BY <2>1 DEF Replaced
  <2>5. ReadTypes'
    <3>1. closes' \in [Layer -> Nat]
      BY <1>0, <2>1 DEF ReadTypes
    <3> QED BY <1>0, <1>1, <1>2, <2>3, <2>4, <3>1 DEF ReadTypes
  <2>6. ErrorInv'
    <3>1. CASE UNCHANGED <<raised, failed>>
      BY <1>0, <1>1, <3>1 DEF ErrorInv
    <3>2. CASE /\ raised' = Replaced("close")
               /\ failed' = failed \cup {IF place = "finalizing" THEN "finalizer" ELSE "close"}
      BY <1>0, <1>1, <3>2 DEF ErrorInv, Replaced
    <3> QED BY <2>1, <3>1, <3>2
  <2>7. CloseInv'
    <3> SUFFICES ASSUME NEW m \in Layer
                 PROVE  /\ m < Len(stack') - 1 => m \in open' /\ closes'[m] = 0
                        /\ m = Len(stack') - 1 => closes'[m] = IF m \in open' THEN 0 ELSE 1
                        /\ Len(stack') <= m /\ m <= top => closes'[m] = 1
                        /\ m > top => closes'[m] = 0
      BY <1>1 DEF CloseInv
    <3>1. /\ Len(stack) \in Nat /\ top \in Int /\ m \in Int /\ l <= top
          /\ closes'[m] = IF m \in Closed(l) THEN closes[m] + 1 ELSE closes[m]
      BY <1>0, <1>2, <2>1 DEF ReadTypes, StackInv, Layer
    <3>2. CASE m = l
      BY <1>0, <1>2, <1>5, <2>2, <3>1, <3>2 DEF CloseInv
    <3>3. CASE m > l
      BY <1>0, <1>2, <2>2, <3>1, <3>3 DEF CloseInv
    <3>4. CASE m = l - 1
      BY <1>0, <1>2, <2>2, <2>3, <3>1, <3>4 DEF CloseInv
    <3>5. CASE m < l - 1
      BY <1>0, <1>2, <2>2, <2>3, <3>1, <3>5 DEF CloseInv
    <3> QED BY <1>2, <3>1, <3>2, <3>3, <3>4, <3>5
  <2> QED BY <1>3, <2>5, <2>6, <2>7 DEF StreamReadInv
<1> QED BY <1>4, <1>5

\* Each step keeps the invariant.
LEMMA StreamNextIInv == StreamIInv /\ [Next]_vars => StreamIInv'
<1> SUFFICES ASSUME StreamIInv, [Next]_vars PROVE StreamIInv'
  OBVIOUS
<1>0. LifeTypes /\ FacadeInv /\ StreamReadInv
  BY Halves DEF StreamIInv, StreamReadInv
<1>1. ASSUME NEW f \in Facades, Life(f) PROVE StreamIInv'
  <2>1. LifeTypes' /\ FacadeInv'
    BY <1>0, <1>1, LifeStep
  <2>2. UNCHANGED <<layers, op, place, todo, raised, failed, written>>
    BY <1>1 DEF Life
  <2>3. StreamReadInv'
    BY <1>0, <2>2 DEF layers, StreamReadInv, ReadTypes, StackInv, CloseInv, ErrorInv
  <2> QED BY <2>1, <2>3 DEF StreamIInv, StreamReadInv, TypeOK, LifeTypes, ReadTypes
<1>2. ASSUME Read PROVE StreamIInv'
  <2>1. UNCHANGED life
    BY <1>2 DEF Read, Begin, OpenFails, OpenSource, OpenRanged, AddLayer, UnwrapRaises, Built,
                Use, CloseLayer, Finish
  <2>2. LifeTypes' /\ FacadeInv'
    BY <1>0, <2>1 DEF life, LifeTypes, FacadeInv
  <2>3. StreamReadInv'
    <3>1. CASE \/ \E k \in Reads : Begin(k)
               \/ OpenFails \/ OpenSource \/ OpenRanged \/ AddLayer \/ UnwrapRaises \/ Built
      BY <1>0, <3>1, OpeningStep
    <3>2. CASE Use
      <4>1. UNCHANGED <<layers, op, todo>> /\ place = "open"
        BY <3>2 DEF Use
      <4>2. ReadTypes'
        BY <1>0, <3>2, <4>1 DEF Use, StreamReadInv, ReadTypes, layers
      <4>3. StackInv' /\ CloseInv'
        BY <1>0, <3>2, <4>1 DEF Use, StreamReadInv, StackInv, CloseInv, layers
      <4>4. ErrorInv'
        BY <1>0, <3>2 DEF Use, StreamReadInv, ErrorInv
      <4> QED BY <4>2, <4>3, <4>4 DEF StreamReadInv
    <3>3. CASE CloseLayer
      BY <1>0, <3>3, CloseStep
    <3>4. CASE Finish
      BY <1>0, <3>4 DEF Finish, layers, StreamReadInv, ReadTypes, StackInv, CloseInv, ErrorInv
    <3> QED BY <1>2, <3>1, <3>2, <3>3, <3>4 DEF Read
  <2> QED BY <2>2, <2>3 DEF StreamIInv, StreamReadInv, TypeOK, LifeTypes, ReadTypes
<1>3. CASE UNCHANGED vars
  BY <1>3 DEF vars, life, layers, StreamIInv, TypeOK, FacadeInv, StackInv, CloseInv, ErrorInv
<1> QED BY <1>1, <1>2, <1>3 DEF Next

LEMMA StreamInductive == Spec => []StreamIInv
<1>1. Init => StreamIInv
  BY StreamInitIInv
<1>2. StreamIInv /\ [Next]_vars => StreamIInv'
  BY StreamNextIInv
<1> QED BY <1>1, <1>2, PTL DEF Spec

-----------------------------------------------------------------------------
\* The types of a facade, its connection and its streams.
THEOREM StreamTypes == Spec => []TypeOK
<1>1. StreamIInv => TypeOK
  BY DEF StreamIInv
<1> QED BY <1>1, StreamInductive, PTL

\* Every layer of a stream is closed once, from the top down, whatever fails, for
\* a pipeline of any length (pipeline.py, facade.read_stream).
THEOREM LayersClosed == Spec => []ClosedOnceFromTheTop
<1> SUFFICES ASSUME StreamIInv PROVE ClosedOnceFromTheTop
  BY StreamInductive, PTL
<1> USE TransformsAssumption
<1>0. TypeOK /\ StackInv /\ CloseInv
  BY DEF StreamIInv
<1>1. Len(stack) \in Nat /\ top \in Int /\ top <= MaxTransforms /\ closes \in [Layer -> Nat]
  BY <1>0 DEF TypeOK, StackInv, Layer
<1>2. ASSUME place = "idle", NEW l \in 0..top PROVE closes[l] > 0
  <2>1. Len(stack) = 0 /\ l \in Layer
    BY <1>0, <1>1, <1>2 DEF StackInv, Layer
  <2> QED BY <1>0, <1>1, <1>2, <2>1 DEF CloseInv
<1>3. ASSUME NEW l \in Layer PROVE closes[l] <= 1
  BY <1>0, <1>1, <1>3 DEF CloseInv, Layer
<1>4. ASSUME NEW l \in Layer, closes[l] > 0, NEW m \in Layer, l < m, m <= top
      PROVE  closes[m] > 0
  BY <1>0, <1>1, <1>4 DEF CloseInv, Layer
<1> QED BY <1>2, <1>3, <1>4 DEF ClosedOnceFromTheTop

\* The outcome of a read or a copy is the one that the caller is told.
THEOREM TrueOutcome == Spec => []OutcomeIsTrue
<1>1. StreamIInv => OutcomeIsTrue
  BY DEF StreamIInv, ErrorInv, OutcomeIsTrue
<1> QED BY <1>1, StreamInductive, PTL

\* No connection is left without an owner and none is disconnected twice.
THEOREM OwnedConnection == Spec => []ConnectionHasOwner
<1>1. StreamIInv => ConnectionHasOwner
  BY DEF StreamIInv, FacadeInv, ConnectionHasOwner
<1> QED BY <1>1, StreamInductive, PTL

-----------------------------------------------------------------------------
(* Sequential readers (SequentialRead) *)

\* A run of bytes: they are numbered on from the one after `from`.
IsRun(s, from) == s \in Seq(Int) /\ \A i \in 1..Len(s) : s[i] = from + i

\* The two parts of a run, and what is added to one.
LEMMA RunsJoin ==
    ASSUME NEW s, NEW t, NEW a \in Int, IsRun(s, a), IsRun(t, a + Len(s))
    PROVE  IsRun(s \o t, a) /\ Len(s \o t) = Len(s) + Len(t)
<1>1. /\ s \o t \in Seq(Int)
      /\ Len(s \o t) = Len(s) + Len(t)
      /\ \A i \in 1..Len(s) + Len(t) : (s \o t)[i] = IF i <= Len(s) THEN s[i] ELSE t[i - Len(s)]
  BY ConcatProperties DEF IsRun
<1>2. ASSUME NEW i \in 1..Len(s) + Len(t) PROVE (s \o t)[i] = a + i
  <2>1. Len(s) \in Nat /\ Len(t) \in Nat
    BY DEF IsRun
  <2>2. CASE i <= Len(s)
    BY <1>1, <2>1, <2>2 DEF IsRun
  <2>3. CASE i > Len(s)
    <3>1. i - Len(s) \in 1..Len(t) /\ (s \o t)[i] = t[i - Len(s)]
      BY <1>1, <2>1, <2>3
    <3>2. t[i - Len(s)] = a + Len(s) + (i - Len(s))
      BY <3>1 DEF IsRun
    <3> QED BY <2>1, <3>1, <3>2
  <2> QED BY <2>1, <2>2, <2>3
<1> QED BY <1>1, <1>2 DEF IsRun

LEMMA RunsSplit ==
    ASSUME NEW s, NEW a \in Int, IsRun(s, a), NEW n \in 0..Len(s)
    PROVE  /\ IsRun(SubSeq(s, 1, n), a) /\ Len(SubSeq(s, 1, n)) = n
           /\ IsRun(SubSeq(s, n + 1, Len(s)), a + n) /\ Len(SubSeq(s, n + 1, Len(s))) = Len(s) - n
<1> DEFINE N == Len(s)
<1>0. N \in Nat /\ n \in Nat /\ n <= N /\ \A i \in 1..N : s[i] = a + i /\ s[i] \in Int
  BY DEF IsRun
<1> HIDE DEF N
<1>1. /\ SubSeq(s, 1, n) \in Seq(Int)
      /\ Len(SubSeq(s, 1, n)) = IF 1 <= n THEN n - 1 + 1 ELSE 0
      /\ \A i \in 1..n - 1 + 1 : SubSeq(s, 1, n)[i] = s[1 + i - 1]
  <2>1. \A i \in 1..n : s[i] \in Int
    BY <1>0
  <2> QED BY <1>0, <2>1, SubSeqProperties
<1> DEFINE m == n + 1
<1>2. m \in Nat /\ m = n + 1
  BY <1>0
<1> HIDE DEF m
<1>3. /\ SubSeq(s, m, N) \in Seq(Int)
      /\ Len(SubSeq(s, m, N)) = IF m <= N THEN N - m + 1 ELSE 0
      /\ \A i \in 1..N - m + 1 : SubSeq(s, m, N)[i] = s[m + i - 1]
  <2>1. \A i \in m..N : s[i] \in Int
    BY <1>0, <1>2
  <2> QED BY <1>0, <1>2, <2>1, SubSeqProperties
<1>4. IsRun(SubSeq(s, 1, n), a) /\ Len(SubSeq(s, 1, n)) = n
  BY <1>0, <1>1 DEF IsRun
<1>5. IsRun(SubSeq(s, m, N), a + n) /\ Len(SubSeq(s, m, N)) = N - n
  <2>1. Len(SubSeq(s, m, N)) = N - n
    BY <1>0, <1>2, <1>3
  <2>2. ASSUME NEW i \in 1..N - n PROVE SubSeq(s, m, N)[i] = a + n + i
    <3>1. SubSeq(s, m, N)[i] = s[n + i] /\ n + i \in 1..N
      BY <1>0, <1>2, <1>3, <2>2
    <3> QED BY <1>0, <3>1
  <2> QED BY <1>3, <2>1, <2>2 DEF IsRun
<1> QED BY <1>2, <1>4, <1>5 DEF N, m

LEMMA RunOfBytes ==
    ASSUME NEW from \in Nat, NEW to \in Nat, from <= to
    PROVE  IsRun(Bytes(from, to), from) /\ Len(Bytes(from, to)) = to - from
<1>1. to - from \in Nat
  OBVIOUS
<1> QED BY <1>1 DEF IsRun, Bytes

LEMMA RunOfOne == ASSUME NEW x \in Int PROVE IsRun(<<x>>, x - 1) /\ Len(<<x>>) = 1
  BY DEF IsRun

LEMMA EmptyRun == ASSUME NEW a \in Int PROVE IsRun(<<>>, a) /\ Len(<<>>) = 0
  BY DEF IsRun

\* Two runs that begin alike: the shorter is a prefix of the longer.
LEMMA RunIsPrefix ==
    ASSUME NEW s, NEW t, NEW a \in Int, IsRun(s, a), IsRun(t, a), Len(s) <= Len(t)
    PROVE  IsPrefix(s, t) /\ (Len(s) = Len(t) => s = t)
<1>1. ASSUME NEW u, NEW v, IsRun(u, a), IsRun(v, a), Len(u) = Len(v) PROVE u = v
  <2>1. u \in Seq(Int) /\ v \in Seq(Int) /\ \A i \in 1..Len(u) : u[i] = v[i]
    BY <1>1 DEF IsRun
  <2> QED BY <1>1, <2>1, SeqEqual
<1>2. Len(s) \in Nat /\ Len(s) \in 0..Len(s) /\ Len(s) \in 0..Len(t)
  BY DEF IsRun
<1>3. /\ IsRun(SubSeq(s, 1, Len(s)), a) /\ Len(SubSeq(s, 1, Len(s))) = Len(s)
      /\ IsRun(SubSeq(t, 1, Len(s)), a) /\ Len(SubSeq(t, 1, Len(s))) = Len(s)
  BY <1>2, RunsSplit
<1>4. SubSeq(s, 1, Len(s)) = SubSeq(t, 1, Len(s))
  BY <1>1, <1>3
<1>5. Len(s) = Len(t) => s = t
  BY <1>1
<1> QED BY <1>4, <1>5 DEF IsPrefix

-----------------------------------------------------------------------------
\* Where the numbers begin, and how many bytes the reader has made of those it
\* was given.
Start == IF reader = "encoder" THEN -1 ELSE 0

Taken ==
    IF reader # "encoder" THEN given
    ELSE IF ended THEN Size + 2
    ELSE IF given = 0 THEN 0 ELSE given + 1

ReadTypeOK ==
    /\ reader \in {"sized", "chunks", "encoder", "bounded"}
    /\ given \in 0..Size
    /\ ended \in BOOLEAN
    /\ bound \in Nat
    /\ want \in 0..Chunk
    /\ told \in {"data", "eof", "failed", "refused"}
    /\ want > 0 => told = "data"

\* What was returned, what waits to be returned and what the compressor holds
\* are one run of bytes.
RunInv ==
    /\ IsRun(out, Start)
    /\ IsRun(pending, Start + Len(out))
    /\ IsRun(held, Start + Len(out) + Len(pending))

\* It is as long as what the source gave; only a refusal keeps bytes back.
CountInv ==
    /\ told # "refused" => Len(out) + Len(pending) + Len(held) = Taken
    /\ reader # "encoder" => held = <<>> /\ ~ended
    /\ reader \in {"sized", "bounded"} => pending = <<>>
    /\ ended => given = Size /\ held = <<>>
    /\ reader = "bounded" => Len(out) <= bound /\ (told # "refused" => given <= bound)

\* The end that the reader told, and the limit.
EndInv ==
    /\ told = "eof" => pending = <<>> /\ held = <<>> /\ given = Size /\ (reader = "encoder" => ended)
    /\ told = "refused" => reader = "bounded" /\ Size > bound /\ Len(out) <= Size

ReadIInv == ReadTypeOK /\ RunInv /\ CountInv /\ EndInv

-----------------------------------------------------------------------------
\* At first nothing is given and nothing returned.
LEMMA ReadInitIInv == ReadInit => ReadIInv
<1> SUFFICES ASSUME ReadInit PROVE ReadIInv
  OBVIOUS
<1> USE ReadAssumption
<1>1. Start \in Int /\ Len(<<>>) = 0 /\ IsRun(<<>>, Start)
  <2>1. Start \in Int
    BY DEF Start
  <2> QED BY <2>1, EmptyRun
<1>2. /\ out = <<>> /\ pending = <<>> /\ held = <<>> /\ given = 0 /\ ended = FALSE
      /\ want = 0 /\ told = "data"
      /\ reader \in {"sized", "chunks", "encoder", "bounded"} /\ bound \in Nat
  BY DEF ReadInit
<1>3. Start + Len(out) = Start /\ Start + Len(out) + Len(pending) = Start
  BY <1>1, <1>2
<1>4. ReadTypeOK
  <2>1. 0 \in 0..Size /\ 0 \in 0..Chunk /\ FALSE \in BOOLEAN /\ ~(0 > 0)
    BY ReadAssumption
  <2> QED BY <1>2, <2>1 DEF ReadTypeOK
<1>5. RunInv
  BY <1>1, <1>2, <1>3 DEF RunInv
<1>6. CountInv /\ EndInv
  BY <1>1, <1>2 DEF CountInv, EndInv, Taken
<1> QED BY <1>4, <1>5, <1>6 DEF ReadIInv

\* The numbers that the invariant speaks of are numbers.
LEMMA Numbers ==
    ASSUME ReadIInv
    PROVE  /\ Start \in Int /\ Len(out) \in Nat /\ Len(pending) \in Nat /\ Len(held) \in Nat
           /\ given \in Nat /\ given <= Size /\ Size \in Nat /\ bound \in Nat
           /\ Chunk \in Nat /\ want \in Nat
  BY ReadAssumption DEF ReadIInv, ReadTypeOK, RunInv, IsRun, Start

\* Bytes that come straight from a source that gave as many as were returned.
LEMMA ReturnsBytes ==
    ASSUME ReadIInv, reader \in {"sized", "bounded"}, told = "data",
           NEW g \in Nat, given <= g, g <= Size,
           out' = out \o Bytes(given, g)
    PROVE  /\ IsRun(out', 0) /\ Len(out') = g
           /\ Bytes(given, g) = <<>> <=> g = given
<1>1. Start = 0 /\ IsRun(out, 0) /\ Len(out) = given /\ given \in Nat
  BY Numbers, EmptyRun DEF ReadIInv, RunInv, CountInv, Start, Taken
<1>2. IsRun(Bytes(given, g), given) /\ Len(Bytes(given, g)) = g - given
  BY <1>1, RunOfBytes
<1>3. IsRun(out', 0) /\ Len(out') = g
  BY <1>1, <1>2, RunsJoin
<1>4. Bytes(given, g) = <<>> <=> g = given
  BY <1>1, <1>2, EmptySeq DEF IsRun
<1> QED BY <1>3, <1>4

\* A native sized read.
LEMMA SizedStep == ReadIInv /\ ReadSized => ReadIInv'
<1> SUFFICES ASSUME ReadIInv, ReadSized PROVE ReadIInv'
  OBVIOUS
<1>1. /\ reader = "sized" /\ want > 0 /\ want' = 0 /\ out' = out \o Bytes(given, given')
      /\ told' = IF Bytes(given, given') = <<>> THEN "eof" ELSE "data"
      /\ UNCHANGED <<reader, pending, held, ended, bound>>
      /\ given' \in IF given = Size THEN {Size} ELSE given + 1..Least(given + want, Size)
  BY DEF ReadSized, Return
<1>2. given' \in Nat /\ given <= given' /\ given' <= Size /\ (given' = given => given = Size)
  BY <1>1, Numbers DEF Least
<1>3. IsRun(out', 0) /\ Len(out') = given' /\ (Bytes(given, given') = <<>> <=> given' = given)
  BY <1>1, <1>2, ReturnsBytes DEF ReadIInv, ReadTypeOK
<1>4. /\ told' \in {"data", "eof"} /\ (told' = "eof" => given' = Size)
      /\ pending' = <<>> /\ held' = <<>> /\ ~ended' /\ Len(<<>>) = 0 /\ Len(out') \in Nat
  BY <1>1, <1>2, <1>3, EmptyRun DEF ReadIInv, CountInv
<1>5. ReadTypeOK'
  BY <1>1, <1>2, <1>4, Numbers DEF ReadIInv, ReadTypeOK
<1>6. RunInv'
  BY <1>1, <1>3, <1>4, EmptyRun DEF RunInv, Start
<1>7. CountInv' /\ EndInv'
  BY <1>1, <1>3, <1>4 DEF CountInv, EndInv, Taken
<1> QED BY <1>5, <1>6, <1>7 DEF ReadIInv

\* A bounded read: nothing is returned of data that goes on behind the limit.
LEMMA BoundedStep == ReadIInv /\ (ReadBounded \/ ReadAllBounded) => ReadIInv'
<1> SUFFICES ASSUME ReadIInv, ReadBounded \/ ReadAllBounded PROVE ReadIInv'
  OBVIOUS
<1>1. /\ reader = "bounded" /\ told = "data" /\ want' = 0
      /\ UNCHANGED <<reader, pending, held, ended, bound>>
  BY DEF ReadBounded, ReadAllBounded, Return, ReadIInv, ReadTypeOK
<1>2. /\ pending = <<>> /\ held = <<>> /\ ~ended /\ Len(<<>>) = 0
      /\ Len(out) = given /\ given <= bound
  BY <1>1, Numbers, EmptyRun DEF ReadIInv, CountInv, Taken
<1>3. given' \in Nat /\ given <= given' /\ given' <= Size /\ (given' = given => given = Size)
  <2>1. CASE ReadBounded
    <3>1. Cap(want) > 0 /\ Cap(want) \in Nat
      BY <1>2, <2>1, Numbers DEF ReadBounded, Cap, Least
    <3>2. given' \in IF given = Size THEN {given} ELSE given + 1..Least(given + Cap(want), Size)
      BY <2>1, <3>1 DEF ReadBounded
    <3> QED BY <3>1, <3>2, Numbers DEF Least
  <2>2. CASE ReadAllBounded
    BY <1>2, <2>2, Numbers DEF ReadAllBounded, Cap, Least
  <2> QED BY <2>1, <2>2
<1>4. CASE Passed(given')
  <2>1. told' = "refused" /\ out' = out /\ Size > bound
    BY <1>3, <1>4, Numbers DEF ReadBounded, ReadAllBounded, Passed
  <2>2. ReadTypeOK'
    BY <1>1, <1>3, <2>1, Numbers DEF ReadIInv, ReadTypeOK
  <2>3. RunInv'
    BY <1>1, <2>1 DEF ReadIInv, RunInv, Start
  <2>4. CountInv' /\ EndInv'
    BY <1>1, <1>2, <1>3, <2>1, Numbers DEF CountInv, EndInv, Taken
  <2> QED BY <2>2, <2>3, <2>4 DEF ReadIInv
<1>5. CASE ~Passed(given')
  <2>1. given' <= bound
    BY <1>3, <1>5, Numbers DEF Passed
  <2>2. /\ out' = out \o Bytes(given, given')
        /\ told' = "data" \/ told' = "eof"
        /\ told' = "eof" => given' = Size \/ Bytes(given, given') = <<>>
    <3>1. CASE ReadBounded
      BY <1>5, <3>1 DEF ReadBounded, Return
    <3>2. CASE ReadAllBounded
      <4>1. given' = Least(given + Cap(Size), Size)
        BY <3>2 DEF ReadAllBounded
      <4>2. given' = Size
        BY <1>2, <2>1, <4>1, Numbers DEF Cap, Least
      <4> QED BY <1>5, <3>2, <4>2 DEF ReadAllBounded
    <3> QED BY <3>1, <3>2
  <2>3. IsRun(out', 0) /\ Len(out') = given' /\ (Bytes(given, given') = <<>> <=> given' = given)
    BY <1>1, <1>3, <2>2, ReturnsBytes
  <2>4. told' = "eof" => given' = Size
    BY <1>3, <2>2, <2>3
  <2>5. ReadTypeOK'
    BY <1>1, <1>3, <2>2, Numbers DEF ReadIInv, ReadTypeOK
  <2>6. RunInv'
    BY <1>1, <1>2, <1>3, <2>3, EmptyRun DEF RunInv, Start
  <2>7. Len(out') + Len(pending') + Len(held') = Taken'
    <3>1. Taken' = given' /\ Len(pending') = 0 /\ Len(held') = 0
      BY <1>1, <1>2 DEF Taken
    <3>2. PICK g \in Nat : given' = g
      BY <1>3
    <3>3. Len(out') = g /\ Taken' = g
      BY <2>3, <3>1, <3>2
    <3> QED BY <3>1, <3>3
  <2>8. CountInv'
    BY <1>1, <1>2, <2>1, <2>3, <2>7 DEF CountInv
  <2>9. EndInv'
    BY <1>1, <1>2, <2>2, <2>4 DEF EndInv
  <2> QED BY <2>5, <2>6, <2>8, <2>9 DEF ReadIInv
<1> QED BY <1>4, <1>5

\* The next chunk waits to be returned.
LEMMA ChunkStep == ReadIInv /\ NextChunk => ReadIInv'
<1> SUFFICES ASSUME ReadIInv, NextChunk PROVE ReadIInv'
  OBVIOUS
<1>1. /\ reader = "chunks" /\ want > 0 /\ pending = <<>> /\ pending' = Bytes(given, given')
      /\ UNCHANGED <<reader, held, ended, bound, want, out, told>>
  BY DEF NextChunk
<1>2. given' \in Nat /\ given <= given' /\ given' <= Size
  BY Numbers DEF NextChunk, Least
<1>3. held = <<>> /\ Len(<<>>) = 0 /\ Len(out) = given /\ ~ended /\ told = "data" /\ Start = 0
  BY <1>1, Numbers, EmptyRun DEF ReadIInv, CountInv, Taken, ReadTypeOK, Start
<1>4. IsRun(pending', given) /\ Len(pending') = given' - given
  BY <1>1, <1>2, Numbers, RunOfBytes
<1>5. ReadTypeOK'
  BY <1>1, <1>2, Numbers DEF ReadIInv, ReadTypeOK
<1>6. RunInv'
  <2>1. IsRun(held', Start' + Len(out') + Len(pending'))
    BY <1>1, <1>2, <1>3, <1>4, Numbers, EmptyRun DEF Start
  <2> QED BY <1>1, <1>3, <1>4, <2>1, Numbers DEF ReadIInv, RunInv, Start
<1>7. CountInv'
  BY <1>1, <1>2, <1>3, <1>4, Numbers DEF CountInv, Taken
<1>8. EndInv'
  BY <1>1, <1>3 DEF EndInv
<1> QED BY <1>5, <1>6, <1>7, <1>8 DEF ReadIInv

\* No chunk is left.
LEMMA NoChunkStep == ReadIInv /\ NoMoreChunks => ReadIInv'
<1> SUFFICES ASSUME ReadIInv, NoMoreChunks PROVE ReadIInv'
  OBVIOUS
<1>1. /\ reader = "chunks" /\ want > 0 /\ pending = <<>> /\ given = Size
      /\ out' = out \o <<>> /\ told' = "eof" /\ want' = 0
      /\ UNCHANGED <<reader, given, pending, held, ended, bound>>
  BY DEF NoMoreChunks, Return
<1>2. out' = out
  BY <1>1, ConcatEmptySeq DEF ReadIInv, RunInv, IsRun
<1>3. ReadTypeOK'
  BY <1>1, Numbers DEF ReadIInv, ReadTypeOK
<1>4. RunInv'
  BY <1>1, <1>2 DEF ReadIInv, RunInv, Start
<1>5. told = "data"
  BY <1>1 DEF ReadIInv, ReadTypeOK
<1>6. CountInv' /\ EndInv'
  BY <1>1, <1>2, <1>5 DEF ReadIInv, CountInv, EndInv, Taken
<1> QED BY <1>3, <1>4, <1>6 DEF ReadIInv

\* What waits is returned from the front; nothing is returned only at the end.
LEMMA TakeStep == ReadIInv /\ TakePending => ReadIInv'
<1> SUFFICES ASSUME ReadIInv, TakePending PROVE ReadIInv'
  OBVIOUS
<1> DEFINE n == Least(want, Len(pending))
<1>1. /\ want > 0 /\ want' = 0
      /\ \/ reader = "chunks" /\ pending # <<>>
         \/ reader = "encoder" /\ (Len(pending) >= want \/ ended)
      /\ out' = out \o SubSeq(pending, 1, n)
      /\ told' = IF SubSeq(pending, 1, n) = <<>> THEN "eof" ELSE "data"
      /\ pending' = SubSeq(pending, n + 1, Len(pending))
      /\ UNCHANGED <<reader, given, held, ended, bound>>
  BY DEF TakePending, Return
<1>2. n \in 0..Len(pending) /\ (n = 0 => Len(pending) = 0)
  BY <1>1, Numbers DEF Least
<1> HIDE DEF n
<1>3. told = "data" /\ IsRun(out, Start) /\ IsRun(pending, Start + Len(out))
      /\ IsRun(held, Start + Len(out) + Len(pending))
      /\ Len(out) + Len(pending) + Len(held) = Taken
  BY <1>1 DEF ReadIInv, ReadTypeOK, RunInv, CountInv
<1>4. /\ IsRun(SubSeq(pending, 1, n), Start + Len(out)) /\ Len(SubSeq(pending, 1, n)) = n
      /\ IsRun(pending', Start + Len(out) + n) /\ Len(pending') = Len(pending) - n
  BY <1>1, <1>2, <1>3, Numbers, RunsSplit, SMTT(30)
<1>5. IsRun(out', Start) /\ Len(out') = Len(out) + n
  BY <1>1, <1>3, <1>4, Numbers, RunsJoin
<1>6. told' \in {"data", "eof"} /\ (told' = "eof" => Len(pending) = 0 /\ n = 0)
  <2>1. SubSeq(pending, 1, n) = <<>> => n = 0
    BY <1>4, EmptyRun
  <2> QED BY <1>1, <1>2, <2>1
<1>7. ReadTypeOK'
  BY <1>1, <1>6, Numbers DEF ReadIInv, ReadTypeOK
<1>8. RunInv'
  <2>1. Start' = Start /\ Start + Len(out') = Start + Len(out) + n
        /\ Start + Len(out') + Len(pending') = Start + Len(out) + Len(pending)
    <3>1. Start' = Start /\ Start \in Int /\ n \in Int /\ Len(out) \in Int /\ Len(pending) \in Int
      BY <1>1, <1>2, Numbers DEF Start
    <3> QED BY <1>4, <1>5, <3>1
  <2> QED BY <1>1, <1>3, <1>4, <1>5, <2>1 DEF RunInv
<1>9. CountInv'
  <2>1. Len(out') + Len(pending') + Len(held') = Taken'
    <3>1. Taken' = Taken /\ held' = held
      BY <1>1 DEF Taken
    <3>2. n \in Int /\ Len(out) \in Int /\ Len(pending) \in Int /\ Len(held) \in Int
      BY <1>2, Numbers
    <3> QED BY <1>3, <1>4, <1>5, <3>1, <3>2
  <2> QED BY <1>1, <2>1 DEF ReadIInv, CountInv
<1>10. EndInv'
  <2>1. ASSUME told' = "eof" PROVE pending' = <<>> /\ held' = <<>> /\ given' = Size /\ (reader' = "encoder" => ended')
    <3>1. Len(pending) = 0 /\ Len(pending') = 0
      BY <1>2, <1>4, <1>6, <2>1
    <3>2. pending = <<>> /\ pending' = <<>>
      BY <1>3, <1>4, <3>1, EmptySeq DEF IsRun
    <3>3. reader = "encoder" /\ ended
      BY <1>1, <3>1, <3>2, Numbers
    <3> QED BY <1>1, <3>2, <3>3 DEF ReadIInv, CountInv
  <2> QED BY <1>6, <2>1 DEF EndInv
<1> QED BY <1>7, <1>8, <1>9, <1>10 DEF ReadIInv

\* The header is the first byte of the encoder's run; later there is none.
LEMMA HeaderRun ==
    ASSUME ReadIInv, reader = "encoder", ~ended, told = "data"
    PROVE  /\ IsRun(pending \o Header, Start + Len(out))
           /\ IsRun(held, Start + Len(out) + Len(pending) + Len(Header))
           /\ Len(pending \o Header) = Len(pending) + Len(Header)
           /\ Len(Header) \in Nat
           /\ Start + Len(out) + Len(pending) + Len(Header) + Len(held) = given
<1> DEFINE behind == Start + Len(out) + Len(pending)
<1>1. /\ IsRun(pending, Start + Len(out)) /\ IsRun(held, behind)
      /\ Len(out) + Len(pending) + Len(held) = Taken
      /\ Start = -1 /\ Taken = IF given = 0 THEN 0 ELSE given + 1
  BY DEF ReadIInv, RunInv, CountInv, Start, Taken
<1>2. CASE given = 0
  <2>1. Len(out) = 0 /\ Len(pending) = 0 /\ Len(held) = 0
    BY <1>1, <1>2, Numbers
  <2>2. Header = <<0>> /\ IsRun(<<0>>, -1) /\ Len(<<0>>) = 1
    BY <1>2, RunOfOne DEF Header, GzipHeader
  <2>3. IsRun(held, behind + Len(Header))
    BY <1>1, <2>1 DEF IsRun
  <2>4. Start + Len(out) \in Int /\ Start + Len(out) + Len(pending) = -1
    BY <1>1, <2>1
  <2>5. IsRun(pending \o Header, Start + Len(out)) /\ Len(pending \o Header) = Len(pending) + Len(Header)
    BY <1>1, <2>2, <2>4, RunsJoin
  <2> QED BY <1>1, <1>2, <2>1, <2>2, <2>3, <2>5
<1>3. CASE given # 0
  <2>1. Header = <<>> /\ Len(<<>>) = 0 /\ pending \o Header = pending
    BY <1>1, <1>3, EmptyRun, ConcatEmptySeq DEF Header, IsRun
  <2>2. behind + 0 = behind /\ behind + Len(held) = given
    BY <1>1, <1>3, Numbers
  <2> QED BY <1>1, <2>1, <2>2, Numbers
<1> QED BY <1>2, <1>3

\* The compressor: what it gives out goes behind what waits, the header first.
LEMMA FillStep == ReadIInv /\ Fill => ReadIInv'
<1> SUFFICES ASSUME ReadIInv, Fill PROVE ReadIInv'
  OBVIOUS
<1>1. /\ reader = "encoder" /\ ~ended /\ want > 0 /\ told = "data"
      /\ UNCHANGED <<reader, ended, bound, want, out, told>>
      /\ given' \in given + 1..Least(given + Chunk, Size)
  BY Numbers DEF Fill, ReadIInv, ReadTypeOK
<1>2. PICK g \in Nat : given' = g /\ given < g /\ g <= Size
  BY <1>1, Numbers DEF Least
<1> DEFINE all == held \o Bytes(given, g)
           ahead == Start + Len(out)
           front == pending \o Header
           base == ahead + Len(pending) + Len(Header)
<1>3. PICK n \in 0..Len(held) + g - given :
          pending' = front \o SubSeq(all, 1, n) /\ held' = SubSeq(all, n + 1, Len(all))
  BY <1>2 DEF Fill
<1>4. /\ IsRun(front, ahead) /\ IsRun(held, base)
      /\ Len(front) = Len(pending) + Len(Header)
      /\ Len(Header) \in Nat /\ base + Len(held) = given
  BY <1>1, HeaderRun
<1>5. Start = -1 /\ ahead \in Int /\ base \in Int /\ base = ahead + Len(front)
  BY <1>1, <1>4, Numbers DEF Start
<1>6. IsRun(out, Start) /\ Start' = Start /\ out' = out
  BY <1>1 DEF ReadIInv, RunInv, Start
<1> HIDE DEF all, ahead, front, base
<1>7. IsRun(all, base) /\ Len(all) = Len(held) + (g - given)
  <2>1. given \in Nat /\ given <= g
    BY <1>2, Numbers
  <2>2. IsRun(Bytes(given, g), given) /\ Len(Bytes(given, g)) = g - given
    BY <2>1, RunOfBytes
  <2> QED BY <1>4, <1>5, <2>2, RunsJoin DEF all
<1>8. n \in 0..Len(all) /\ n \in Int
  BY <1>2, <1>3, <1>7, Numbers
<1>9. /\ IsRun(SubSeq(all, 1, n), base) /\ Len(SubSeq(all, 1, n)) = n
      /\ IsRun(held', base + n) /\ Len(held') = Len(all) - n
  BY <1>3, <1>5, <1>7, <1>8, RunsSplit
<1>10. IsRun(pending', ahead) /\ Len(pending') = Len(front) + n
  BY <1>3, <1>4, <1>5, <1>9, RunsJoin
<1>11. ReadTypeOK'
  BY <1>1, <1>2, Numbers DEF ReadIInv, ReadTypeOK
<1>12. RunInv'
  <2>1. Start' + Len(out') = ahead
    BY <1>6 DEF ahead
  <2>2. ahead + Len(pending') = base + n
    BY <1>4, <1>5, <1>8, <1>10, Numbers
  <2> QED BY <1>6, <1>9, <1>10, <2>1, <2>2 DEF RunInv
<1>13. CountInv'
  <2>1. Taken' = g + 1
    BY <1>1, <1>2, Numbers DEF Taken
  <2>2. Len(out) + Len(front) + Len(held) = given + 1
    BY <1>4, <1>5, Numbers DEF ahead
  <2>3. Len(out) + Len(pending') + Len(held') = g + 1
    <3>1. Len(out) \in Int /\ Len(front) \in Int /\ Len(held) \in Int /\ given \in Int
      BY <1>4, Numbers
    <3> DEFINE p == Len(front) + n
               h == Len(held) + (g - given) - n
    <3>2. Len(pending') = p
      BY <1>10
    <3>3. Len(held') = h
      <4>1. h = Len(all) - n
        BY <1>7, <1>8, <3>1
      <4> QED BY <1>9, <4>1
    <3>4. Len(out) + p + h = g + 1
      BY <1>8, <2>2, <3>1
    <3> HIDE DEF p, h
    <3> QED BY <3>2, <3>3, <3>4
  <2> QED BY <1>1, <1>6, <2>1, <2>3 DEF CountInv
<1>14. EndInv'
  BY <1>1 DEF EndInv
<1> QED BY <1>11, <1>12, <1>13, <1>14 DEF ReadIInv

\* The end of the source: what the compressor held and the trailer.
LEMMA FillLastStep == ReadIInv /\ FillLast => ReadIInv'
<1> SUFFICES ASSUME ReadIInv, FillLast PROVE ReadIInv'
  OBVIOUS
<1>1. /\ reader = "encoder" /\ ~ended /\ want > 0 /\ told = "data" /\ given = Size
      /\ ended' = TRUE /\ held' = <<>>
      /\ pending' = ((pending \o Header) \o held) \o <<GzipTrailer>>
      /\ UNCHANGED <<reader, given, bound, want, out, told>>
  BY Numbers DEF FillLast, ReadIInv, ReadTypeOK
<1> DEFINE behind == Start + Len(out) + Len(pending)
<1>2. /\ IsRun(pending, Start + Len(out)) /\ IsRun(held, behind)
      /\ Len(out) + Len(pending) + Len(held) = Taken
      /\ Start = -1 /\ Taken = IF given = 0 THEN 0 ELSE given + 1
  BY <1>1 DEF ReadIInv, RunInv, CountInv, Start, Taken
<1>3. /\ IsRun(pending \o Header, Start + Len(out)) /\ IsRun(held, behind + Len(Header))
      /\ Len(pending \o Header) = Len(pending) + Len(Header)
      /\ Len(Header) \in Nat /\ behind + Len(Header) + Len(held) = given
  BY <1>1, HeaderRun
<1> DEFINE head == pending \o Header
           body == head \o held
<1>4. Start + Len(out) \in Int /\ Start + Len(out) + Len(head) = behind + Len(Header)
  BY <1>2, <1>3, Numbers
<1> HIDE DEF head
<1>5. IsRun(body, Start + Len(out)) /\ Len(body) = Len(head) + Len(held)
  BY <1>3, <1>4, RunsJoin DEF head
<1>6. Start + Len(out) + Len(body) = Size
  BY <1>1, <1>2, <1>3, <1>4, <1>5, Numbers DEF head
<1> HIDE DEF body
<1>7. IsRun(<<GzipTrailer>>, Size) /\ Len(<<GzipTrailer>>) = 1
  <2>1. GzipTrailer \in Int /\ GzipTrailer - 1 = Size
    BY Numbers DEF GzipTrailer
  <2> QED BY <2>1, RunOfOne
<1>8. IsRun(pending', Start + Len(out)) /\ Len(pending') = Len(body) + 1
  <2>1. pending' = body \o <<GzipTrailer>>
    BY <1>1 DEF body, head
  <2> QED BY <1>4, <1>5, <1>6, <1>7, <2>1, RunsJoin
<1>9. ReadTypeOK'
  BY <1>1, Numbers DEF ReadIInv, ReadTypeOK
<1>10. RunInv'
  <2>1. Start' = Start /\ out' = out /\ IsRun(out, Start)
    BY <1>1 DEF Start, ReadIInv, RunInv
  <2>2. Start + Len(out) + Len(pending') \in Int
    BY <1>4, <1>8 DEF IsRun
  <2> QED BY <1>1, <1>8, <2>1, <2>2, EmptyRun DEF RunInv
<1>11. CountInv'
  <2>1. Len(out') + Len(pending') + Len(held') = Size + 2
    BY <1>1, <1>2, <1>6, <1>8, Numbers, EmptyRun, SMTT(30) DEF IsRun
  <2> QED BY <1>1, <2>1 DEF CountInv, Taken
<1>12. EndInv'
  BY <1>1 DEF EndInv
<1> QED BY <1>9, <1>10, <1>11, <1>12 DEF ReadIInv

\* Each step keeps the invariant.
LEMMA ReadNextIInv == ReadIInv /\ [ReadNext]_readVars => ReadIInv'
<1> SUFFICES ASSUME ReadIInv, [ReadNext]_readVars PROVE ReadIInv'
  OBVIOUS
<1>1. ASSUME NEW n \in 1..Chunk, Ask(n) PROVE ReadIInv'
  <2>1. /\ told = "data" /\ want' = n
        /\ UNCHANGED <<reader, given, pending, held, ended, bound, out, told>>
    BY <1>1 DEF Ask
  <2>2. ReadTypeOK'
    BY <2>1, Numbers DEF ReadIInv, ReadTypeOK
  <2>3. RunInv' /\ CountInv' /\ EndInv'
    BY <2>1 DEF ReadIInv, RunInv, CountInv, EndInv, Taken, Start
  <2> QED BY <2>2, <2>3 DEF ReadIInv
<1>2. CASE SourceFails
  <2>1. /\ told' = "failed" /\ want' = 0 /\ told = "data"
        /\ UNCHANGED <<reader, given, pending, held, ended, bound, out>>
    BY <1>2, Numbers DEF SourceFails, ReadIInv, ReadTypeOK
  <2>2. ReadTypeOK'
    BY <2>1, Numbers DEF ReadIInv, ReadTypeOK
  <2>3. RunInv' /\ CountInv' /\ EndInv'
    BY <2>1 DEF ReadIInv, RunInv, CountInv, EndInv, Taken, Start
  <2> QED BY <2>2, <2>3 DEF ReadIInv
<1>3. CASE UNCHANGED readVars
  <2>1. ReadTypeOK' /\ RunInv'
    BY <1>3 DEF readVars, ReadIInv, ReadTypeOK, RunInv, Start
  <2>2. CountInv' /\ EndInv'
    BY <1>3 DEF readVars, ReadIInv, CountInv, EndInv, Taken
  <2> QED BY <2>1, <2>2 DEF ReadIInv
<1> QED BY <1>1, <1>2, <1>3, SizedStep, BoundedStep, ChunkStep, NoChunkStep, TakeStep, FillStep,
           FillLastStep DEF ReadNext

LEMMA ReadInductive == ReadSpec => []ReadIInv
<1>1. ReadInit => ReadIInv
  BY ReadInitIInv
<1>2. ReadIInv /\ [ReadNext]_readVars => ReadIInv'
  BY ReadNextIInv
<1> QED BY <1>1, <1>2, PTL DEF ReadSpec

\* All that a reader may ever return is one run, too.
LEMMA WholeRun ==
    ASSUME ReadIInv
    PROVE  IsRun(Whole, Start) /\ Len(Whole) = IF reader = "encoder" THEN Size + 2 ELSE Size
<1>1. IsRun(Bytes(0, Size), 0) /\ Len(Bytes(0, Size)) = Size /\ Size \in Nat
  <2>1. Size \in Nat /\ 0 \in Nat /\ 0 <= Size /\ Size - 0 = Size
    BY Numbers
  <2>2. IsRun(Bytes(0, Size), 0) /\ Len(Bytes(0, Size)) = Size - 0
    BY <2>1, RunOfBytes
  <2> QED BY <2>1, <2>2
<1>2. CASE reader # "encoder"
  BY <1>1, <1>2 DEF Whole, Start
<1>3. CASE reader = "encoder"
  <2> DEFINE head == <<GzipHeader>> \o Bytes(0, Size)
  <2>1. IsRun(<<GzipHeader>>, -1) /\ Len(<<GzipHeader>>) = 1
    BY RunOfOne DEF GzipHeader
  <2>2. IsRun(<<GzipTrailer>>, Size) /\ Len(<<GzipTrailer>>) = 1
    <3>1. GzipTrailer \in Int /\ GzipTrailer - 1 = Size
      BY <1>1 DEF GzipTrailer
    <3> QED BY <3>1, RunOfOne
  <2>3. IsRun(head, -1) /\ Len(head) = 1 + Size
    <3>1. -1 \in Int /\ -1 + 1 = 0
      OBVIOUS
    <3>2. IsRun(Bytes(0, Size), -1 + Len(<<GzipHeader>>))
      BY <1>1, <2>1, <3>1
    <3> QED BY <1>1, <2>1, <3>1, <3>2, RunsJoin
  <2> HIDE DEF head
  <2>4. -1 + Len(head) = Size
    BY <1>1, <2>3
  <2>5. IsRun(head \o <<GzipTrailer>>, -1) /\ Len(head \o <<GzipTrailer>>) = 1 + Size + 1
    BY <2>2, <2>3, <2>4, RunsJoin
  <2>6. Whole = head \o <<GzipTrailer>> /\ Start = -1
    BY <1>3 DEF Whole, Start, head
  <2> QED BY <1>1, <1>3, <2>5, <2>6
<1> QED BY <1>2, <1>3

-----------------------------------------------------------------------------
\* A reader returns the bytes of its source in order, none lost or repeated, and
\* tells the end only when it has returned them all, for data of any length and
\* any sizes of reads and chunks (sequential_io.py, _stream_encoder.py); a
\* bounded one refuses only what is longer than its limit (compression.py).
THEOREM EverythingDelivered == ReadSpec => []DeliversEverything
<1> SUFFICES ASSUME ReadIInv PROVE DeliversEverything
  BY ReadInductive, PTL
<1>1. IsRun(Whole, Start) /\ Len(Whole) = IF reader = "encoder" THEN Size + 2 ELSE Size
  BY WholeRun
<1>2. IsRun(out, Start)
  BY DEF ReadIInv, RunInv
<1>3. Len(out) <= Len(Whole)
  <2>1. Taken <= Len(Whole) /\ Taken \in Int
    BY <1>1, Numbers DEF Taken
  <2>2. CASE told # "refused"
    <3>1. Len(out) + Len(pending) + Len(held) = Taken
      BY <2>2 DEF ReadIInv, CountInv
    <3> QED BY <1>1, <2>1, <3>1, Numbers
  <2>3. CASE told = "refused"
    BY <1>1, <2>3 DEF ReadIInv, EndInv
  <2> QED BY <2>2, <2>3
<1>4. IsPrefix(out, Whole) /\ (Len(out) = Len(Whole) => out = Whole)
  BY <1>1, <1>2, <1>3, Numbers, RunIsPrefix
<1>5. ASSUME told = "eof" PROVE out = Whole
  <2>1. Len(pending) = 0 /\ Len(held) = 0 /\ given = Size /\ (reader = "encoder" => ended)
    BY <1>5, EmptyRun DEF ReadIInv, EndInv
  <2>2. Len(out) + Len(pending) + Len(held) = Taken
    BY <1>5 DEF ReadIInv, CountInv
  <2>3. Len(out) = Len(Whole)
    BY <1>1, <2>1, <2>2, Numbers DEF Taken
  <2> QED BY <1>4, <2>3
<1>6. /\ told = "refused" => Size > bound
      /\ reader = "bounded" => Len(out) <= bound
  BY DEF ReadIInv, EndInv, CountInv
<1> QED BY <1>4, <1>5, <1>6 DEF DeliversEverything

-----------------------------------------------------------------------------
(* Ranged reads (RangedRead) *)

Held == {NotCached} \cup Nat

\* The types, and where the reader stands in the object it opened.
RangeTypeOK ==
    /\ version \in Nat /\ first \in Nat /\ first <= version
    /\ length \in 1..MaxSize /\ size \in 0..MaxSize
    /\ source \in {"closed", "etag", "http", "s3", "file"}
    /\ cache \in [Offsets -> Held] /\ got \in [Offsets -> Held]
    /\ pos \in 0..MaxSize /\ end \in 0..MaxSize
    /\ missing \in SUBSET Offsets
    /\ asked \in (0..MaxSize) \X (0..MaxSize)
    /\ outcome \in {"none", "changed", "short", "mismatch"}

\* Until a source is open nothing is read.
ClosedInv ==
    source = "closed" =>
        /\ pos = end /\ outcome = "none"
        /\ cache = Nothing /\ got = Nothing

\* A byte that is kept was there since the opening, and one of a pinned reader
\* is of the version that was opened.
VersionInv ==
    /\ \A o \in Offsets :
          /\ cache[o] # NotCached => cache[o] \in first..version
          /\ got[o] # NotCached => got[o] \in first..version
    /\ source = "etag" => \A o \in Offsets : cache[o] \in {NotCached, first} /\ got[o] \in {NotCached, first}
    /\ outcome = "changed" => version # first

\* Of the running read each byte is cached or missing; of one that has ended
\* without an error each byte was returned.
RangeReadInv ==
    /\ missing # {} => pos < end
    /\ pos < end => asked = <<pos, end>> /\ \A o \in pos..end - 1 : o \in missing \/ cache[o] # NotCached
    /\ outcome = "none" /\ pos = end =>
          \A o \in asked[1]..asked[2] - 1 : got[o] # NotCached

RangeIInv == RangeTypeOK /\ ClosedInv /\ VersionInv /\ RangeReadInv

-----------------------------------------------------------------------------
\* At first nothing was read and nothing asked.
LEMMA RangeInitIInv == RangeInit => RangeIInv
<1> SUFFICES ASSUME RangeInit PROVE RangeIInv
  OBVIOUS
<1> USE RangeAssumption
<1>1. RangeTypeOK
  BY DEF RangeInit, RangeTypeOK, Nothing, NotCached, Held, Offsets
<1>2. ClosedInv
  BY DEF RangeInit, ClosedInv
<1>3. VersionInv
  BY DEF RangeInit, VersionInv, Nothing, NotCached
<1>4. RangeReadInv
  BY DEF RangeInit, RangeReadInv
<1> QED BY <1>1, <1>2, <1>3, <1>4 DEF RangeIInv

\* An answer that is no error is of an object as long as the range needs and,
\* for a pinned reader, of the version that was opened.
LEMMA AnswerSound ==
    ASSUME NEW to \in Int, Answer(to) = "none", length \in Int
    PROVE  to <= length /\ (source = "etag" => version = first)
  BY DEF Answer, StrongEtag

\* The kinds of error, and when it is said that the object has changed.
LEMMA AnswerKinds ==
    ASSUME NEW to \in Int
    PROVE  /\ Answer(to) \in {"none", "changed", "short", "mismatch"}
           /\ Answer(to) = "changed" => version # first
  BY DEF Answer, StrongEtag

\* A fetched range keeps the invariant, whatever the server answers.
LEMMA FetchIInv == RangeIInv /\ Fetch => RangeIInv'
<1> SUFFICES ASSUME RangeIInv, Fetch PROVE RangeIInv'
  OBVIOUS
<1> USE RangeAssumption
<1>0. PICK from \in missing, to \in 1..size :
        /\ \A o \in missing : from <= o
        /\ from < to
        /\ outcome' = Answer(to)
        /\ IF outcome' = "none"
           THEN /\ cache' = [o \in Offsets |-> IF from <= o /\ o < to /\ o < length
                                               THEN version ELSE cache[o]]
                /\ missing' = missing \ (from..to - 1)
                /\ UNCHANGED end
           ELSE missing' = {} /\ end' = pos /\ UNCHANGED cache
  BY DEF Fetch
<1>1. UNCHANGED <<version, length, source, first, size, pos, got, asked>> /\ missing # {}
  BY DEF Fetch
<1>2. RangeTypeOK /\ ClosedInv /\ VersionInv /\ RangeReadInv
  BY DEF RangeIInv
<1>3. pos < end /\ asked = <<pos, end>> /\ source # "closed"
  BY <1>1, <1>2 DEF RangeReadInv, ClosedInv, RangeTypeOK
<1>4. CASE outcome' = "none"
  <2>1. to <= length /\ (source = "etag" => version = first)
    <3>1. to \in Int /\ length \in Int
      BY <1>2 DEF RangeTypeOK
    <3>2. Answer(to) = "none"
      BY <1>0, <1>4
    <3> QED BY <3>1, <3>2, AnswerSound
  <2>2. \A o \in Offsets : cache'[o] = IF from <= o /\ o < to /\ o < length THEN version ELSE cache[o]
    BY <1>0, <1>4
  <2>3. RangeTypeOK'
    <3>1. cache' \in [Offsets -> Held]
      BY <1>0, <1>2, <1>4 DEF RangeTypeOK, Held
    <3>2. missing' \in SUBSET Offsets /\ end' = end
      BY <1>0, <1>2, <1>4 DEF RangeTypeOK
    <3> QED BY <1>1, <1>2, <1>4, <3>1, <3>2 DEF RangeTypeOK
  <2>4. ClosedInv'
    BY <1>1, <1>3 DEF ClosedInv
  <2>5. VersionInv'
    BY <1>1, <1>2, <1>4, <2>1, <2>2 DEF VersionInv, RangeTypeOK
  <2>6. RangeReadInv'
    <3>1. pos' < end' /\ asked' = <<pos', end'>>
      BY <1>0, <1>1, <1>3, <1>4
    <3>2. ASSUME NEW o \in pos..end - 1, o \notin missing' PROVE cache'[o] # NotCached
      <4>1. o \in Offsets
        BY <1>2 DEF RangeTypeOK, Offsets
      <4>2. CASE o \in missing
        <5>1. from <= o /\ o < to /\ o < length
          BY <1>0, <1>2, <1>4, <2>1, <3>2, <4>1, <4>2 DEF RangeTypeOK, Offsets
        <5> QED BY <1>2, <2>2, <4>1, <5>1 DEF RangeTypeOK, NotCached
      <4>3. CASE o \notin missing
        BY <1>2, <1>3, <2>2, <4>1, <4>3 DEF RangeReadInv, RangeTypeOK, NotCached
      <4> QED BY <4>2, <4>3
    <3> QED BY <1>0, <1>1, <1>2, <1>4, <3>1, <3>2 DEF RangeReadInv, RangeTypeOK
  <2> QED BY <2>3, <2>4, <2>5, <2>6 DEF RangeIInv
<1>5. CASE outcome' # "none"
  <2>1. cache' = cache /\ missing' = {} /\ end' = pos
    BY <1>0, <1>5
  <2>2. /\ outcome' \in {"none", "changed", "short", "mismatch"}
        /\ outcome' = "changed" => version # first
    BY <1>0, <1>2, AnswerKinds DEF RangeTypeOK
  <2>3. RangeTypeOK'
    BY <1>1, <1>2, <2>1, <2>2 DEF RangeTypeOK
  <2>4. ClosedInv'
    BY <1>1, <1>3 DEF ClosedInv
  <2>5. VersionInv'
    BY <1>1, <1>2, <2>1, <2>2 DEF VersionInv
  <2>6. RangeReadInv'
    BY <1>1, <1>2, <1>5, <2>1 DEF RangeReadInv, RangeTypeOK
  <2> QED BY <2>3, <2>4, <2>5, <2>6 DEF RangeIInv
<1> QED BY <1>4, <1>5

\* So does the end of a read: what is returned is what is cached.
LEMMA DeliverIInv == RangeIInv /\ Deliver => RangeIInv'
<1> SUFFICES ASSUME RangeIInv, Deliver PROVE RangeIInv'
  OBVIOUS
<1> USE RangeAssumption
<1>1. RangeTypeOK /\ ClosedInv /\ VersionInv /\ RangeReadInv
  BY DEF RangeIInv
<1>2. asked = <<pos, end>> /\ source # "closed" /\ \A o \in pos..end - 1 : cache[o] # NotCached
  BY <1>1 DEF Deliver, RangeReadInv, ClosedInv, RangeTypeOK
<1>3. \A o \in Offsets : got'[o] = IF pos <= o /\ o < end THEN cache[o] ELSE NotCached
  BY DEF Deliver
<1>4. RangeTypeOK'
  BY <1>1 DEF Deliver, RangeTypeOK, Held
<1>5. ClosedInv'
  BY <1>2 DEF Deliver, ClosedInv
<1>6. VersionInv'
  BY <1>1, <1>3 DEF Deliver, VersionInv, RangeTypeOK
<1>7. RangeReadInv'
  <2>1. \A o \in pos..end - 1 : o \in Offsets /\ got'[o] # NotCached
    BY <1>1, <1>2, <1>3 DEF RangeTypeOK, Offsets
  <2> QED BY <1>1, <1>2, <2>1 DEF Deliver, RangeReadInv, RangeTypeOK
<1> QED BY <1>4, <1>5, <1>6, <1>7 DEF RangeIInv

\* Each step keeps the invariant.
LEMMA RangeNextIInv == RangeIInv /\ [RangeNext]_rangeVars => RangeIInv'
<1> SUFFICES ASSUME RangeIInv, [RangeNext]_rangeVars PROVE RangeIInv'
  OBVIOUS
<1> USE RangeAssumption
<1>0. RangeTypeOK /\ ClosedInv /\ VersionInv /\ RangeReadInv
  BY DEF RangeIInv
<1>1. CASE Replace
  <2>1. RangeTypeOK'
    BY <1>0, <1>1 DEF Replace, RangeTypeOK
  <2>2. ClosedInv'
    BY <1>0, <1>1 DEF Replace, ClosedInv
  <2>3. VersionInv'
    BY <1>0, <1>1 DEF Replace, VersionInv, RangeTypeOK
  <2>4. RangeReadInv'
    BY <1>0, <1>1 DEF Replace, RangeReadInv
  <2> QED BY <2>1, <2>2, <2>3, <2>4 DEF RangeIInv
<1>2. CASE Open
  <2>1. RangeTypeOK'
    BY <1>0, <1>2 DEF Open, RangeTypeOK
  <2>2. ClosedInv'
    BY <1>2 DEF Open, ClosedInv
  <2>3. VersionInv'
    BY <1>0, <1>2 DEF Open, VersionInv, ClosedInv, Nothing, NotCached
  <2>4. RangeReadInv'
    BY <1>0, <1>2 DEF Open, RangeReadInv
  <2> QED BY <2>1, <2>2, <2>3, <2>4 DEF RangeIInv
<1>3. ASSUME NEW p \in 0..MaxSize, Seek(p) PROVE RangeIInv'
  <2>1. RangeTypeOK'
    BY <1>0, <1>3 DEF Seek, RangeTypeOK
  <2>2. ClosedInv' /\ VersionInv'
    BY <1>0, <1>3 DEF Seek, ClosedInv, VersionInv
  <2>3. RangeReadInv'
    BY <1>0, <1>3 DEF Seek, RangeReadInv, RangeTypeOK
  <2> QED BY <2>1, <2>2, <2>3 DEF RangeIInv
<1>4. ASSUME NEW n \in 1..MaxSize, StartRead(n) PROVE RangeIInv'
  <2>1. end' \in 0..MaxSize /\ pos < end'
    BY <1>0, <1>4 DEF StartRead, ReadEnd, RangeTypeOK
  <2>2. missing' = {o \in pos..end' - 1 : cache[o] = NotCached} /\ asked' = <<pos, end'>>
    BY <1>4 DEF StartRead
  <2>3. missing' \in SUBSET Offsets
    BY <1>0, <2>1, <2>2 DEF RangeTypeOK, Offsets
  <2>4. RangeTypeOK'
    BY <1>0, <1>4, <2>1, <2>2, <2>3 DEF StartRead, RangeTypeOK
  <2>5. ClosedInv' /\ VersionInv'
    BY <1>0, <1>4 DEF StartRead, ClosedInv, VersionInv
  <2>6. RangeReadInv'
    BY <1>0, <1>4, <2>1, <2>2 DEF StartRead, RangeReadInv, RangeTypeOK
  <2> QED BY <2>4, <2>5, <2>6 DEF RangeIInv
<1>5. CASE Fetch
  BY <1>5, FetchIInv
<1>6. CASE Deliver
  BY <1>6, DeliverIInv
<1>7. CASE Evict
  <2>1. PICK keep \in SUBSET Offsets : cache' = [o \in Offsets |-> IF o \in keep THEN cache[o] ELSE NotCached]
    BY <1>7 DEF Evict
  <2>2. \A o \in Offsets : cache'[o] \in {cache[o], NotCached}
    BY <2>1
  <2>3. RangeTypeOK'
    BY <1>0, <1>7, <2>1 DEF Evict, RangeTypeOK, Held
  <2>4. ClosedInv'
    <3> SUFFICES ASSUME source = "closed" PROVE cache' = Nothing
      BY <1>0, <1>7 DEF Evict, ClosedInv
    <3> QED BY <1>0, <2>1 DEF ClosedInv, Nothing
  <2>5. VersionInv'
    BY <1>0, <1>7, <2>2 DEF Evict, VersionInv
  <2>6. RangeReadInv'
    BY <1>0, <1>7 DEF Evict, RangeReadInv, RangeTypeOK
  <2> QED BY <2>3, <2>4, <2>5, <2>6 DEF RangeIInv
<1>8. CASE UNCHANGED rangeVars
  BY <1>0, <1>8 DEF rangeVars, RangeIInv, RangeTypeOK, ClosedInv, VersionInv, RangeReadInv
<1> QED BY <1>1, <1>2, <1>3, <1>4, <1>5, <1>6, <1>7, <1>8 DEF RangeNext

LEMMA RangeInductive == RangeSpec => []RangeIInv
<1>1. RangeInit => RangeIInv
  BY RangeInitIInv
<1>2. RangeIInv /\ [RangeNext]_rangeVars => RangeIInv'
  BY RangeNextIInv
<1> QED BY <1>1, <1>2, PTL DEF RangeSpec

-----------------------------------------------------------------------------
\* The types of the state of a ranged reader (_core/ranged_io.py).
THEOREM RangeTypes == RangeSpec => []RangeTypeOK
<1>1. RangeIInv => RangeTypeOK
  BY DEF RangeIInv
<1> QED BY <1>1, RangeInductive, PTL

\* A reader with a strong ETag returns bytes of the version it opened only, and
\* says that the object changed only if it did, for any object, any cache and
\* any ranges (ranged_io.py:91-118).
THEOREM PinnedRead == RangeSpec => []OneVersion
<1>1. RangeIInv => OneVersion
  BY DEF RangeIInv, VersionInv, OneVersion, Delivered
<1> QED BY <1>1, RangeInductive, PTL

\* A read without an error returns every byte of the range it was asked for,
\* each of a version that was there since the object was opened.
THEOREM ExactRead == RangeSpec => []RangesExact
<1> SUFFICES ASSUME RangeIInv PROVE RangesExact
  BY RangeInductive, PTL
<1> USE RangeAssumption
<1>1. ASSUME outcome = "none", pos = end, asked[2] = pos, asked[1] < asked[2]
      PROVE  asked[1]..asked[2] - 1 \subseteq Delivered
  BY <1>1 DEF RangeIInv, RangeReadInv, RangeTypeOK, Delivered, Offsets
<1>2. \A o \in Delivered : got[o] \in first..version
  BY DEF RangeIInv, VersionInv, Delivered
<1> QED BY <1>1, <1>2 DEF RangesExact

-----------------------------------------------------------------------------
(* Directories over SFTP (SftpTree) *)

TreeTypeOK ==
    /\ tree \in [Place -> Kind] /\ Sound(tree)
    /\ modes \in BOOLEAN /\ refused \in BOOLEAN /\ undone \in BOOLEAN
    /\ call \in Calls
    /\ target \in Place /\ at \in Place
    /\ step \in {"idle", "stat", "mkdir", "recheck", "open", "rmdir", "list", "ascend"}
    /\ met \in [Place -> SUBSET Kind]
    /\ result \in {"none", "running", "done", "failed", "missing", "notdir", "broken"}

\* Which request belongs to which call, and to which place of its path.
StepInv ==
    /\ step # "idle" => result = "running"
    /\ step \in {"stat", "recheck"} => Makes /\ at <= LastDirectory
    /\ step = "mkdir" => (Makes /\ at <= LastDirectory) \/ (call = "single" /\ at = target)
    /\ step = "open" => call = "write" /\ at = target
    /\ step = "rmdir" => call = "rmdir" /\ at = target
    /\ step = "list" => call = "list" /\ at = target
    /\ step = "ascend" => call = "list" /\ at <= target

\* What is there now was met.
MetInv == result # "none" => \A p \in Place : tree[p] \in met[p]

\* The parent of the place that a call has come to was made or found, and is
\* still there unless somebody removed it; a mkdir that failed was refused, or
\* something was in its way.
WayInv ==
    /\ step # "idle" /\ Makes /\ modes /\ at > 1 => tree[at - 1] = "dir" \/ undone
    /\ step = "recheck" /\ modes => refused \/ undone \/ tree[at] = "dir" \/ "file" \in met[at]

TreeIInv == TreeTypeOK /\ StepInv /\ MetInv /\ WayInv /\ MkdirTellsTheTruth

-----------------------------------------------------------------------------
\* At first there is no call, and the tree is anything.
LEMMA TreeInitIInv == TreeInit => TreeIInv
<1> SUFFICES ASSUME TreeInit PROVE TreeIInv
  OBVIOUS
<1>1. TreeTypeOK
  <2>1. tree \in [Place -> Kind] /\ Sound(tree) /\ modes \in BOOLEAN
    BY DEF TreeInit
  <2>2. 1 \in Place /\ met \in [Place -> SUBSET Kind]
    BY DepthAssumption DEF TreeInit, Place
  <2> QED BY <2>1, <2>2 DEF TreeInit, TreeTypeOK, Calls
<1>2. StepInv /\ MetInv /\ WayInv /\ MkdirTellsTheTruth
  BY DEF TreeInit, StepInv, MetInv, WayInv, MkdirTellsTheTruth
<1> QED BY <1>1, <1>2 DEF TreeIInv

\* A change of the tree adds what is there then to what was met.
LEMMA MeetStep ==
    ASSUME TreeTypeOK, NEW w \in [Place -> Kind]
    PROVE  /\ Meet(w) \in [Place -> SUBSET Kind]
           /\ \A p \in Place : met[p] \subseteq Meet(w)[p] /\ w[p] \in Meet(w)[p]
  BY DEF TreeTypeOK, Meet

\* Others change one place: what they took away is recorded.
LEMMA OthersStep == TreeIInv /\ Others => TreeIInv'
<1> SUFFICES ASSUME TreeIInv, Others PROVE TreeIInv'
  OBVIOUS
<1>1. /\ tree' \in [Place -> Kind] /\ Sound(tree')
      /\ met' = Meet(tree')
      /\ undone' = (undone \/ \E p \in Place : tree[p] = "dir" /\ tree'[p] # "dir")
      /\ UNCHANGED <<modes, call, target, at, step, refused, result>>
  BY DEF Others
<1>2. /\ met' \in [Place -> SUBSET Kind]
      /\ \A p \in Place : met[p] \subseteq met'[p] /\ tree'[p] \in met'[p]
  BY <1>1, MeetStep DEF TreeIInv
<1>3. TreeTypeOK'
  BY <1>1, <1>2 DEF TreeIInv, TreeTypeOK
<1>4. StepInv' /\ MetInv'
  BY <1>1, <1>2 DEF TreeIInv, StepInv, MetInv, Makes, LastDirectory
<1>5. \A p \in Place : tree[p] = "dir" => tree'[p] = "dir" \/ undone'
  BY <1>1
<1>6. WayInv'
  <2>1. ASSUME step # "idle", Makes, modes, at > 1 PROVE tree'[at - 1] = "dir" \/ undone'
    <3>1. at - 1 \in Place
      BY <2>1, DepthAssumption DEF TreeIInv, TreeTypeOK, Place
    <3> QED BY <1>1, <1>5, <2>1, <3>1 DEF TreeIInv, WayInv
  <2>2. ASSUME step = "recheck", modes
        PROVE  refused \/ undone' \/ tree'[at] = "dir" \/ "file" \in met'[at]
    BY <1>1, <1>2, <1>5, <2>2 DEF TreeIInv, WayInv, TreeTypeOK
  <2> QED BY <1>1, <2>1, <2>2 DEF WayInv, Makes
<1>7. MkdirTellsTheTruth'
  <2>1. \A p \in 1..target : p \in Place
    BY DepthAssumption DEF TreeIInv, TreeTypeOK, Place
  <2>2. \A p \in 1..LastDirectory : p \in Place
    BY DepthAssumption DEF TreeIInv, TreeTypeOK, Place, LastDirectory
  <2>3. Promised' = Promised /\ Makes' = Makes /\ LastDirectory' = LastDirectory
    BY <1>1 DEF Promised, Makes, LastDirectory
  <2>4. target \in Place
    BY DEF TreeIInv, TreeTypeOK
  <2>5. undone => undone'
    BY <1>1
  <2> QED BY <1>1, <1>2, <2>1, <2>2, <2>3, <2>4, <2>5 DEF TreeIInv, MkdirTellsTheTruth
<1> QED BY <1>3, <1>4, <1>6, <1>7 DEF TreeIInv

\* A call begins: nothing is met yet but what is there.
LEMMA InvokeStep == ASSUME TreeIInv, NEW c \in Calls, NEW p \in Place, Invoke(c, p) PROVE TreeIInv'
<1>0. Depth \in Nat \ {0} /\ 1 \in Place
  BY DepthAssumption DEF Place
<1>1. TreeTypeOK'
  <2>1. met' \in [Place -> SUBSET Kind]
    BY DEF Invoke, TreeIInv, TreeTypeOK
  <2>2. step' \in {"stat", "mkdir", "open", "rmdir", "list"}
    BY DEF Invoke, Calls
  <2> QED BY <1>0, <2>1, <2>2 DEF Invoke, TreeIInv, TreeTypeOK
<1>2. StepInv'
  <2>1. result' = "running" /\ call' = c /\ target' = p /\ 1 <= p
    BY <1>0 DEF Invoke, Place
  <2>2. /\ c \in {"mkdir", "write"} => at' = 1
        /\ c \notin {"mkdir", "write"} => at' = p
        /\ c = "write" /\ p = 1 => step' = "open"
        /\ c \in {"mkdir", "write"} /\ ~(c = "write" /\ p = 1) => step' = "stat"
        /\ c = "single" => step' = "mkdir"
        /\ c = "rmdir" => step' = "rmdir"
        /\ c = "list" => step' = "list"
    <3>1. /\ at' = IF c \in {"mkdir", "write"} THEN 1 ELSE p
          /\ step' = CASE c = "write" /\ p = 1 -> "open"
                       [] c = "mkdir" \/ (c = "write" /\ p # 1) -> "stat"
                       [] c = "single" -> "mkdir"
                       [] OTHER -> c
      BY DEF Invoke
    <3>2. CASE c = "mkdir" \/ (c = "write" /\ p # 1)
      <4>1. at' = 1 /\ step' = "stat"
        BY <3>1, <3>2
      <4> QED BY <3>2, <4>1
    <3>3. CASE c = "write" /\ p = 1
      <4>1. at' = 1 /\ step' = "open"
        BY <3>1, <3>3
      <4> QED BY <3>3, <4>1
    <3>4. CASE c = "single"
      BY <3>1, <3>4
    <3>5. CASE c \in {"rmdir", "list"}
      BY <3>1, <3>5
    <3> QED BY <3>2, <3>3, <3>4, <3>5 DEF Calls
  <2>3. c = "write" /\ p # 1 => 1 <= p - 1
    BY <1>0 DEF Place
  <2> QED BY <1>0, <2>1, <2>2, <2>3 DEF StepInv, Calls, Makes, LastDirectory
<1>3. MetInv'
  BY DEF Invoke, MetInv
<1>4. WayInv' /\ MkdirTellsTheTruth'
  <2>1. step' # "idle" /\ step' # "recheck"
    BY DEF Invoke, Calls
  <2>2. Makes' => at' = 1
    BY DEF Invoke, Makes
  <2> QED BY <2>1, <2>2 DEF WayInv, MkdirTellsTheTruth
<1> QED BY <1>1, <1>2, <1>3, <1>4 DEF TreeIInv

\* On to the next place: the one before it is a directory now.
LEMMA AdvanceStep ==
    ASSUME TreeIInv, Makes \/ call = "single",
           step \in {"stat", "mkdir", "recheck"}, Advance,
           UNCHANGED <<modes, call, target, refused, undone>>,
           tree' \in [Place -> Kind], Sound(tree'),
           met' \in [Place -> SUBSET Kind],
           \A p \in Place : tree'[p] \in met'[p],
           modes \/ at = LastDirectory \/ call = "single" => tree'[at] = "dir"
    PROVE  TreeIInv'
<1>0. Depth \in Nat \ {0} /\ at \in Place /\ target \in Place
  BY DepthAssumption DEF TreeIInv, TreeTypeOK
<1>1. Makes' = Makes /\ LastDirectory' = LastDirectory /\ Promised' = Promised
  BY DEF Makes, LastDirectory, Promised
<1>2. Makes => at <= LastDirectory
  BY DEF TreeIInv, StepInv, Makes
<1>3. call = "single" => at = target
  BY DEF TreeIInv, StepInv, Makes
<1>4. CASE Makes /\ at < LastDirectory
  <2>1. at' = at + 1 /\ step' = "stat" /\ result' = result
    BY <1>4 DEF Advance, Makes
  <2>2. at' \in Place /\ at' <= LastDirectory /\ at' - 1 = at
    BY <1>0, <1>4, <2>1 DEF LastDirectory, Place
  <2>3. TreeTypeOK' /\ StepInv' /\ MetInv'
    BY <1>1, <1>4, <2>1, <2>2 DEF TreeIInv, TreeTypeOK, StepInv, MetInv
  <2>4. WayInv' /\ MkdirTellsTheTruth'
    BY <2>1, <2>2 DEF WayInv, MkdirTellsTheTruth
  <2> QED BY <2>3, <2>4 DEF TreeIInv
<1>5. CASE call = "write" /\ ~(at < LastDirectory)
  <2>1. at' = target /\ step' = "open" /\ result' = result /\ at = target - 1
    BY <1>0, <1>2, <1>5 DEF Advance, Makes, LastDirectory, Place
  <2>2. tree'[at' - 1] = "dir"
    BY <1>0, <1>5, <2>1 DEF LastDirectory, Place
  <2>3. TreeTypeOK' /\ StepInv' /\ MetInv'
    BY <1>1, <1>5, <2>1 DEF TreeIInv, TreeTypeOK, StepInv, MetInv
  <2>4. WayInv' /\ MkdirTellsTheTruth'
    BY <2>1, <2>2 DEF WayInv, MkdirTellsTheTruth
  <2> QED BY <2>3, <2>4 DEF TreeIInv
<1>6. CASE call = "single" \/ (call = "mkdir" /\ ~(at < LastDirectory))
  <2>1. step' = "idle" /\ result' = "done" /\ at' = at /\ at = target
    BY <1>0, <1>2, <1>3, <1>6 DEF Advance, EndCall, Makes, LastDirectory, Place
  <2>2. "dir" \in met'[target'] /\ Promised' = "dir"
    BY <1>0, <1>1, <1>6, <2>1 DEF LastDirectory, Promised
  <2>3. TreeTypeOK' /\ StepInv' /\ MetInv'
    BY <2>1 DEF TreeIInv, TreeTypeOK, StepInv, MetInv
  <2>4. WayInv' /\ MkdirTellsTheTruth'
    BY <2>1, <2>2 DEF WayInv, MkdirTellsTheTruth
  <2> QED BY <2>3, <2>4 DEF TreeIInv
<1> QED BY <1>4, <1>5, <1>6 DEF Makes

\* A call ends with r, for which what is promised holds.
LEMMA EndStep ==
    ASSUME TreeIInv, NEW r, EndCall(r), step # "idle",
           r \in {"done", "failed", "missing", "notdir", "broken"},
           UNCHANGED <<modes, call, target, at, undone>>, refused' \in BOOLEAN,
           tree' \in [Place -> Kind], Sound(tree'),
           met' \in [Place -> SUBSET Kind],
           \A p \in Place : tree'[p] \in met'[p],
           r = "done" => Promised \in met'[target],
           r = "notdir" => \E p \in 1..target : "file" \in met'[p],
           Makes /\ modes /\ r \in {"failed", "missing", "notdir"} =>
              \/ refused' \/ undone
              \/ \E p \in 1..LastDirectory : "file" \in met'[p]
              \/ call = "write" /\ "dir" \in met'[target]
    PROVE  TreeIInv'
<1>1. step' = "idle" /\ result' = r
  BY DEF EndCall
<1>2. Makes' = Makes /\ LastDirectory' = LastDirectory /\ Promised' = Promised
  BY DEF Makes, LastDirectory, Promised
<1>3. TreeTypeOK' /\ StepInv' /\ MetInv' /\ WayInv'
  BY <1>1 DEF TreeIInv, TreeTypeOK, StepInv, MetInv, WayInv
<1>4. MkdirTellsTheTruth'
  BY <1>1, <1>2 DEF MkdirTellsTheTruth
<1> QED BY <1>3, <1>4 DEF TreeIInv

\* Each step keeps the invariant.
LEMMA TreeNextIInv == TreeIInv /\ [TreeNext]_treeVars => TreeIInv'
<1> SUFFICES ASSUME TreeIInv, [TreeNext]_treeVars PROVE TreeIInv'
  OBVIOUS
<1>0. /\ TreeTypeOK /\ StepInv /\ MetInv /\ WayInv /\ MkdirTellsTheTruth
      /\ Depth \in Nat \ {0} /\ at \in Place /\ target \in Place
  BY DepthAssumption DEF TreeIInv, TreeTypeOK
<1>1. step # "idle" => result # "none" /\ \A p \in Place : tree[p] \in met[p]
  BY <1>0 DEF StepInv, MetInv
<1>2. at > 1 => at - 1 \in Place
  BY <1>0 DEF Place
<1>3. CASE StatDirectory
  <2>1. /\ step = "stat" /\ Makes /\ at <= LastDirectory
        /\ UNCHANGED <<tree, modes, call, target, met, refused, undone>>
    BY <1>0, <1>3 DEF StatDirectory, StepInv
  <2>2. CASE /\ Found(at) /\ (IF modes THEN tree[at] = "dir" ELSE at # LastDirectory)
             /\ Advance
    BY <1>0, <1>1, <2>1, <2>2, AdvanceStep DEF TreeTypeOK, Makes
  <2>3. CASE Found(at) /\ modes /\ tree[at] = "file" /\ EndCall("notdir") /\ UNCHANGED at
    <3>1. at \in 1..LastDirectory /\ at \in 1..target
      BY <1>0, <2>1 DEF Place, LastDirectory
    <3> QED BY <1>0, <1>1, <2>1, <2>3, <3>1, EndStep DEF TreeTypeOK
  <2>4. CASE /\ ~Found(at) \/ (~modes /\ at = LastDirectory)
             /\ step' = "mkdir" /\ UNCHANGED <<at, result>>
    BY <1>0, <2>1, <2>4 DEF TreeIInv, TreeTypeOK, StepInv, MetInv, WayInv, MkdirTellsTheTruth, Makes, LastDirectory
  <2> QED BY <1>3, <2>2, <2>3, <2>4 DEF StatDirectory
<1>4. ASSUME Generic, step = "mkdir", UNCHANGED <<tree, modes, call, target, at, met, undone>>,
             refused' \in BOOLEAN, refused => refused', Found(at) \/ refused'
      PROVE  TreeIInv'
  <2>1. CASE call = "single"
    <3>1. ~Makes /\ EndCall("failed")
      BY <1>4, <2>1 DEF Generic, Makes
    <3> QED BY <1>0, <1>1, <1>4, <3>1, EndStep DEF TreeTypeOK
  <2>2. CASE call # "single"
    <3>1. step' = "recheck" /\ result' = result /\ Makes /\ at <= LastDirectory
      BY <1>0, <1>4, <2>2 DEF Generic, StepInv
    <3>2. refused' \/ tree[at] = "dir" \/ "file" \in met[at]
      <4>1. tree[at] \in Kind /\ tree[at] \in met[at]
        BY <1>0, <1>1, <1>4 DEF TreeTypeOK
      <4> QED BY <1>4, <4>1 DEF Found, Kind
    <3>3. TreeTypeOK' /\ StepInv' /\ MetInv'
      BY <1>0, <1>4, <3>1 DEF TreeTypeOK, StepInv, MetInv, Makes, LastDirectory
    <3>4. WayInv' /\ MkdirTellsTheTruth'
      BY <1>0, <1>4, <3>1, <3>2 DEF WayInv, MkdirTellsTheTruth, Makes
    <3> QED BY <3>3, <3>4 DEF TreeIInv
  <2> QED BY <2>1, <2>2
<1>5. CASE Mkdir
  <2>1. step = "mkdir" /\ UNCHANGED <<modes, call, target, refused, undone>>
        /\ (Makes \/ call = "single")
    BY <1>0, <1>5 DEF Mkdir, StepInv
  <2>2. CASE Found(at)
    BY <1>0, <1>4, <1>5, <2>1, <2>2 DEF Mkdir, TreeTypeOK
  <2>3. CASE ~Found(at) /\ at > 1 /\ tree[at - 1] # "dir"
    <3>1. EndCall("missing") /\ UNCHANGED <<tree, met, at>>
      BY <1>5, <2>3 DEF Mkdir
    <3>2. Makes /\ modes => undone
      BY <1>0, <2>1, <2>3 DEF WayInv
    <3> QED BY <1>0, <1>1, <2>1, <3>1, <3>2, EndStep DEF TreeTypeOK
  <2>4. CASE ~Found(at) /\ ~(at > 1 /\ tree[at - 1] # "dir")
    <3>1. tree' = [tree EXCEPT ![at] = "dir"] /\ met' = Meet(tree') /\ Advance
      BY <1>5, <2>4 DEF Mkdir
    <3>2. tree' \in [Place -> Kind] /\ tree'[at] = "dir" /\ tree[at] = "none"
      BY <1>0, <2>4, <3>1 DEF TreeTypeOK, Kind, Found
    <3>3. Sound(tree')
      <4> SUFFICES ASSUME NEW p \in Place, p > 1, tree'[p] # "none" PROVE tree'[p - 1] = "dir"
        BY DEF Sound
      <4>1. p - 1 \in Place
        BY <1>0 DEF Place
      <4>2. CASE p = at
        BY <1>0, <2>4, <3>1, <4>1, <4>2 DEF TreeTypeOK, Place
      <4>3. CASE p # at
        <5>1. tree[p] # "none" /\ tree[p - 1] = "dir"
          BY <1>0, <3>1, <4>3 DEF TreeTypeOK, Sound
        <5> QED BY <1>0, <3>1, <4>1, <5>1 DEF TreeTypeOK
      <4> QED BY <4>2, <4>3
    <3>4. met' \in [Place -> SUBSET Kind] /\ \A p \in Place : tree'[p] \in met'[p]
      BY <1>0, <3>1, <3>2, MeetStep
    <3> QED BY <2>1, <3>1, <3>2, <3>3, <3>4, AdvanceStep
  <2> QED BY <2>2, <2>3, <2>4
<1>6. CASE MkdirFails
  BY <1>0, <1>4, <1>6 DEF MkdirFails
<1>7. CASE Recheck
  <2>1. /\ step = "recheck" /\ Makes /\ at <= LastDirectory
        /\ UNCHANGED <<tree, modes, call, target, met, refused, undone>>
    BY <1>0, <1>7 DEF Recheck, StepInv
  <2>2. CASE LostRace
    <3>1. Advance /\ tree[at] = "dir"
      BY <1>7, <2>2 DEF Recheck, LostRace
    <3> QED BY <1>0, <1>1, <2>1, <3>1, AdvanceStep DEF TreeTypeOK
  <2>3. CASE ~LostRace
    <3>1. EndCall("failed") /\ UNCHANGED at
      BY <1>7, <2>3 DEF Recheck
    <3>2. modes => refused \/ undone \/ "file" \in met[at]
      BY <1>0, <2>1, <2>3 DEF LostRace, WayInv
    <3>3. at \in 1..LastDirectory
      BY <1>0, <2>1 DEF Place
    <3> QED BY <1>0, <1>1, <2>1, <3>1, <3>2, <3>3, EndStep DEF TreeTypeOK
  <2> QED BY <2>2, <2>3
<1>8. CASE OpenFile
  <2>1. step = "open" /\ call = "write" /\ at = target /\ UNCHANGED <<modes, call, target, at, refused, undone>>
        /\ Makes
    BY <1>0, <1>8 DEF OpenFile, StepInv, Makes
  <2>2. CASE tree[at] = "dir"
    <3>1. EndCall("failed") /\ UNCHANGED <<tree, met>> /\ "dir" \in met[target]
      BY <1>0, <1>1, <1>8, <2>1, <2>2 DEF OpenFile
    <3> QED BY <1>0, <1>1, <2>1, <3>1, EndStep DEF TreeTypeOK
  <2>3. CASE tree[at] # "dir" /\ at > 1 /\ tree[at - 1] # "dir"
    <3>1. EndCall("missing") /\ UNCHANGED <<tree, met>>
      BY <1>8, <2>3 DEF OpenFile
    <3>2. modes => undone
      BY <1>0, <2>1, <2>3 DEF WayInv
    <3> QED BY <1>0, <1>1, <2>1, <3>1, <3>2, EndStep DEF TreeTypeOK
  <2>4. CASE tree[at] # "dir" /\ ~(at > 1 /\ tree[at - 1] # "dir")
    <3>1. tree' = [tree EXCEPT ![at] = "file"] /\ met' = Meet(tree') /\ EndCall("done")
      BY <1>8, <2>4 DEF OpenFile
    <3>2. tree' \in [Place -> Kind] /\ tree'[at] = "file"
      BY <1>0, <3>1 DEF TreeTypeOK, Kind
    <3>3. Sound(tree')
      <4> SUFFICES ASSUME NEW p \in Place, p > 1, tree'[p] # "none" PROVE tree'[p - 1] = "dir"
        BY DEF Sound
      <4>1. p - 1 \in Place /\ p - 1 # p
        BY <1>0 DEF Place
      <4>2. tree[p - 1] = "dir"
        <5>1. CASE p = at
          BY <2>4, <5>1
        <5>2. CASE p # at
          BY <1>0, <3>1, <5>2 DEF TreeTypeOK, Sound
        <5> QED BY <5>1, <5>2
      <4> QED BY <1>0, <2>4, <3>1, <4>1, <4>2 DEF TreeTypeOK
    <3>4. met' \in [Place -> SUBSET Kind] /\ \A p \in Place : tree'[p] \in met'[p]
      BY <1>0, <3>1, <3>2, MeetStep
    <3>5. Promised \in met'[target]
      BY <1>0, <2>1, <3>2, <3>4 DEF Promised
    <3> QED BY <1>0, <2>1, <3>1, <3>2, <3>3, <3>4, <3>5, EndStep DEF TreeTypeOK
  <2> QED BY <2>2, <2>3, <2>4
<1>9. CASE Rmdir
  <2>1. step = "rmdir" /\ call = "rmdir" /\ at = target /\ ~Makes
        /\ UNCHANGED <<modes, call, target, at, refused, undone>>
    BY <1>0, <1>9 DEF Rmdir, StepInv, Makes
  <2>2. CASE ~Found(at) \/ tree[at] = "file" \/ (at < Depth /\ Found(at + 1))
    <3>1. PICK r \in {"missing", "failed"} : EndCall(r) /\ UNCHANGED <<tree, met>>
      BY <1>9, <2>2 DEF Rmdir
    <3> QED BY <1>0, <1>1, <2>1, <3>1, EndStep DEF TreeTypeOK
  <2>3. CASE Found(at) /\ tree[at] # "file" /\ ~(at < Depth /\ Found(at + 1))
    <3>1. tree' = [tree EXCEPT ![at] = "none"] /\ met' = Meet(tree') /\ EndCall("done")
      BY <1>9, <2>3 DEF Rmdir
    <3>2. tree' \in [Place -> Kind] /\ tree'[at] = "none"
      BY <1>0, <3>1 DEF TreeTypeOK, Kind
    <3>3. Sound(tree')
      <4> SUFFICES ASSUME NEW p \in Place, p > 1, tree'[p] # "none" PROVE tree'[p - 1] = "dir"
        BY DEF Sound
      <4>1. p - 1 \in Place /\ p <= Depth /\ p \in Int /\ at \in Int
        BY <1>0 DEF Place
      <4>2. p # at /\ tree[p] # "none" /\ tree[p - 1] = "dir"
        BY <1>0, <3>1, <3>2 DEF TreeTypeOK, Sound
      <4>3. p - 1 # at
        <5> SUFFICES ASSUME p - 1 = at PROVE FALSE
          OBVIOUS
        <5>1. at + 1 = p /\ at < Depth
          BY <1>0, <4>1
        <5> QED BY <2>3, <4>2, <5>1 DEF Found
      <4> QED BY <1>0, <3>1, <4>1, <4>2, <4>3 DEF TreeTypeOK
    <3>4. met' \in [Place -> SUBSET Kind] /\ \A p \in Place : tree'[p] \in met'[p]
      BY <1>0, <3>1, <3>2, MeetStep
    <3>5. Promised \in met'[target]
      BY <1>0, <2>1, <3>2, <3>4 DEF Promised
    <3> QED BY <1>0, <2>1, <3>1, <3>2, <3>3, <3>4, <3>5, EndStep DEF TreeTypeOK
  <2> QED BY <2>2, <2>3
<1>10. CASE List
  <2>1. step = "list" /\ call = "list" /\ at = target /\ ~Makes
        /\ UNCHANGED <<tree, modes, call, target, at, met, refused, undone>>
    BY <1>0, <1>10 DEF List, StepInv, Makes
  <2>2. CASE tree[at] = "dir"
    <3>1. EndCall("done") /\ Promised \in met[target]
      BY <1>0, <1>1, <1>10, <2>1, <2>2 DEF List, Promised
    <3> QED BY <1>0, <1>1, <2>1, <3>1, EndStep DEF TreeTypeOK
  <2>3. CASE tree[at] # "dir"
    <3>1. step' = "ascend" /\ UNCHANGED result
      BY <1>10, <2>3 DEF List
    <3>2. at <= target
      BY <1>0, <2>1 DEF Place
    <3> QED BY <1>0, <2>1, <3>1, <3>2 DEF TreeIInv, TreeTypeOK, StepInv, MetInv, WayInv, MkdirTellsTheTruth, Makes
  <2> QED BY <2>2, <2>3
<1>11. CASE Ascend
  <2>1. step = "ascend" /\ call = "list" /\ at <= target /\ ~Makes
        /\ UNCHANGED <<tree, modes, call, target, met, refused, undone>>
    BY <1>0, <1>11 DEF Ascend, StepInv, Makes
  <2>2. CASE Found(at) \/ at = 1
    <3>1. PICK r \in {"failed", "notdir", "missing"} :
             EndCall(r) /\ UNCHANGED at /\ (r = "notdir" => tree[at] = "file")
      BY <1>11, <2>2 DEF Ascend
    <3>2. r = "notdir" => \E p \in 1..target : "file" \in met[p]
      <4>1. at \in 1..target
        BY <1>0, <2>1 DEF Place
      <4> QED BY <1>0, <1>1, <2>1, <3>1, <4>1
    <3> QED BY <1>0, <1>1, <2>1, <3>1, <3>2, EndStep DEF TreeTypeOK
  <2>3. CASE ~Found(at) /\ at # 1
    <3>1. at' = at - 1 /\ UNCHANGED <<step, result>>
      BY <1>11, <2>3 DEF Ascend
    <3>2. at' \in Place /\ at' <= target
      BY <1>0, <2>1, <2>3, <3>1 DEF Place
    <3> QED BY <1>0, <2>1, <3>1, <3>2 DEF TreeIInv, TreeTypeOK, StepInv, MetInv, WayInv, MkdirTellsTheTruth, Makes
  <2> QED BY <2>2, <2>3
<1>12. CASE RequestFails
  <2>1. /\ step # "idle" /\ EndCall("broken")
        /\ UNCHANGED <<tree, modes, call, target, at, met, refused, undone>>
    BY <1>12 DEF RequestFails
  <2> QED BY <1>0, <1>1, <2>1, EndStep DEF TreeTypeOK
<1>13. CASE UNCHANGED treeVars
  BY <1>13 DEF treeVars, TreeIInv, TreeTypeOK, StepInv, MetInv, WayInv, MkdirTellsTheTruth, Makes,
               LastDirectory, Promised
<1> QED BY <1>3, <1>5, <1>6, <1>7, <1>8, <1>9, <1>10, <1>11, <1>12, <1>13, OthersStep, InvokeStep
        DEF TreeNext

-----------------------------------------------------------------------------
\* The types of a call and of the tree.
THEOREM TreeTypes == TreeSpec => []TreeTypeOK
<1>1. TreeInit => TreeIInv
  BY TreeInitIInv
<1>2. TreeIInv /\ [TreeNext]_treeVars => TreeIInv'
  BY TreeNextIInv
<1>3. TreeIInv => TreeTypeOK
  BY DEF TreeIInv
<1> QED BY <1>1, <1>2, <1>3, PTL DEF TreeSpec

\* Whatever others do to the tree, for a path of any depth: what a call of the
\* SFTP backend says of the path was true at some moment of the call, and a lost
\* race for a directory is no failure (sftp_directory.py:56-103).
THEOREM MkdirIsTruthful == TreeSpec => []MkdirTellsTheTruth
<1>1. TreeInit => TreeIInv
  BY TreeInitIInv
<1>2. TreeIInv /\ [TreeNext]_treeVars => TreeIInv'
  BY TreeNextIInv
<1>3. TreeIInv => MkdirTellsTheTruth
  BY DEF TreeIInv
<1> QED BY <1>1, <1>2, <1>3, PTL DEF TreeSpec
=============================================================================
