--------------------- MODULE TunnelledConnectionProofs ---------------------
(***************************************************************************)
(* Proofs about TunnelledConnection.                                       *)
(***************************************************************************)
EXTENDS TunnelledConnection, TLAPS

\* The invariant holds at first: nothing is made, nothing is held.
LEMMA InitIInv == Init => IInv
<1> SUFFICES ASSUME Init PROVE IInv
  OBVIOUS
<1>1. TypeOK
  BY DEF Init, TypeOK, Resources, Actions, Errors, Tearing
<1>2. LiveIsOwned
  BY DEF Init, LiveIsOwned
<1>3. HeldByPlace
  BY DEF Init, HeldByPlace, Tearing
<1>4. StopIsFirst /\ TimeoutIsKept
  BY DEF Init, StopIsFirst, TimeoutIsKept
<1> QED BY <1>1, <1>2, <1>3, <1>4 DEF IInv

\* The first part of _teardown keeps the ownership: a forwarder that was held
\* is now waited for.
LEMMA TeardownOwns ==
    ASSUME IInv, todo = {}, NEW set \in BOOLEAN, NEW closeSsh \in BOOLEAN,
           Teardown(set, closeSsh)
    PROVE  /\ LiveIsOwned'
           /\ todo' \in SUBSET Actions /\ error' = "none" /\ held' = held \ {"forwarder"}
           /\ inner' = FALSE /\ live' = live /\ stopping' = stopping /\ lost' = lost
           /\ "wait" \in todo' => "stop" \in todo'
           /\ set => "inner" \in todo'
           /\ closeSsh => "ssh" \in todo'
<1>1. todo' \in SUBSET Actions /\ error' = "none" /\ held' = held \ {"forwarder"}
      /\ inner' = FALSE /\ live' = live /\ stopping' = stopping /\ lost' = lost
  BY DEF Teardown, Wanted, Actions
<1>2. /\ "wait" \in todo' <=> "forwarder" \in held
      /\ "wait" \in todo' => "stop" \in todo'
      /\ set => "inner" \in todo'
      /\ closeSsh => "ssh" \in todo'
  BY DEF Teardown, Wanted
<1>3. LiveIsOwned'
  BY <1>1, <1>2 DEF IInv, LiveIsOwned, Resources
<1> QED BY <1>1, <1>2, <1>3

\* An action of the list runs.
LEMMA RunStep ==
    ASSUME IInv, NEW a \in Actions, NEW e \in Errors, Run(a, e)
    PROVE  /\ pc \in Tearing /\ pc' = pc /\ op' = op /\ primary' = primary /\ result' = result
           /\ a \in todo /\ todo' = todo \ {a}
           /\ error' \in Errors
           /\ error = "timeout" => error' = "timeout"
           /\ e = "timeout" => error' = "timeout"
           /\ a = "wait" => "stop" \notin todo
<1>1. Earlier(a) \cap todo = {}
  BY DEF Run
<1>2. a = "wait" => "stop" \in Earlier(a)
  BY DEF Earlier, Place, Actions
<1> QED BY <1>1, <1>2 DEF Run, Combined, call, Errors, IInv, TypeOK

\* Each step of the two operations keeps the invariant.
LEMMA NextIInv == IInv /\ [Next]_vars => IInv'
<1> SUFFICES ASSUME IInv, [Next]_vars PROVE IInv'
  OBVIOUS
<1> USE DEF Resources, Actions, Errors, Tearing
<1>1. CASE Connect
  <2>1. todo = {} /\ Teardown(inner, FALSE)
    BY <1>1 DEF Connect, IInv, HeldByPlace
  <2>2. inner \in BOOLEAN
    BY DEF IInv, TypeOK
  <2>3. /\ LiveIsOwned' /\ todo' \in SUBSET Actions /\ error' = "none"
        /\ held' = held \ {"forwarder"} /\ inner' = FALSE /\ live' = live
        /\ stopping' = stopping /\ lost' = lost /\ ("wait" \in todo' => "stop" \in todo')
        /\ (inner => "inner" \in todo')
    BY <2>1, <2>2, TeardownOwns
  <2>4. /\ pc = "idle" /\ pc' = "before" /\ op' = "connect" /\ primary' = "none"
        /\ result' = "none" /\ timedOut' = FALSE
    BY <1>1 DEF Connect
  <2>5. TypeOK'
    BY <2>3, <2>4 DEF IInv, TypeOK
  <2>6. HeldByPlace'
    BY <2>3, <2>4 DEF IInv, TypeOK, HeldByPlace
  <2>7. StopIsFirst' /\ TimeoutIsKept'
    BY <2>3, <2>4 DEF StopIsFirst, TimeoutIsKept
  <2> QED BY <2>3, <2>5, <2>6, <2>7 DEF IInv
<1>2. CASE Disconnect
  <2>1. todo = {} /\ Teardown(inner, TRUE)
    BY <1>2 DEF Disconnect, IInv, HeldByPlace
  <2>2. inner \in BOOLEAN
    BY DEF IInv, TypeOK
  <2>3. /\ LiveIsOwned' /\ todo' \in SUBSET Actions /\ error' = "none"
        /\ held' = held \ {"forwarder"} /\ inner' = FALSE /\ live' = live
        /\ stopping' = stopping /\ lost' = lost /\ ("wait" \in todo' => "stop" \in todo')
        /\ (inner => "inner" \in todo') /\ "ssh" \in todo'
    BY <2>1, <2>2, TeardownOwns
  <2>4. /\ pc = "idle" /\ pc' = "closing" /\ op' = "disconnect" /\ primary' = "none"
        /\ result' = "none" /\ timedOut' = FALSE
    BY <1>2 DEF Disconnect
  <2>5. TypeOK'
    BY <2>3, <2>4 DEF IInv, TypeOK
  <2>6. HeldByPlace'
    BY <2>3, <2>4 DEF IInv, TypeOK, HeldByPlace
  <2>7. StopIsFirst' /\ TimeoutIsKept'
    BY <2>3, <2>4 DEF StopIsFirst, TimeoutIsKept
  <2> QED BY <2>3, <2>5, <2>6, <2>7 DEF IInv
<1>3. CASE DisconnectInner
  <2> PICK e \in {"none", "failed"} : Run("inner", e)
    BY <1>3 DEF DisconnectInner
  <2>1. /\ pc \in Tearing /\ pc' = pc /\ op' = op /\ primary' = primary /\ result' = result
        /\ "inner" \in todo /\ todo' = todo \ {"inner"} /\ error' \in Errors
        /\ (error = "timeout" => error' = "timeout")
    BY RunStep
  <2>2. /\ Release({"session", "channel"})
        /\ inner' = inner /\ stopping' = stopping /\ lost' = lost /\ timedOut' = timedOut
    BY <1>3 DEF DisconnectInner
  <2>3. held' = held \ {"session", "channel"}
    BY <2>2 DEF Release
  <2>4. LiveIsOwned'
    BY <2>1, <2>2, <2>3 DEF IInv, TypeOK, LiveIsOwned, Release
  <2>5. TypeOK'
    BY <2>1, <2>2, <2>3 DEF IInv, TypeOK, LiveIsOwned, Release
  <2>6. HeldByPlace'
    BY <2>1, <2>2, <2>3 DEF IInv, TypeOK, HeldByPlace
  <2>7. StopIsFirst' /\ TimeoutIsKept'
    BY <2>1, <2>2 DEF IInv, StopIsFirst, TimeoutIsKept
  <2> QED BY <2>4, <2>5, <2>6, <2>7 DEF IInv
<1>4. CASE StopForwarder
  <2>1. /\ pc \in Tearing /\ pc' = pc /\ op' = op /\ primary' = primary /\ result' = result
        /\ "stop" \in todo /\ todo' = todo \ {"stop"} /\ error' \in Errors
        /\ (error = "timeout" => error' = "timeout")
    BY <1>4, RunStep DEF StopForwarder
  <2>2. /\ stopping' = TRUE /\ held' = held /\ inner' = inner /\ live' = live
        /\ lost' = lost /\ timedOut' = timedOut
    BY <1>4 DEF StopForwarder
  <2>4. LiveIsOwned'
    BY <2>1, <2>2 DEF IInv, LiveIsOwned
  <2>5. TypeOK'
    BY <2>1, <2>2 DEF IInv, TypeOK
  <2>6. HeldByPlace'
    BY <2>1, <2>2 DEF IInv, HeldByPlace
  <2>7. StopIsFirst' /\ TimeoutIsKept'
    BY <2>1, <2>2 DEF IInv, StopIsFirst, TimeoutIsKept
  <2> QED BY <2>4, <2>5, <2>6, <2>7 DEF IInv
<1>5. CASE DisconnectSsh
  <2> PICK e \in {"none", "failed"} : Run("ssh", e)
    BY <1>5 DEF DisconnectSsh
  <2>1. /\ pc \in Tearing /\ pc' = pc /\ op' = op /\ primary' = primary /\ result' = result
        /\ "ssh" \in todo /\ todo' = todo \ {"ssh"} /\ error' \in Errors
        /\ (error = "timeout" => error' = "timeout")
    BY RunStep
  <2>2. /\ Release({"bastion"})
        /\ inner' = inner /\ stopping' = stopping /\ lost' = lost /\ timedOut' = timedOut
    BY <1>5 DEF DisconnectSsh
  <2>3. held' = held \ {"bastion"}
    BY <2>2 DEF Release
  <2>4. LiveIsOwned'
    BY <2>1, <2>2, <2>3 DEF IInv, TypeOK, LiveIsOwned, Release
  <2>5. TypeOK'
    BY <2>1, <2>2, <2>3 DEF IInv, TypeOK, LiveIsOwned, Release
  <2>6. HeldByPlace'
    BY <2>1, <2>2, <2>3 DEF IInv, TypeOK, HeldByPlace
  <2>7. StopIsFirst' /\ TimeoutIsKept'
    BY <2>1, <2>2 DEF IInv, StopIsFirst, TimeoutIsKept
  <2> QED BY <2>4, <2>5, <2>6, <2>7 DEF IInv
<1>6. CASE WaitForwarder
  <2> PICK e \in Errors : Run("wait", e) /\ timedOut' = (timedOut \/ e = "timeout")
    BY <1>6 DEF WaitForwarder
  <2>1. /\ pc \in Tearing /\ pc' = pc /\ op' = op /\ primary' = primary /\ result' = result
        /\ "wait" \in todo /\ todo' = todo \ {"wait"} /\ error' \in Errors
        /\ (error = "timeout" => error' = "timeout")
        /\ (e = "timeout" => error' = "timeout")
    BY RunStep
  <2>2. /\ live' = [live EXCEPT !["forwarder"] = @ - 1]
        /\ held' = held /\ inner' = inner /\ stopping' = stopping /\ lost' = lost
    BY <1>6 DEF WaitForwarder
  <2>3. "forwarder" \notin held
    BY <2>1 DEF IInv, HeldByPlace
  <2>4. LiveIsOwned'
    BY <2>1, <2>2, <2>3 DEF IInv, TypeOK, LiveIsOwned
  <2>5. TypeOK'
    BY <2>1, <2>2, <2>3 DEF IInv, TypeOK, LiveIsOwned
  <2>6. HeldByPlace'
    BY <2>1, <2>2 DEF IInv, HeldByPlace
  <2>7. StopIsFirst' /\ TimeoutIsKept'
    BY <2>1, <2>2 DEF IInv, StopIsFirst, TimeoutIsKept
  <2> QED BY <2>4, <2>5, <2>6, <2>7 DEF IInv
  \* The ways in which connect fails: all lead to the cleanup.
<1>7. ASSUME NEW e \in {"failed", "timeout"}, NEW set \in BOOLEAN, inner => set,
             pc \in {"before", "dial", "bind", "inner"}, todo = {},
             Fail(e), Teardown(set, TRUE), UNCHANGED timedOut
      PROVE  IInv'
  <2>1. /\ LiveIsOwned' /\ todo' \in SUBSET Actions /\ error' = "none"
        /\ held' = held \ {"forwarder"} /\ inner' = FALSE /\ live' = live
        /\ stopping' = stopping /\ lost' = lost /\ ("wait" \in todo' => "stop" \in todo')
        /\ "ssh" \in todo'
    BY <1>7, TeardownOwns
  <2>2. pc' = "after" /\ op' = op /\ primary' = e /\ result' = result /\ timedOut' = timedOut
    BY <1>7 DEF Fail
  <2>3. held \subseteq {"bastion", "forwarder"}
    BY <1>7 DEF IInv, TypeOK, HeldByPlace
  <2>5. TypeOK'
    BY <2>1, <2>2 DEF IInv, TypeOK
  <2>6. HeldByPlace'
    <3>1. op' = "connect"
      BY <1>7, <2>2 DEF IInv, HeldByPlace
    <3> QED BY <2>1, <2>2, <2>3, <3>1 DEF HeldByPlace
  <2>7. StopIsFirst' /\ TimeoutIsKept'
    BY <2>1, <2>2 DEF StopIsFirst, TimeoutIsKept
  <2> QED BY <2>1, <2>5, <2>6, <2>7 DEF IInv
<1>8. CASE TornDownBefore
  <2>1. CASE error = "none"
    <3>1. pc = "before" /\ todo = {} /\ pc' = "dial"
          /\ UNCHANGED <<op, primary, result, todo, error, timedOut, held, inner, live, stopping, lost>>
      BY <1>8, <2>1 DEF TornDownBefore, teardown, objects
    <3> QED BY <3>1 DEF IInv, TypeOK, LiveIsOwned, HeldByPlace, StopIsFirst, TimeoutIsKept
  <2>2. CASE error # "none"
    <3>1. /\ pc = "before" /\ todo = {} /\ Fail(error) /\ Teardown(inner, TRUE)
          /\ UNCHANGED timedOut
      BY <1>8, <2>2 DEF TornDownBefore
    <3>2. error \in {"failed", "timeout"} /\ inner \in BOOLEAN
      BY <2>2 DEF IInv, TypeOK
    <3> QED BY <1>7, <3>1, <3>2
  <2> QED BY <2>1, <2>2
<1>9. CASE TornDownAfter
  <2>1. /\ pc = "after" /\ todo = {} /\ pc' = "idle" /\ op' = op /\ result' = primary
        /\ UNCHANGED <<primary, todo, error, timedOut, held, inner, live, stopping, lost>>
    BY <1>9 DEF TornDownAfter, Finish, teardown, objects
  <2>2. held = {} /\ ~inner /\ op = "connect" /\ primary # "none"
    BY <2>1 DEF IInv, HeldByPlace
  <2>3. TypeOK' /\ LiveIsOwned'
    BY <2>1 DEF IInv, TypeOK, LiveIsOwned
  <2>4. HeldByPlace'
    BY <2>1, <2>2 DEF HeldByPlace
  <2>5. StopIsFirst' /\ TimeoutIsKept'
    BY <2>1, <2>2 DEF IInv, TypeOK, StopIsFirst, TimeoutIsKept
  <2> QED BY <2>3, <2>4, <2>5 DEF IInv
<1>10. CASE TornDown
  <2>1. /\ pc = "closing" /\ todo = {} /\ pc' = "idle" /\ op' = op /\ result' = error
        /\ UNCHANGED <<primary, todo, error, timedOut, held, inner, live, stopping, lost>>
    BY <1>10 DEF TornDown, Finish, teardown, objects
  <2>2. held = {} /\ ~inner /\ op = "disconnect"
    BY <2>1 DEF IInv, HeldByPlace
  <2>3. TypeOK' /\ LiveIsOwned'
    BY <2>1 DEF IInv, TypeOK, LiveIsOwned
  <2>4. HeldByPlace'
    BY <2>1, <2>2 DEF HeldByPlace
  <2>5. StopIsFirst' /\ TimeoutIsKept'
    BY <2>1, <2>2 DEF IInv, StopIsFirst, TimeoutIsKept
  <2> QED BY <2>3, <2>4, <2>5 DEF IInv
<1>11. CASE ReuseSsh
  <2>1. /\ pc = "dial" /\ "bastion" \in held /\ pc' = "bind"
        /\ UNCHANGED <<op, primary, result, todo, error, timedOut, held, inner, live, stopping, lost>>
    BY <1>11 DEF ReuseSsh, teardown, objects
  <2>2. held = {"bastion"}
    BY <2>1 DEF IInv, HeldByPlace
  <2> QED BY <2>1, <2>2 DEF IInv, TypeOK, LiveIsOwned, HeldByPlace, StopIsFirst, TimeoutIsKept
<1>12. CASE DialSsh
  <2>1. /\ pc = "dial" /\ "bastion" \notin held /\ pc' = "bind" /\ lost' = FALSE
        /\ held' = held \cup {"bastion"}
        /\ live' = [r \in Resources |-> IF r \in {"bastion"} THEN live[r] + 1 ELSE live[r]]
        /\ UNCHANGED <<op, primary, result, todo, error, timedOut, inner, stopping>>
    BY <1>12 DEF DialSsh, Make, teardown
  <2>2. held = {} /\ todo = {} /\ held' = {"bastion"}
    BY <2>1 DEF IInv, TypeOK, HeldByPlace
  <2>3. LiveIsOwned'
    BY <2>1, <2>2 DEF IInv, TypeOK, LiveIsOwned
  <2>4. TypeOK'
    <3>1. live' \in [Resources -> Nat]
      BY <2>1 DEF IInv, TypeOK
    <3>2. held' \in SUBSET Resources
      BY <2>2
    <3> QED BY <2>1, <3>1, <3>2 DEF IInv, TypeOK
  <2>5. HeldByPlace'
    BY <2>1, <2>2 DEF IInv, HeldByPlace
  <2>6. StopIsFirst' /\ TimeoutIsKept'
    BY <2>1, <2>2 DEF IInv, StopIsFirst, TimeoutIsKept
  <2> QED BY <2>3, <2>4, <2>5, <2>6 DEF IInv
<1>13. CASE BindForwarder
  <2>1. /\ pc = "bind" /\ pc' = "inner" /\ stopping' = FALSE
        /\ held' = held \cup {"forwarder"}
        /\ live' = [r \in Resources |-> IF r \in {"forwarder"} THEN live[r] + 1 ELSE live[r]]
        /\ UNCHANGED <<op, primary, result, todo, error, timedOut, inner, lost>>
    BY <1>13 DEF BindForwarder, Make, teardown
  <2>2. held = {"bastion"} /\ todo = {} /\ held' = {"bastion", "forwarder"}
    BY <2>1 DEF IInv, HeldByPlace
  <2>3. LiveIsOwned'
    BY <2>1, <2>2 DEF IInv, TypeOK, LiveIsOwned
  <2>4. TypeOK'
    <3>1. live' \in [Resources -> Nat]
      BY <2>1 DEF IInv, TypeOK
    <3>2. held' \in SUBSET Resources
      BY <2>2
    <3> QED BY <2>1, <3>1, <3>2 DEF IInv, TypeOK
  <2>5. HeldByPlace'
    BY <2>1, <2>2 DEF IInv, HeldByPlace
  <2>6. StopIsFirst' /\ TimeoutIsKept'
    BY <2>1, <2>2 DEF IInv, StopIsFirst, TimeoutIsKept
  <2> QED BY <2>3, <2>4, <2>5, <2>6 DEF IInv
<1>14. CASE BindForwarderFails
  <2>1. /\ pc = "bind" /\ Fail("failed") /\ Teardown(inner, TRUE) /\ UNCHANGED timedOut
    BY <1>14 DEF BindForwarderFails
  <2>2. todo = {} /\ inner \in BOOLEAN
    BY <2>1 DEF IInv, TypeOK, HeldByPlace
  <2> QED BY <1>7, <2>1, <2>2
<1>15. CASE ConnectInner
  <2>1. /\ pc = "inner" /\ pc' = "idle" /\ inner' = TRUE /\ op' = op /\ result' = "none"
        /\ held' = held \cup {"session", "channel"}
        /\ live' = [r \in Resources |->
                        IF r \in {"session", "channel"} THEN live[r] + 1 ELSE live[r]]
        /\ UNCHANGED <<primary, todo, error, timedOut, stopping, lost>>
    BY <1>15 DEF ConnectInner, Finish, Make, teardown
  <2>2. held = {"bastion", "forwarder"} /\ todo = {} /\ op = "connect"
    BY <2>1 DEF IInv, HeldByPlace
  <2>3. held' = Resources
    BY <2>1, <2>2
  <2>4. LiveIsOwned'
    BY <2>1, <2>2, <2>3 DEF IInv, TypeOK, LiveIsOwned
  <2>5. TypeOK'
    BY <2>1, <2>2 DEF IInv, TypeOK
  <2>6. HeldByPlace'
    BY <2>1, <2>2, <2>3 DEF IInv, HeldByPlace
  <2>7. StopIsFirst' /\ TimeoutIsKept'
    BY <2>1, <2>2 DEF IInv, StopIsFirst, TimeoutIsKept
  <2> QED BY <2>4, <2>5, <2>6, <2>7 DEF IInv
<1>16. ASSUME NEW e \in {"failed", "timeout"}, DialSshFails(e) PROVE IInv'
  <2>1. /\ pc = "dial" /\ Fail(e) /\ Teardown(inner, TRUE) /\ UNCHANGED timedOut
    BY <1>16 DEF DialSshFails
  <2>2. todo = {} /\ inner \in BOOLEAN
    BY <2>1 DEF IInv, TypeOK, HeldByPlace
  <2> QED BY <1>7, <2>1, <2>2
<1>17. ASSUME NEW e \in {"failed", "timeout"}, ConnectInnerFails(e) PROVE IInv'
  <2>1. PICK set \in BOOLEAN : Teardown(set, TRUE)
    BY <1>17 DEF ConnectInnerFails
  <2>2. pc = "inner" /\ Fail(e) /\ UNCHANGED timedOut
    BY <1>17 DEF ConnectInnerFails
  <2>3. todo = {} /\ ~inner
    BY <2>2 DEF IInv, HeldByPlace
  <2> QED BY <1>7, <2>1, <2>2, <2>3
<1>18. CASE ServerLost
  <2>1. /\ lost' = TRUE
        /\ UNCHANGED <<op, pc, primary, result, todo, error, timedOut, held, inner, live, stopping>>
    BY <1>18 DEF ServerLost, call, teardown
  <2> QED BY <2>1 DEF IInv, TypeOK, LiveIsOwned, HeldByPlace, StopIsFirst, TimeoutIsKept
<1>19. CASE UNCHANGED vars
  BY <1>19 DEF IInv, TypeOK, LiveIsOwned, HeldByPlace, StopIsFirst, TimeoutIsKept,
               vars, call, teardown, objects
<1> QED
  BY <1>1, <1>2, <1>3, <1>4, <1>5, <1>6, <1>8, <1>9, <1>10, <1>11, <1>12, <1>13, <1>14,
     <1>15, <1>16, <1>17, <1>18, <1>19 DEF Next

----------------------------------------------------------------------------
(* The theorems. *)

\* The invariant holds of every behaviour of the specification.
THEOREM Invariance == Spec => []IInv
  BY InitIInv, NextIInv, PTL DEF Spec

\* The variables of a tunnelled connection keep their types.
THEOREM TypeCorrect == Spec => []TypeOK
<1>1. IInv => TypeOK
  BY DEF IInv
<1> QED BY <1>1, Invariance, PTL

\* Between operations every live object is held by one attribute.
THEOREM NoLeak == Spec => []NothingForgotten
<1>1. IInv => NothingForgotten
  BY DEF IInv, TypeOK, LiveIsOwned, HeldByPlace, NothingForgotten
<1> QED BY <1>1, Invariance, PTL

\* A connect that raised, for whatever reason, and any disconnect leave nothing.
THEOREM Outcome == Spec => []EndsEmpty
<1>1. IInv => EndsEmpty
  BY DEF IInv, HeldByPlace, EndsEmpty
<1> QED BY <1>1, Invariance, PTL

\* A connect that returns, and nothing else, leaves the object connected, and that
\* is a whole tunnel with all four objects.
THEOREM Whole == Spec => []ConnectedIsWhole
<1>1. IInv => ConnectedIsWhole
  BY DEF IInv, HeldByPlace, ConnectedIsWhole
<1> QED BY <1>1, Invariance, PTL

\* The forwarder is waited for when it was told to stop and its session is closed.
THEOREM Waiting == Spec => []WaitsLast
<1>1. {"stop", "ssh"} \subseteq Earlier("wait")
  BY DEF Earlier, Place, Actions
<1>2. IInv => WaitsLast
  BY <1>1 DEF IInv, HeldByPlace, StopIsFirst, WaitsLast, Tearing
<1> QED BY <1>2, Invariance, PTL

\* A timeout of the stop is what disconnect reports, whatever fails beside it.
THEOREM TimeoutReported == Spec => []TimeoutIsReported
<1>1. IInv => TimeoutIsReported
  BY DEF IInv, TimeoutIsKept, TimeoutIsReported
<1> QED BY <1>1, Invariance, PTL
=============================================================================
