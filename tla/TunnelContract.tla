--------------------------- MODULE TunnelContract ---------------------------
(***************************************************************************)
(* What _Forwarder (connections/tunnel.py) promises to TunnelledConnection,*)
(* without threads, locks and sockets: connections are admitted until the  *)
(* stop and never after it, a served connection always ends, and once the  *)
(* stop was reported as complete nothing changes any more.                 *)
(***************************************************************************)
CONSTANT Requests

VARIABLES
    phase,    \* what the owner knows of the tunnel
    conn,     \* each local client's connection
    faulty    \* releasing some resource has failed

vars == <<phase, conn, faulty>>

\* The reports after which the tunnel is over.
Settled == {"clean", "failed", "aborted"}

TypeOK ==
    /\ phase \in {"serving", "stopping", "timedOut"} \cup Settled
    /\ conn \in [Requests -> {"idle", "served", "over"}]
    /\ faulty \in BOOLEAN

Init ==
    /\ phase = "serving"
    /\ conn = [r \in Requests |-> "idle"]
    /\ faulty = FALSE

MayFault == faulty' \in {faulty, TRUE}

Admit(r) ==
    /\ phase = "serving" /\ conn[r] = "idle"
    /\ conn' = [conn EXCEPT ![r] = "served"]
    /\ UNCHANGED <<phase, faulty>>

\* A connection may end at any time, after a reported timeout too.
End(r) ==
    /\ phase \notin Settled /\ conn[r] = "served"
    /\ conn' = [conn EXCEPT ![r] = "over"]
    /\ UNCHANGED <<phase, faulty>>

\* Only a stop turns away connections that were not served.
TurnAway(R) ==
    /\ phase \in {"stopping", "timedOut"}
    /\ \A r \in R : conn[r] = "idle"
    /\ conn' = [r \in Requests |-> IF r \in R THEN "over" ELSE conn[r]]
    /\ MayFault
    /\ UNCHANGED phase

Fault ==
    /\ phase \notin Settled
    /\ faulty' = TRUE
    /\ UNCHANGED <<phase, conn>>

Stop ==
    /\ phase = "serving"
    /\ phase' = "stopping"
    /\ UNCHANGED <<conn, faulty>>

\* Every report but a timeout says that no connection is served any more, and
\* a clean one that every release succeeded.
Report(outcome) ==
    /\ phase = "stopping"
    /\ outcome # "timedOut" => \A r \in Requests : conn[r] # "served"
    /\ outcome = "clean" => ~faulty
    /\ outcome = "failed" => faulty
    /\ phase' = outcome
    /\ UNCHANGED <<conn, faulty>>

Next ==
    \/ \E r \in Requests : Admit(r) \/ End(r)
    \/ \E R \in SUBSET Requests : TurnAway(R)
    \/ Fault
    \/ Stop
    \/ \E outcome \in Settled \cup {"timedOut"} : Report(outcome)

Spec == Init /\ [][Next]_vars
=============================================================================
