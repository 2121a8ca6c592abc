------------------------------- MODULE MCStorage -------------------------------
(***************************************************************************)
(* The storage layer for TLC: its machines side by side, of which one runs *)
(* in each behaviour while the others rest, and the questions put to its   *)
(* pure decisions, each an initial state of its own.                       *)
(***************************************************************************)
EXTENDS StorageStreams, SequentialRead, RangedRead, SftpTree, MCDecisions

-----------------------------------------------------------------------------
\* One machine runs, or one question is answered.

ReadRest == ReadInit /\ reader = "sized"
RangeRest == RangeInit /\ length = 1
TreeRest == TreeInit /\ modes /\ \A p \in Place : tree[p] = "none"

About(machine) == question = [about |-> machine]

StorageInit ==
    \/ About("streams") /\ Init /\ ReadRest /\ RangeRest /\ TreeRest
    \/ About("read") /\ ReadInit /\ Init /\ RangeRest /\ TreeRest
    \/ About("range") /\ RangeInit /\ Init /\ ReadRest /\ TreeRest
    \/ About("tree") /\ TreeInit /\ Init /\ ReadRest /\ RangeRest
    \/ Asked /\ Init /\ ReadRest /\ RangeRest /\ TreeRest

StorageVars == <<vars, readVars, rangeVars, treeVars, question>>

StorageNext ==
    \/ About("streams") /\ Next /\ UNCHANGED <<readVars, rangeVars, treeVars, question>>
    \/ About("read") /\ ReadNext /\ UNCHANGED <<vars, rangeVars, treeVars, question>>
    \/ About("range") /\ RangeNext /\ UNCHANGED <<vars, readVars, treeVars, question>>
    \/ About("tree") /\ TreeNext /\ UNCHANGED <<vars, readVars, rangeVars, question>>

StorageSpec == StorageInit /\ [][StorageNext]_StorageVars
=============================================================================
