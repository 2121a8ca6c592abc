------------------------- MODULE MCTunnelForwarder -------------------------
(* Instances of TunnelForwarder for TLC. *)
EXTENDS TunnelForwarderProofs, TLC

\* The connections are interchangeable; the safety runs use it.
Symmetry == Permutations(Requests)
=============================================================================
