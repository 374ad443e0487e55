----------------------------- MODULE MCEdgeFleet -----------------------------
(***************************************************************************)
(* A small fleet for TLC.                                                  *)
(***************************************************************************)
EXTENDS EdgeFleet, TLC

CONSTANTS d1, d2, q1, q2

Symmetry == Permutations({d1, d2}) \cup Permutations({q1, q2})
=============================================================================
