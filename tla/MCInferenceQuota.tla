-------------------------- MODULE MCInferenceQuota --------------------------
(***************************************************************************)
(* Small instances of InferenceQuota.                                      *)
(***************************************************************************)
EXTENDS InferenceQuota, TLC

CONSTANTS q1, q2, q3

\* The properties treat requests alike.
Symmetry == Permutations(Requests)
=============================================================================
