--------------------------- MODULE MCReviewTasks ---------------------------
(***************************************************************************)
(* Small instances of ReviewTasks.                                         *)
(***************************************************************************)
EXTENDS ReviewTasks, TLC

CONSTANTS t1, t2, a, b, q1, q2

\* Tasks, reviewers and requests are only compared.
Symmetry == Permutations(Tasks) \cup Permutations(Reviewers) \cup Permutations(Requests)
=============================================================================
