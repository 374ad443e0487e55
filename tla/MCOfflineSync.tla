--------------------------- MODULE MCOfflineSync ---------------------------
(***************************************************************************)
(* Small instances of OfflineSync.                                         *)
(***************************************************************************)
EXTENDS OfflineSync, TLC

CONSTANTS q1, q2, x, k

Threshold(base) ==
    [type |-> "threshold", all |-> TRUE, subs |-> {}, base |-> base, key |-> k,
     window |-> 0, min |-> 0]
Temporal(sub, window, min) ==
    [type |-> "temporal", all |-> TRUE, subs |-> {sub}, base |-> x, key |-> k,
     window |-> window, min |-> min]
Compound(all, subs) ==
    [type |-> "compound", all |-> all, subs |-> subs, base |-> x, key |-> k,
     window |-> 0, min |-> 0]

\* A temporal rule and a nested compound one (x or (x and x twice in a window))
\* share a history; a threshold rule.
MCRules ==
    {<<Threshold(x), Temporal(1, 1, 2)>>,
     <<Threshold(x), Threshold(x), Temporal(2, 1, 2), Threshold(x), Compound(TRUE, {3, 4}),
       Compound(FALSE, {1, 5})>>,
     <<Threshold(x)>>}

\* Tests of a narrower window on the same metric.
MCTested == {<<Threshold(x), Temporal(1, 0, 1)>>}

\* Requests are only compared.
Symmetry == Permutations(Requests)
=============================================================================
