---------------------------- MODULE RoundLedger ----------------------------
(***************************************************************************)
(* What the rounds of a federation promise to whoever audits them          *)
(* (models/federated.py: "the audit trail of a federated run").  Rounds    *)
(* are opened one after the other, a bounded number of times; each may be  *)
(* completed, and stays so; the global model is the outcome of the round   *)
(* completed last.                                                         *)
(***************************************************************************)
EXTENDS Integers

CONSTANT MaxRounds

VARIABLES
    opened,     \* rounds 1 .. opened are on record
    completed,  \* the rounds among them that have an outcome
    published   \* the round whose outcome is the global model, 0 before any

Init ==
    /\ opened = 0
    /\ completed = {}
    /\ published = 0

Open ==
    /\ opened < MaxRounds
    /\ opened' = opened + 1
    /\ UNCHANGED <<completed, published>>

Complete ==
    \E n \in 1 .. opened :
        /\ completed' = completed \cup {n}
        /\ published' = n
        /\ UNCHANGED opened

Next == Open \/ Complete

Spec == Init /\ [][Next]_<<opened, completed, published>>
=============================================================================
