---------------------------- MODULE RunLifecycle ----------------------------
(***************************************************************************)
(* What a pipeline run promises to the console that polls its row          *)
(* (backend/app/tasks/pipeline.py, docs/persistence.md "Background work"): *)
(* pending, then running, then completed or failed; failed at once when it *)
(* could not be queued; and never pending or running forever.              *)
(*                                                                         *)
(* Two mishaps weaken the promise.  Once a message may have come twice, or *)
(* after its refusal was recorded ("repeat"), an ended run may run again   *)
(* or end otherwise.  Once a request or a worker was lost ("crash"), a run *)
(* may stay where it is.                                                   *)
(***************************************************************************)
CONSTANT Runs

VARIABLES status, mishaps

vars == <<status, mishaps>>

Terminal == {"completed", "failed"}

Init ==
    /\ status = [r \in Runs |-> "absent"]
    /\ mishaps = {}

Move(r, from, to) ==
    /\ status[r] = from
    /\ status' = [status EXCEPT ![r] = to]
    /\ UNCHANGED mishaps

Create(r) == Move(r, "absent", "pending")
Start(r) == Move(r, "pending", "running")
Refuse(r) == Move(r, "pending", "failed")
Finish(r) == \E outcome \in Terminal : Move(r, "running", outcome)

Again(r) ==
    /\ "repeat" \in mishaps
    /\ \E ended \in Terminal, to \in {"running"} \cup Terminal : Move(r, ended, to)

Mishap ==
    /\ \E m \in {"repeat", "crash"} : mishaps' = mishaps \cup {m}
    /\ UNCHANGED status

Next ==
    \/ \E r \in Runs : Create(r) \/ Start(r) \/ Refuse(r) \/ Finish(r) \/ Again(r)
    \/ Mishap

Safety == Init /\ [][Next]_vars

NoCrash == "crash" \notin mishaps

Spec ==
    /\ Safety
    /\ \A r \in Runs : /\ WF_vars(NoCrash /\ (Start(r) \/ Refuse(r)))
                       /\ WF_vars(NoCrash /\ Finish(r))
=============================================================================
