---------------------------- MODULE MCFederation ----------------------------
(***************************************************************************)
(* Small instances of Federation for TLC.                                  *)
(***************************************************************************)
EXTENDS Federation, TLC

CONSTANTS s1, s2, q1, q2

(***************************************************************************)
(* The calls of each instance.                                             *)
(***************************************************************************)
Submissions(sites, numbers) == [op : {"submit"}, site : sites, round : numbers]
Joins(sites) == [op : {"join"}, site : sites, status : {"connected"}]

\* Every operation: s1 comes, goes and submits to both rounds, s2 submits to
\* the first one without ever joining.
TrainingCalls ==
    Joins({s1}) \cup [op : {"remove", "reconnect"}, site : {s1}]
        \cup [op : {"start", "retrain"}]
        \cup [op : {"set"}, status : {"completed"}]
        \cup Submissions({s1}, 1 .. 2) \cup Submissions({s2}, {1})
        \cup [op : {"aggregate"}, round : 1 .. 2]

\* Two members and a round both submit to.
RaceCalls == Joins({s1, s2}) \cup {[op |-> "start"]} \cup Submissions({s1, s2}, 1 .. 2)

\* The rounds five of which spend ten shares when two sites submit.
BudgetCalls == Joins({s1, s2}) \cup {[op |-> "start"]} \cup Submissions({s1, s2}, 1 .. 5)

\* Requests are interchangeable, and sites are where the calls do not tell
\* them apart.
SameRequests == Permutations(Requests)
Symmetry == Permutations(Sites) \cup SameRequests

(***************************************************************************)
(* What the handler of a request still uses of what the request has read.  *)
(* Two states that agree on it have the same futures, so TLC may identify  *)
(* them.                                                                   *)
(***************************************************************************)
Finished == {"completed", "stopped"}
Columns(r) ==
    CASE r.call.op = "join" -> <<r.federation.status = "waiting">>
      [] r.call.op = "set" -> <<r.federation.status = r.call.status>>
      [] r.call.op = "retrain" -> <<r.federation.status \in Finished>>
      [] r.call.op = "start" -> <<r.federation.status = "training",
                                 r.federation.current_round,
                                 BudgetExhausted(r.federation.spent)>>
      [] r.call.op = "submit" -> <<r.federation.spent>>
      [] r.call.op = "aggregate" -> <<r.federation.model>>
      [] OTHER -> <<>>

Members(r) ==
    CASE r.call.op = "join" ->
             <<ReachesMinimum(DOMAIN r.participants),
               r.call.site \in DOMAIN r.participants>>
      [] r.call.op = "start" -> Cardinality(DOMAIN r.participants) >= MinParticipants
      [] r.call.op = "submit" ->
             {<<r.participants[s].id, r.participants[s].samples>> :
                 s \in DOMAIN r.participants \cap {r.call.site}}
      [] r.call.op \in {"remove", "reconnect"} ->
             {r.participants[s].id : s \in DOMAIN r.participants \cap {r.call.site}}
      [] r.call.op = "aggregate" ->
             [s \in DOMAIN r.participants |->
                 <<r.participants[s].id, r.participants[s].rounds>>]
      [] OTHER -> {}

Round(r) ==
    IF r.call.op \in {"submit", "aggregate"}
    THEN {r.rounds[n].updates : n \in DOMAIN r.rounds \cap {r.call.round}}
    ELSE {}

\* No handler's result depends on the status of a participant.
Counters == [s \in DOMAIN participants |->
                <<participants[s].id, participants[s].rounds, participants[s].samples>>]

View == <<federation, Counters, rounds, inserted,
          [q \in Requests |-> <<request[q].phase, request[q].call, Columns(request[q]),
                                Members(request[q]), Round(request[q])>>]>>
=============================================================================
