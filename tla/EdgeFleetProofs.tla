-------------------------- MODULE EdgeFleetProofs --------------------------
(***************************************************************************)
(* Proofs about EdgeFleet, for any devices, requests and bounds.           *)
(***************************************************************************)
EXTENDS EdgeFleet, SequenceTheorems, TLAPS

(***************************************************************************)
(* The inductive invariant                                                 *)
(***************************************************************************)
Numbers(n) == [v \in 1 .. n |-> v]

\* The versions of a device are numbered without gaps.
Numbered == \A d \in Devices : configs[d] = Numbers(Len(configs[d]))

\* What a session may rely on while others go on.
HeartbeatHolds(r) ==
    r.op = "heartbeat" /\ r.phase # "loaded" =>
        /\ r.dev \in Registered
        /\ r.phase = "trimmed" =>
               /\ r.drop <= metrics[r.dev] + 1
               /\ metrics[r.dev] + 1 - r.drop <= Retained

SweepHolds(r) == r.op = "sweep" => r.now <= clock

ConfigHolds(r) ==
    r.op = "configure" =>
        /\ r.inserted \subseteq r.targets
        /\ \A d \in r.targets :
               /\ devices[d].status # "unregistered"
               /\ d \in Registered => r.version[d] <= Len(configs[d]) + 1
               /\ d \in r.inserted =>
                      d \in Registered /\ r.version[d] = Len(configs[d]) + 1

Holds(r) == HeartbeatHolds(r) /\ SweepHolds(r) /\ ConfigHolds(r)

\* Two sessions hold no row and no key together.
Apart(r, s) ==
    /\ /\ r.op = "heartbeat" /\ r.phase # "loaded"
       /\ s.op = "heartbeat" /\ s.phase # "loaded"
       => r.dev # s.dev
    /\ r.op = "configure" /\ s.op = "configure" => r.inserted \cap s.inserted = {}

Sound ==
    /\ \A q \in Requests : Holds(request[q])
    /\ \A p, q \in Requests : p # q => Apart(request[p], request[q])

Inv == TypeOK /\ Numbered /\ MetricsBounded /\ RowsAgree /\ Sound

-----------------------------------------------------------------------------
(***************************************************************************)
(* Sessions                                                                *)
(***************************************************************************)
LEMMA SessionOf ==
  ASSUME NEW r \in Sessions
  PROVE  /\ r.op = "heartbeat" => r \in Heartbeats
         /\ r.op = "sweep" => r \in Sweeps
         /\ r.op = "configure" => r \in Configurations
         /\ r.op \in {"approve", "rollback", "schedule"} => r \in Decisions
  BY DEF Sessions, Idle, Heartbeats, Sweeps, Configurations, Decisions

LEMMA IdleHolds == Idle \in Sessions /\ Holds(Idle) /\ \A s : Apart(s, Idle) /\ Apart(Idle, s)
  BY DEF Sessions, Idle, Holds, HeartbeatHolds, SweepHolds, ConfigHolds, Apart

\* A step of one session that changes no row.
LEMMA SessionStep ==
  ASSUME Inv, NEW q \in Requests, NEW s \in Sessions, Holds(s),
         \A p \in Requests \ {q} : Apart(request[p], s) /\ Apart(s, request[p]),
         request' = [request EXCEPT ![q] = s], made' \in 0 .. MaxRequests,
         UNCHANGED <<clock, devices, metrics, configs, update, torn>>
  PROVE  Inv'
<1>1. request \in [Requests -> Sessions]
  BY DEF Inv, TypeOK
<1>2. request'[q] = s /\ \A p \in Requests \ {q} : request'[p] = request[p]
  BY <1>1
<1>3. request' \in [Requests -> Sessions]
  BY <1>1
<1>4. Registered' = Registered
  BY DEF Registered
<1>5. TypeOK'
  BY <1>3, <1>4 DEF Inv, TypeOK
<1>6. Numbered' /\ MetricsBounded'
  BY DEF Inv, Numbered, MetricsBounded
<1>7. RowsAgree'
  BY <1>4 DEF Inv, RowsAgree, OfflineIsSilent, RolloutsAgree
<1>8. ASSUME NEW p \in Requests PROVE Holds(request[p])'
  <2>1. Holds(request'[p])
    BY <1>2 DEF Inv, Sound
  <2> QED BY <2>1, <1>4 DEF Holds, HeartbeatHolds, SweepHolds, ConfigHolds
<1>9. ASSUME NEW p \in Requests, NEW t \in Requests, p # t PROVE Apart(request[p], request[t])'
  <2>1. Apart(request'[p], request'[t])
    BY <1>2, <1>9 DEF Inv, Sound
  <2> QED BY <2>1 DEF Apart
<1> QED BY <1>5, <1>6, <1>7, <1>8, <1>9 DEF Inv, Sound

\* A step that ends a session, or none, and changes rows: what is left to show.
LEMMA RowStep ==
  ASSUME Inv, request' \in [Requests -> Sessions],
         \A q \in Requests : request'[q] \in {request[q], Idle},
         \A q \in Requests : request'[q] = request[q] => Holds(request[q])'
  PROVE  Sound'
<1>1. ASSUME NEW q \in Requests PROVE Holds(request[q])'
  <2>1. CASE request'[q] = request[q]
    BY <2>1
  <2>2. CASE request'[q] = Idle
    BY <2>2 DEF Idle, Holds, HeartbeatHolds, SweepHolds, ConfigHolds
  <2> QED BY <2>1, <2>2
<1>2. ASSUME NEW p \in Requests, NEW q \in Requests, p # q PROVE Apart(request[p], request[q])'
  <2>1. Apart(request'[p], request'[q])
    BY <1>2, IdleHolds DEF Inv, Sound
  <2> QED BY <2>1 DEF Apart
<1> QED BY <1>1, <1>2 DEF Sound

LEMMA ThisSession ==
  ASSUME Inv, NEW q \in Requests
  PROVE  /\ request[q] \in Sessions /\ Holds(request[q])
         /\ \A p \in Requests \ {q} :
                /\ request[p] \in Sessions /\ Holds(request[p])
                /\ Apart(request[p], request[q]) /\ Apart(request[q], request[p])
         /\ made \in 0 .. MaxRequests /\ MaxRequests \in Nat
  BY FleetAssumption DEF Inv, TypeOK, Sound

-----------------------------------------------------------------------------
(***************************************************************************)
(* Steps that change no row                                                *)
(***************************************************************************)
LEMMA LoadHeartbeatStep ==
  ASSUME Inv, NEW q \in Requests, LoadHeartbeat(q) PROVE Inv'
<1>1. PICK d \in Registered :
          Begin(q, [op |-> "heartbeat", phase |-> "loaded", dev |-> d,
                    row |-> devices[d], now |-> clock, drop |-> 0])
  BY DEF LoadHeartbeat
<1> DEFINE s == [op |-> "heartbeat", phase |-> "loaded", dev |-> d,
                 row |-> devices[d], now |-> clock, drop |-> 0]
<1>2. s \in Heartbeats
  BY <1>1 DEF Inv, TypeOK, Heartbeats, Registered
<1>3. s \in Sessions /\ Holds(s) /\ \A t : Apart(t, s) /\ Apart(s, t)
  BY <1>2 DEF Sessions, Holds, HeartbeatHolds, SweepHolds, ConfigHolds, Apart
<1>4. request' = [request EXCEPT ![q] = s] /\ made' \in 0 .. MaxRequests
  BY <1>1, ThisSession DEF Begin
<1>5. UNCHANGED <<clock, devices, metrics, configs, update, torn>>
  BY DEF LoadHeartbeat
<1> HIDE DEF s
<1> QED BY <1>3, <1>4, <1>5, SessionStep

LEMMA LoadSweepStep ==
  ASSUME Inv, NEW q \in Requests, LoadSweep(q) PROVE Inv'
<1> DEFINE s == [op |-> "sweep", seen |-> devices, now |-> clock]
<1>1. s \in Sweeps /\ clock <= clock
  BY FleetAssumption DEF Inv, TypeOK, Sweeps, Times
<1>2. s \in Sessions /\ Holds(s) /\ \A t : Apart(t, s) /\ Apart(s, t)
  BY <1>1 DEF Sessions, Holds, HeartbeatHolds, SweepHolds, ConfigHolds, Apart
<1>3. request' = [request EXCEPT ![q] = s] /\ made' \in 0 .. MaxRequests
  BY ThisSession DEF LoadSweep, Begin
<1>4. UNCHANGED <<clock, devices, metrics, configs, update, torn>>
  BY DEF LoadSweep
<1> HIDE DEF s
<1> QED BY <1>2, <1>3, <1>4, SessionStep

LEMMA LoadTargetsStep ==
  ASSUME Inv, NEW q \in Requests, LoadTargets(q) PROVE Inv'
<1>1. PICK targets \in {{d} : d \in Registered} \cup {Registered} :
          Begin(q, [op |-> "configure", targets |-> targets,
                    version |-> [d \in Devices |-> 0], inserted |-> {}])
  BY DEF LoadTargets
<1> DEFINE s == [op |-> "configure", targets |-> targets,
                 version |-> [d \in Devices |-> 0], inserted |-> {}]
<1>2. targets \subseteq Registered
  BY <1>1
<1>3. s \in Configurations
  BY <1>2 DEF Configurations, Registered
<1>4. \A d \in Devices : Len(configs[d]) \in Nat
  BY LenProperties DEF Inv, TypeOK
<1>5. s \in Sessions /\ Holds(s) /\ \A t : Apart(t, s) /\ Apart(s, t)
  <2>1. ConfigHolds(s)
    BY <1>2, <1>4 DEF ConfigHolds, Registered
  <2> QED BY <1>3, <2>1 DEF Sessions, Holds, HeartbeatHolds, SweepHolds, Apart
<1>6. request' = [request EXCEPT ![q] = s] /\ made' \in 0 .. MaxRequests
  BY <1>1, ThisSession DEF Begin
<1>7. UNCHANGED <<clock, devices, metrics, configs, update, torn>>
  BY DEF LoadTargets
<1> HIDE DEF s
<1> QED BY <1>5, <1>6, <1>7, SessionStep

LEMMA LoadUpdateStep ==
  ASSUME Inv, NEW q \in Requests, LoadUpdate(q) PROVE Inv'
<1>1. PICK op \in {"approve", "rollback", "schedule"} : Begin(q, [op |-> op, seen |-> update])
  BY DEF LoadUpdate
<1> DEFINE s == [op |-> op, seen |-> update]
<1>2. s \in Decisions
  BY DEF Inv, TypeOK, Decisions
<1>3. s \in Sessions /\ Holds(s) /\ \A t : Apart(t, s) /\ Apart(s, t)
  BY <1>2 DEF Sessions, Holds, HeartbeatHolds, SweepHolds, ConfigHolds, Apart
<1>4. request' = [request EXCEPT ![q] = s] /\ made' \in 0 .. MaxRequests
  BY <1>1, ThisSession DEF Begin
<1>5. UNCHANGED <<clock, devices, metrics, configs, update, torn>>
  BY DEF LoadUpdate
<1> HIDE DEF s
<1> QED BY <1>3, <1>4, <1>5, SessionStep

LEMMA RollbackStep ==
  ASSUME Inv, NEW q \in Requests, Rollback(q) PROVE Inv'
  BY IdleHolds, ThisSession, SessionStep DEF Rollback, Done, Continue

LEMMA FlushHeartbeatStep ==
  ASSUME Inv, NEW q \in Requests, FlushHeartbeat(q) PROVE Inv'
<1> DEFINE r == request[q]
           s == [r EXCEPT !.phase = "flushed"]
<1>1. /\ r.op = "heartbeat" /\ r.phase = "loaded" /\ r.dev \in Registered /\ ~Written(r.dev)
      /\ Continue(q, s)
  BY DEF FlushHeartbeat
<1>2. r \in Heartbeats
  BY <1>1, ThisSession, SessionOf
<1>3. s \in Heartbeats /\ s.op = "heartbeat" /\ s.dev = r.dev /\ s.phase = "flushed"
  BY <1>2 DEF Heartbeats
<1>4. s \in Sessions /\ Holds(s)
  BY <1>1, <1>3 DEF Sessions, Holds, HeartbeatHolds, SweepHolds, ConfigHolds
<1>5. ASSUME NEW p \in Requests \ {q} PROVE Apart(request[p], s) /\ Apart(s, request[p])
  BY <1>1, <1>3 DEF Apart, Written
<1>6. request' = [request EXCEPT ![q] = s] /\ made' \in 0 .. MaxRequests
  BY <1>1, ThisSession DEF Continue
<1>7. UNCHANGED <<clock, devices, metrics, configs, update, torn>>
  BY DEF FlushHeartbeat
<1> HIDE DEF r, s
<1> QED BY <1>4, <1>5, <1>6, <1>7, SessionStep

LEMMA TrimMetricsStep ==
  ASSUME Inv, NEW q \in Requests, TrimMetrics(q) PROVE Inv'
<1> DEFINE r == request[q]
           n == Visible(r.dev) - Retained
           drop == IF n > 0 THEN n ELSE 0
           s == [r EXCEPT !.phase = "trimmed", !.drop = drop]
<1>1. r.op = "heartbeat" /\ r.phase = "flushed" /\ Continue(q, s)
  BY DEF TrimMetrics
<1>2. r \in Heartbeats
  BY <1>1, ThisSession, SessionOf
<1>3. r.dev \in Registered
  BY <1>1, ThisSession DEF Holds, HeartbeatHolds
<1>4. metrics[r.dev] \in Nat /\ Retained \in Nat
  BY <1>2, FleetAssumption DEF Inv, TypeOK, Heartbeats
<1>5. drop \in Nat /\ drop <= metrics[r.dev] + 1 /\ metrics[r.dev] + 1 - drop <= Retained
  BY <1>4 DEF Visible
<1>6. /\ s \in Heartbeats /\ s.op = "heartbeat" /\ s.dev = r.dev
      /\ s.phase = "trimmed" /\ s.drop = drop
  <2> HIDE DEF drop
  <2> QED BY <1>2, <1>5 DEF Heartbeats
<1> HIDE DEF drop, s
<1>7. s \in Sessions /\ Holds(s)
  BY <1>3, <1>5, <1>6 DEF Sessions, Holds, HeartbeatHolds, SweepHolds, ConfigHolds
<1>8. ASSUME NEW p \in Requests \ {q} PROVE Apart(request[p], s) /\ Apart(s, request[p])
  BY <1>1, <1>6, ThisSession DEF Apart
<1>9. request' = [request EXCEPT ![q] = s] /\ made' \in 0 .. MaxRequests
  BY <1>1, ThisSession DEF Continue
<1>10. UNCHANGED <<clock, devices, metrics, configs, update, torn>>
  BY DEF TrimMetrics
<1> HIDE DEF r
<1> QED BY <1>7, <1>8, <1>9, <1>10, SessionStep

LEMMA HighestVersion ==
  ASSUME Inv, NEW d \in Devices
  PROVE  /\ Len(configs[d]) \in Nat
         /\ Range(configs[d]) = 1 .. Len(configs[d])
         /\ Highest(configs[d]) = Len(configs[d])
<1> DEFINE n == Len(configs[d])
<1>1. n \in Nat /\ DOMAIN configs[d] = 1 .. n
  BY LenProperties DEF Inv, TypeOK
<1>2. \A v \in 1 .. n : configs[d][v] = v
  BY <1>1 DEF Inv, Numbered, Numbers
<1>3. Range(configs[d]) = 1 .. n
  BY <1>1, <1>2 DEF Range
<1> HIDE DEF n
<1>4. n \in (1 .. n) \cup {0} /\ \A w \in 1 .. n : w <= n
  BY <1>1
<1>5. \A v \in (1 .. n) \cup {0} : (\A w \in 1 .. n : w <= v) => v = n
  BY <1>1
<1>6. Highest(configs[d]) = n
  BY <1>3, <1>4, <1>5 DEF Highest
<1> QED BY <1>1, <1>3, <1>6 DEF n

LEMMA NextVersionStep ==
  ASSUME Inv, NEW q \in Requests, NextVersion(q) PROVE Inv'
<1> DEFINE r == request[q]
<1>1. /\ r.op = "configure"
      /\ \E d \in r.targets \ r.inserted :
             Continue(q, [r EXCEPT !.version[d] = Highest(configs[d]) + 1])
  BY DEF NextVersion
<1>2. r \in Configurations
  BY <1>1, ThisSession, SessionOf
<1>3. PICK d \in r.targets \ r.inserted :
          Continue(q, [r EXCEPT !.version[d] = Highest(configs[d]) + 1])
  BY <1>1
<1>4. d \in Devices
  BY <1>2 DEF Configurations
<1> DEFINE v == Highest(configs[d]) + 1
           s == [r EXCEPT !.version[d] = v]
<1>5. v \in Nat /\ v = Len(configs[d]) + 1
  BY <1>4, HighestVersion
<1> HIDE DEF v
<1>6. /\ s \in Configurations /\ s.op = "configure" /\ s.targets = r.targets
      /\ s.inserted = r.inserted /\ s.version = [r.version EXCEPT ![d] = v]
  BY <1>2, <1>4, <1>5 DEF Configurations
<1> HIDE DEF s
<1>7. s.version[d] = v /\ \A e \in Devices \ {d} : s.version[e] = r.version[e]
  BY <1>2, <1>4, <1>6 DEF Configurations
<1>8. ConfigHolds(s)
  <2>1. ConfigHolds(r) /\ r.targets \subseteq Devices
    BY <1>2, ThisSession DEF Holds, Configurations
  <2> QED BY <1>1, <1>4, <1>5, <1>6, <1>7, <2>1 DEF ConfigHolds
<1>9. s \in Sessions /\ Holds(s)
  BY <1>6, <1>8 DEF Sessions, Holds, HeartbeatHolds, SweepHolds
<1>10. ASSUME NEW p \in Requests \ {q} PROVE Apart(request[p], s) /\ Apart(s, request[p])
  BY <1>1, <1>6, ThisSession DEF Apart
<1>11. request' = [request EXCEPT ![q] = s] /\ made' \in 0 .. MaxRequests
  BY <1>3, ThisSession DEF Continue, s, v
<1>12. UNCHANGED <<clock, devices, metrics, configs, update, torn>>
  BY DEF NextVersion
<1> HIDE DEF r
<1> QED BY <1>9, <1>10, <1>11, <1>12, SessionStep

LEMMA InsertVersionStep ==
  ASSUME Inv, NEW q \in Requests, InsertVersion(q) PROVE Inv'
<1> DEFINE r == request[q]
<1>1. r.op = "configure"
  BY DEF InsertVersion
<1>2. PICK d \in r.targets \ r.inserted :
          /\ r.version[d] # 0 /\ d \in Registered /\ Free(q, d, r.version[d])
          /\ Continue(q, [r EXCEPT !.inserted = @ \cup {d}])
  BY DEF InsertVersion
<1> DEFINE s == [r EXCEPT !.inserted = @ \cup {d}]
<1>3. r \in Configurations /\ ConfigHolds(r)
  BY <1>1, ThisSession, SessionOf DEF Holds
<1>4. d \in Devices /\ r.version[d] \in Nat
  BY <1>3 DEF Configurations
<1>5. r.version[d] = Len(configs[d]) + 1
  <2>1. r.version[d] <= Len(configs[d]) + 1
    BY <1>1, <1>2, <1>3 DEF ConfigHolds
  <2>2. r.version[d] \notin 1 .. Len(configs[d]) /\ Len(configs[d]) \in Nat
    BY <1>2, <1>4, HighestVersion DEF Free
  <2> QED BY <1>2, <1>4, <2>1, <2>2
<1>6. /\ s \in Configurations /\ s.op = "configure" /\ s.targets = r.targets
      /\ s.inserted = r.inserted \cup {d} /\ s.version = r.version
  BY <1>2, <1>3 DEF Configurations
<1> HIDE DEF s
<1>7. ConfigHolds(s)
  BY <1>1, <1>2, <1>3, <1>5, <1>6 DEF ConfigHolds
<1>8. s \in Sessions /\ Holds(s)
  BY <1>6, <1>7 DEF Sessions, Holds, HeartbeatHolds, SweepHolds
<1>9. ASSUME NEW p \in Requests \ {q} PROVE Apart(request[p], s) /\ Apart(s, request[p])
  <2>1. CASE request[p].op # "configure"
    BY <1>6, <2>1 DEF Apart
  <2>2. CASE request[p].op = "configure"
    <3>1. request[p].inserted \cap r.inserted = {}
      BY <1>1, <2>2, ThisSession DEF Apart
    <3>2. d \notin request[p].inserted
      <4> SUFFICES ASSUME d \in request[p].inserted PROVE FALSE
        OBVIOUS
      <4>1. request[p].version[d] = Len(configs[d]) + 1
        BY <2>2, ThisSession DEF Holds, ConfigHolds
      <4>2. r.version[d] \in Inserts(p, d)
        BY <1>5, <2>2, <4>1 DEF Inserts
      <4> QED BY <1>2, <4>2 DEF Free
    <3> QED BY <1>6, <2>2, <3>1, <3>2 DEF Apart
  <2> QED BY <2>1, <2>2
<1>10. request' = [request EXCEPT ![q] = s] /\ made' \in 0 .. MaxRequests
  BY <1>2, ThisSession DEF Continue, s
<1>11. UNCHANGED <<clock, devices, metrics, configs, update, torn>>
  BY DEF InsertVersion
<1> HIDE DEF r
<1> QED BY <1>8, <1>9, <1>10, <1>11, SessionStep

-----------------------------------------------------------------------------
(***************************************************************************)
(* Steps that change rows                                                  *)
(***************************************************************************)
LEMMA TickStep == ASSUME Inv, Tick PROVE Inv'
<1>1. /\ clock' \in Times /\ clock \in Times /\ clock <= clock'
      /\ UNCHANGED <<devices, metrics, configs, update, request, made, torn>>
  BY FleetAssumption DEF Inv, TypeOK, Tick, Times
<1>2. Registered' = Registered
  BY <1>1 DEF Registered
<1>3. TypeOK'
  BY <1>1, <1>2 DEF Inv, TypeOK
<1>4. Numbered' /\ MetricsBounded'
  BY <1>1 DEF Inv, Numbered, MetricsBounded
<1>5. RowsAgree'
  <2>1. ASSUME NEW d \in Devices, Silent(clock, devices[d]) PROVE Silent(clock', devices[d])
    <3>1. devices[d].last_seen \in Int /\ clock \in Int /\ clock' \in Int /\ OfflineAfter \in Int
      BY <1>1, FleetAssumption DEF Inv, TypeOK, DeviceRows, Times
    <3> QED BY <1>1, <2>1, <3>1 DEF Silent
  <2>2. OfflineIsSilent'
    BY <1>1, <1>2, <2>1 DEF Inv, RowsAgree, OfflineIsSilent, Registered
  <2> QED BY <1>1, <2>2 DEF Inv, RowsAgree, RolloutsAgree
<1>6. Sound'
  <2>1. ASSUME NEW q \in Requests PROVE Holds(request[q])'
    <3>1. request[q] \in Sessions /\ Holds(request[q])
      BY ThisSession
    <3>2. SweepHolds(request[q])'
      <4>1. request[q].op = "sweep" => request[q].now \in Int
        BY <3>1, SessionOf DEF Sweeps, Times
      <4> QED BY <1>1, <3>1, <4>1 DEF Holds, SweepHolds, Times
    <3> QED BY <1>1, <1>2, <3>1, <3>2 DEF Holds, HeartbeatHolds, ConfigHolds
  <2> QED BY <1>1, <2>1, RowStep DEF Inv, TypeOK
<1> QED BY <1>3, <1>4, <1>5, <1>6 DEF Inv

LEMMA CreateUpdateStep == ASSUME Inv, CreateUpdate PROVE Inv'
<1>1. /\ UNCHANGED <<clock, devices, metrics, configs, request, torn>>
      /\ made' \in 0 .. MaxRequests
      /\ update' \in Updates /\ update'.status = "pending_approval"
  BY FleetAssumption DEF Inv, TypeOK, CreateUpdate, Updates
<1>2. Registered' = Registered
  BY <1>1 DEF Registered
<1>3. TypeOK' /\ Numbered' /\ MetricsBounded'
  BY <1>1, <1>2 DEF Inv, TypeOK, Numbered, MetricsBounded
<1>4. RowsAgree'
  BY <1>1, <1>2 DEF Inv, RowsAgree, OfflineIsSilent, RolloutsAgree
<1>5. \A q \in Requests : Holds(request[q])'
  BY <1>1, <1>2, ThisSession DEF Holds, HeartbeatHolds, SweepHolds, ConfigHolds
<1>6. Sound'
  BY <1>1, <1>5, RowStep DEF Inv, TypeOK
<1> QED BY <1>3, <1>4, <1>6 DEF Inv

\* What the decisions share: the rollouts they write agree with the status.
LEMMA DecideStep ==
  ASSUME Inv, NEW q \in Requests,
         NEW op \in {"approve", "rollback", "schedule"},
         NEW status \in {"completed", "rolled_back", "scheduled"},
         NEW rollouts \in [Devices -> {"none", "pending", "completed", "rolled_back"}],
         request[q].op = op /\ request[q].seen = update /\ status # "scheduled" =>
             \A d \in Devices : rollouts[d] \in {"none", status},
         Decide(q, op, status, rollouts)
  PROVE  Inv'
<1> DEFINE seen == request[q].seen
<1>1. /\ request[q].op = op
      /\ update' = [status |-> Column(seen.status, status, update.status), rollouts |-> rollouts]
      /\ torn' = IF seen = update THEN torn \ {Update} ELSE torn \cup {Update}
      /\ request' = [request EXCEPT ![q] = Idle]
      /\ UNCHANGED <<clock, devices, metrics, configs, made>>
  BY DEF Decide, Done, Continue
<1>2. Registered' = Registered
  BY <1>1 DEF Registered
<1>3. request' \in [Requests -> Sessions] /\ \A p \in Requests : request'[p] \in {request[p], Idle}
  BY <1>1, IdleHolds DEF Inv, TypeOK
<1>4. update' \in Updates /\ torn' \subseteq Devices \cup {Update}
  BY <1>1 DEF Inv, TypeOK, Updates, Column
<1>5. TypeOK' /\ Numbered' /\ MetricsBounded'
  <2>1. TypeOK'
    BY <1>1, <1>2, <1>3, <1>4 DEF Inv, TypeOK
  <2> QED BY <1>1, <2>1 DEF Inv, Numbered, MetricsBounded
<1>6. OfflineIsSilent'
  BY <1>1, <1>2, FleetAssumption DEF Inv, RowsAgree, OfflineIsSilent, Update, Registered
<1>7. RolloutsAgree'
  <2> SUFFICES ASSUME update'.status \in {"completed", "rolled_back"}, Update \notin torn'
               PROVE  \A d \in Devices : update'.rollouts[d] \in {"none", update'.status}
    BY DEF RolloutsAgree
  <2>1. seen = update
    BY <1>1
  <2>2. update'.status = status /\ update'.rollouts = rollouts
    BY <1>1, <2>1 DEF Column
  <2> QED BY <1>1, <2>1, <2>2
<1>8. \A p \in Requests : request'[p] = request[p] => Holds(request[p])'
  BY <1>1, <1>2, ThisSession DEF Holds, HeartbeatHolds, SweepHolds, ConfigHolds
<1>9. Sound'
  BY <1>3, <1>8, RowStep
<1> QED BY <1>5, <1>6, <1>7, <1>9 DEF Inv, RowsAgree

LEMMA RolloutsMove ==
  ASSUME Inv, NEW q \in Requests, request[q].op \in {"approve", "rollback"},
         NEW status \in {"completed", "rolled_back"}
  PROVE  /\ Rollouts(request[q].seen, status)
                \in [Devices -> {"none", "pending", "completed", "rolled_back"}]
         /\ request[q].seen = update =>
                \A d \in Devices : Rollouts(request[q].seen, status)[d] \in {"none", status}
<1>1. request[q].seen \in Updates /\ update \in Updates
  BY ThisSession, SessionOf DEF Decisions, Inv, TypeOK
<1> QED BY <1>1 DEF Updates, Rollouts, Column

LEMMA DecisionSteps ==
  ASSUME Inv, NEW q \in Requests,
         ApproveUpdate(q) \/ RollbackUpdate(q) \/ ScheduleUpdate(q)
  PROVE  Inv'
<1>1. CASE ApproveUpdate(q)
  <2>1. request[q].op = "approve"
    BY <1>1 DEF ApproveUpdate, Decide
  <2> QED BY <1>1, <2>1, RolloutsMove, DecideStep DEF ApproveUpdate
<1>2. CASE RollbackUpdate(q)
  <2>1. request[q].op = "rollback"
    BY <1>2 DEF RollbackUpdate, Decide
  <2> QED BY <1>2, <2>1, RolloutsMove, DecideStep DEF RollbackUpdate
<1>3. CASE ScheduleUpdate(q)
  <2>1. update.rollouts \in [Devices -> {"none", "pending", "completed", "rolled_back"}]
    BY DEF Inv, TypeOK, Updates
  <2> QED BY <1>3, <2>1, DecideStep DEF ScheduleUpdate
<1> QED BY <1>1, <1>2, <1>3

LEMMA RegisterStep == ASSUME Inv, NEW d \in Devices, Register(d) PROVE Inv'
<1>1. /\ devices[d].status = "unregistered"
      /\ devices' = [devices EXCEPT ![d] = [status |-> "online", last_seen |-> clock]]
      /\ made' \in 0 .. MaxRequests
      /\ UNCHANGED <<clock, metrics, configs, update, request, torn>>
  BY FleetAssumption DEF Inv, TypeOK, Register
<1>2. /\ devices' \in [Devices -> DeviceRows] /\ devices'[d].status = "online"
      /\ \A e \in Devices \ {d} : devices'[e] = devices[e]
  BY <1>1 DEF Inv, TypeOK, DeviceRows
<1>3. d \notin Registered /\ Registered' = Registered \cup {d}
  BY <1>1, <1>2 DEF Registered
<1>4. TypeOK' /\ Numbered' /\ MetricsBounded'
  <2>1. TypeOK'
    BY <1>1, <1>2, <1>3 DEF Inv, TypeOK
  <2> QED BY <1>1, <2>1 DEF Inv, Numbered, MetricsBounded
<1>5. RowsAgree'
  BY <1>1, <1>2, <1>3 DEF Inv, RowsAgree, OfflineIsSilent, RolloutsAgree
<1>6. ASSUME NEW q \in Requests PROVE Holds(request[q])'
  <2>1. request[q] \in Sessions /\ Holds(request[q])
    BY ThisSession
  <2>2. ConfigHolds(request[q])'
    <3>1. request[q].op = "configure" => request[q].targets \subseteq Devices \ {d}
      BY <1>1, <2>1, SessionOf DEF Configurations, Holds, ConfigHolds
    <3> QED BY <1>1, <1>2, <1>3, <2>1, <3>1 DEF Holds, ConfigHolds
  <2> QED BY <1>1, <1>3, <2>1, <2>2 DEF Holds, HeartbeatHolds, SweepHolds
<1>7. Sound'
  BY <1>1, <1>6, RowStep DEF Inv, TypeOK
<1> QED BY <1>4, <1>5, <1>7 DEF Inv

LEMMA DeregisterStep == ASSUME Inv, NEW d \in Devices, Deregister(d) PROVE Inv'
<1>1. /\ d \in Registered /\ ~Written(d) /\ \A q \in Requests : Inserts(q, d) = {}
      /\ devices' = [devices EXCEPT ![d].status = "removed"]
      /\ metrics' = [metrics EXCEPT ![d] = 0]
      /\ configs' = [configs EXCEPT ![d] = <<>>]
      /\ made' \in 0 .. MaxRequests
      /\ UNCHANGED <<clock, update, request, torn>>
  BY FleetAssumption DEF Inv, TypeOK, Deregister, Cascaded
<1>2. /\ devices' \in [Devices -> DeviceRows] /\ devices'[d].status = "removed"
      /\ \A e \in Devices \ {d} : devices'[e] = devices[e]
  BY <1>1 DEF Inv, TypeOK, DeviceRows
<1>3. Registered' = Registered \ {d}
  BY <1>1, <1>2 DEF Registered
<1>4. /\ metrics' \in [Devices -> Nat] /\ metrics'[d] = 0
      /\ \A e \in Devices \ {d} : metrics'[e] = metrics[e]
  BY <1>1 DEF Inv, TypeOK
<1>5. /\ configs' \in [Devices -> Seq(Nat)] /\ configs'[d] = <<>>
      /\ \A e \in Devices \ {d} : configs'[e] = configs[e]
  BY <1>1 DEF Inv, TypeOK
<1>6. TypeOK'
  BY <1>1, <1>2, <1>3, <1>4, <1>5 DEF Inv, TypeOK
<1>7. Numbered' /\ MetricsBounded'
  <2>1. configs'[d] = Numbers(Len(configs'[d]))
    <3>1. Len(configs'[d]) = 0 /\ 1 .. 0 = {}
      BY <1>5
    <3> QED BY <1>5, <3>1 DEF Numbers
  <2>2. Numbered'
    BY <1>5, <2>1 DEF Inv, Numbered
  <2>3. MetricsBounded'
    BY <1>4, FleetAssumption DEF Inv, MetricsBounded
  <2> QED BY <2>2, <2>3
<1>8. RowsAgree'
  BY <1>1, <1>2, <1>3 DEF Inv, RowsAgree, OfflineIsSilent, RolloutsAgree
<1>9. ASSUME NEW q \in Requests PROVE Holds(request[q])'
  <2>1. request[q] \in Sessions /\ Holds(request[q])
    BY ThisSession
  <2>2. HeartbeatHolds(request[q])'
    <3>1. request[q].op = "heartbeat" /\ request[q].phase # "loaded" =>
              request[q].dev \in Devices \ {d}
      BY <1>1, <2>1, SessionOf DEF Heartbeats, Written
    <3> QED BY <1>1, <1>3, <1>4, <2>1, <3>1 DEF Holds, HeartbeatHolds
  <2>3. ConfigHolds(request[q])'
    <3>1. request[q].op = "configure" =>
              request[q].targets \subseteq Devices /\ d \notin request[q].inserted
      BY <1>1, <2>1, SessionOf DEF Configurations, Inserts
    <3> QED BY <1>1, <1>2, <1>3, <1>5, <2>1, <3>1 DEF Holds, ConfigHolds
  <2> QED BY <1>1, <2>1, <2>2, <2>3 DEF Holds, SweepHolds
<1>10. Sound'
  BY <1>1, <1>9, RowStep DEF Inv, TypeOK
<1> QED BY <1>6, <1>7, <1>8, <1>10 DEF Inv

LEMMA CommitHeartbeatStep ==
  ASSUME Inv, NEW q \in Requests, CommitHeartbeat(q) PROVE Inv'
<1> DEFINE r == request[q]
           d == r.dev
           row == [status |-> Column(r.row.status, "online", devices[d].status),
                   last_seen |-> r.now]
<1>1. /\ r.op = "heartbeat" /\ r.phase = "trimmed"
      /\ devices' = [devices EXCEPT ![d] = row]
      /\ metrics' = [metrics EXCEPT ![d] = @ + 1 - r.drop]
      /\ torn' = IF r.row = devices[d] THEN torn \ {d} ELSE torn \cup {d}
      /\ request' = [request EXCEPT ![q] = Idle]
      /\ UNCHANGED <<clock, configs, update, made>>
  BY DEF CommitHeartbeat, Done, Continue
<1>2. r \in Heartbeats /\ d \in Registered /\ d \in Devices
  BY <1>1, ThisSession, SessionOf DEF Holds, HeartbeatHolds, Heartbeats
<1>3. /\ metrics[d] \in Nat /\ r.drop \in Nat
      /\ r.drop <= metrics[d] + 1 /\ metrics[d] + 1 - r.drop <= Retained
  BY <1>1, <1>2, ThisSession DEF Inv, TypeOK, Heartbeats, Holds, HeartbeatHolds
<1>4. row \in DeviceRows /\ row.status \in {"online", "offline"}
  <2>1. devices[d].status \in {"online", "offline"} /\ r.now \in Times
    BY <1>2 DEF Registered, Heartbeats
  <2> QED BY <2>1 DEF DeviceRows, Column
<1>5. r.row = devices[d] => row.status = "online"
  BY DEF Column
<1> HIDE DEF row
<1>6. /\ devices' \in [Devices -> DeviceRows] /\ devices'[d] = row
      /\ \A e \in Devices \ {d} : devices'[e] = devices[e]
  BY <1>1, <1>2, <1>4 DEF Inv, TypeOK
<1>7. Registered' = Registered
  BY <1>2, <1>4, <1>6 DEF Registered
<1>8. /\ metrics' \in [Devices -> Nat] /\ metrics'[d] <= Retained
      /\ \A e \in Devices \ {d} : metrics'[e] = metrics[e]
  BY <1>1, <1>2, <1>3 DEF Inv, TypeOK
<1>9. request' \in [Requests -> Sessions] /\ \A p \in Requests : request'[p] \in {request[p], Idle}
  BY <1>1, IdleHolds DEF Inv, TypeOK
<1>10. torn' \subseteq Devices \cup {Update}
  BY <1>1, <1>2 DEF Inv, TypeOK
<1>11. TypeOK'
  BY <1>1, <1>2, <1>6, <1>7, <1>8, <1>9, <1>10 DEF Inv, TypeOK
<1>12. Numbered' /\ MetricsBounded'
  BY <1>1, <1>2, <1>8 DEF Inv, Numbered, MetricsBounded
<1>13. OfflineIsSilent'
  <2> SUFFICES ASSUME NEW e \in Registered, devices'[e].status = "offline", e \notin torn'
               PROVE  Silent(clock', devices'[e])
    BY <1>7 DEF OfflineIsSilent
  <2>1. e # d
    BY <1>1, <1>5, <1>6
  <2>2. e \in Devices \ {d} /\ e \notin torn
    BY <1>1, <2>1 DEF Registered
  <2> QED BY <1>1, <1>6, <2>2 DEF Inv, RowsAgree, OfflineIsSilent
<1>14. RolloutsAgree'
  BY <1>1, <1>2, FleetAssumption DEF Inv, RowsAgree, RolloutsAgree, Update
<1>15. ASSUME NEW p \in Requests, request'[p] = request[p] PROVE Holds(request[p])'
  <2>1. p # q
    BY <1>1, <1>15 DEF Inv, TypeOK, Idle
  <2>2. request[p] \in Sessions /\ Holds(request[p]) /\ Apart(request[p], r)
    BY <2>1, ThisSession
  <2>3. HeartbeatHolds(request[p])'
    <3>1. request[p].op = "heartbeat" /\ request[p].phase # "loaded" =>
              request[p].dev \in Devices \ {d}
      BY <1>1, <2>2, SessionOf DEF Heartbeats, Apart
    <3> QED BY <1>7, <1>8, <1>15, <2>2, <3>1 DEF Holds, HeartbeatHolds
  <2>4. ConfigHolds(request[p])'
    <3>1. \A e \in Devices : devices[e].status # "unregistered" => devices'[e].status # "unregistered"
      BY <1>4, <1>6
    <3>2. request[p].op = "configure" => request[p].targets \subseteq Devices
      BY <2>2, SessionOf DEF Configurations
    <3> QED BY <1>1, <1>7, <1>15, <2>2, <3>1, <3>2 DEF Holds, ConfigHolds
  <2> QED BY <1>1, <1>15, <2>2, <2>3, <2>4 DEF Holds, SweepHolds
<1>16. Sound'
  BY <1>9, <1>15, RowStep
<1> QED BY <1>11, <1>12, <1>13, <1>14, <1>16 DEF Inv, RowsAgree

LEMMA CommitSweepStep ==
  ASSUME Inv, NEW q \in Requests, CommitSweep(q) PROVE Inv'
<1> DEFINE r == request[q]
           marked == {d \in Devices : r.seen[d].status = "online" /\ Silent(r.now, r.seen[d])}
<1>1. /\ r.op = "sweep" /\ marked \subseteq Registered
      /\ devices' = [d \in Devices |->
             IF d \in marked THEN [devices[d] EXCEPT !.status = "offline"] ELSE devices[d]]
      /\ torn' = (torn \ marked) \cup {d \in marked : r.seen[d] # devices[d]}
      /\ request' = [request EXCEPT ![q] = Idle]
      /\ UNCHANGED <<clock, metrics, configs, update, made>>
  BY DEF CommitSweep, Done, Continue
<1>2. \A d \in marked : d \in Devices /\ Silent(r.now, r.seen[d])
  OBVIOUS
<1>3. r \in Sweeps /\ r.now <= clock
  BY <1>1, ThisSession, SessionOf DEF Holds, SweepHolds
<1> HIDE DEF marked
<1>4. \A d \in Devices :
          /\ devices'[d] \in DeviceRows /\ devices'[d].last_seen = devices[d].last_seen
          /\ d \in marked => devices'[d].status = "offline"
          /\ d \notin marked => devices'[d] = devices[d]
  BY <1>1 DEF Inv, TypeOK, DeviceRows
<1>5. devices' \in [Devices -> DeviceRows]
  BY <1>1, <1>4
<1>6. Registered' = Registered
  BY <1>1, <1>4 DEF Registered
<1>7. request' \in [Requests -> Sessions] /\ \A p \in Requests : request'[p] \in {request[p], Idle}
  BY <1>1, IdleHolds DEF Inv, TypeOK
<1>8. torn' \subseteq Devices \cup {Update}
  BY <1>1, <1>2 DEF Inv, TypeOK
<1>9. TypeOK'
  BY <1>1, <1>5, <1>6, <1>7, <1>8 DEF Inv, TypeOK
<1>10. Numbered' /\ MetricsBounded'
  BY <1>1 DEF Inv, Numbered, MetricsBounded
<1>11. OfflineIsSilent'
  <2> SUFFICES ASSUME NEW d \in Registered, devices'[d].status = "offline", d \notin torn'
               PROVE  Silent(clock', devices'[d])
    BY <1>6 DEF OfflineIsSilent
  <2>1. d \in Devices
    BY DEF Registered
  <2>2. CASE d \in marked
    <3>1. r.seen[d] = devices[d]
      BY <1>1, <2>2
    <3>2. r.now - devices[d].last_seen > OfflineAfter
      BY <1>2, <2>2, <3>1 DEF Silent
    <3>3. r.now \in Int /\ clock \in Int /\ devices[d].last_seen \in Int /\ OfflineAfter \in Int
      BY <1>3, <2>1, FleetAssumption DEF Inv, TypeOK, Sweeps, DeviceRows, Times
    <3>4. clock - devices[d].last_seen > OfflineAfter
      BY <1>3, <3>2, <3>3
    <3> QED BY <1>1, <1>4, <2>1, <3>4 DEF Silent
  <2>3. CASE d \notin marked
    BY <1>1, <1>4, <2>1, <2>3 DEF Inv, RowsAgree, OfflineIsSilent
  <2> QED BY <2>2, <2>3
<1>12. RolloutsAgree'
  BY <1>1, <1>2, FleetAssumption DEF Inv, RowsAgree, RolloutsAgree, Update
<1>13. ASSUME NEW p \in Requests, request'[p] = request[p] PROVE Holds(request[p])'
  <2>1. request[p] \in Sessions /\ Holds(request[p])
    BY ThisSession
  <2>2. ConfigHolds(request[p])'
    <3>1. \A e \in Devices : devices[e].status # "unregistered" => devices'[e].status # "unregistered"
      BY <1>4
    <3>2. request[p].op = "configure" => request[p].targets \subseteq Devices
      BY <2>1, SessionOf DEF Configurations
    <3> QED BY <1>1, <1>6, <1>13, <2>1, <3>1, <3>2 DEF Holds, ConfigHolds
  <2> QED BY <1>1, <1>6, <1>13, <2>1, <2>2 DEF Holds, HeartbeatHolds, SweepHolds
<1>14. Sound'
  BY <1>7, <1>13, RowStep
<1> QED BY <1>9, <1>10, <1>11, <1>12, <1>14 DEF Inv, RowsAgree

LEMMA NextNumber ==
  ASSUME NEW rows \in Seq(Nat), rows = Numbers(Len(rows)), NEW v, v = Len(rows) + 1
  PROVE  /\ Append(rows, v) = Numbers(v) /\ Len(Append(rows, v)) = v
         /\ Append(rows, v) \in Seq(Nat)
<1>1. Len(rows) \in Nat /\ v \in Nat
  BY LenProperties
<1> DEFINE new == Append(rows, v)
<1>2. /\ new \in Seq(Nat) /\ Len(new) = Len(rows) + 1 /\ new[Len(rows) + 1] = v
      /\ \A i \in 1 .. Len(rows) : new[i] = rows[i]
  BY <1>1, AppendProperties
<1> HIDE DEF new
<1>3. new \in [1 .. v -> Nat]
  BY <1>2, LenProperties
<1>4. \A i \in 1 .. Len(rows) : rows[i] = i
  BY <1>1 DEF Numbers
<1>5. \A i \in 1 .. v : new[i] = i
  BY <1>1, <1>2, <1>4
<1>6. new = Numbers(v)
  BY <1>3, <1>5 DEF Numbers
<1> QED BY <1>2, <1>6 DEF new

\* What a configuration commits: the next version of each of its devices.
LEMMA Committed ==
  ASSUME Inv, NEW q \in Requests, CommitConfig(q)
  PROVE  /\ request[q].op = "configure" /\ request[q].targets \subseteq Registered
         /\ request' = [request EXCEPT ![q] = Idle]
         /\ \A d \in request[q].targets :
                /\ d \in request[q].inserted
                /\ configs'[d] \in Seq(Nat) /\ configs'[d] = Numbers(request[q].version[d])
                /\ Len(configs'[d]) = request[q].version[d]
                /\ Len(configs'[d]) = Len(configs[d]) + 1
         /\ \A d \in Devices \ request[q].targets : configs'[d] = configs[d]
         /\ configs' \in [Devices -> Seq(Nat)]
<1> DEFINE r == request[q]
<1>1. /\ r.op = "configure" /\ r.inserted = r.targets
      /\ configs' = [d \in Devices |->
             IF d \in r.targets THEN Append(configs[d], r.version[d]) ELSE configs[d]]
      /\ request' = [request EXCEPT ![q] = Idle]
  BY DEF CommitConfig, Done, Continue
<1>2. r \in Configurations /\ ConfigHolds(r)
  BY <1>1, ThisSession, SessionOf DEF Holds
<1>3. r.targets \subseteq Registered /\ r.targets \subseteq Devices
  BY <1>1, <1>2 DEF ConfigHolds, Configurations
<1>4. ASSUME NEW d \in r.targets
      PROVE  /\ configs'[d] \in Seq(Nat) /\ configs'[d] = Numbers(r.version[d])
             /\ Len(configs'[d]) = r.version[d] /\ r.version[d] = Len(configs[d]) + 1
  <2>1. r.version[d] = Len(configs[d]) + 1
    BY <1>1, <1>2 DEF ConfigHolds
  <2>2. configs'[d] = Append(configs[d], r.version[d])
    BY <1>1, <1>3
  <2>3. configs[d] \in Seq(Nat) /\ configs[d] = Numbers(Len(configs[d]))
    BY <1>3 DEF Inv, TypeOK, Numbered
  <2> QED BY <2>1, <2>2, <2>3, NextNumber
<1>5. \A d \in Devices \ r.targets : configs'[d] = configs[d] /\ configs[d] \in Seq(Nat)
  BY <1>1 DEF Inv, TypeOK
<1>6. configs' \in [Devices -> Seq(Nat)]
  <2>1. \A d \in Devices : configs'[d] \in Seq(Nat)
    BY <1>4, <1>5
  <2> QED BY <1>1, <2>1
<1> QED BY <1>1, <1>3, <1>4, <1>5, <1>6

LEMMA CommitConfigStep ==
  ASSUME Inv, NEW q \in Requests, CommitConfig(q) PROVE Inv'
<1> DEFINE targets == request[q].targets
<1>1. UNCHANGED <<clock, devices, metrics, update, torn, made>>
  BY DEF CommitConfig, Done, Continue
<1>2. Registered' = Registered
  BY <1>1 DEF Registered
<1>3. request' \in [Requests -> Sessions] /\ \A p \in Requests : request'[p] \in {request[p], Idle}
  BY Committed, IdleHolds DEF Inv, TypeOK
<1>4. \A d \in Devices \ Registered : configs'[d] = <<>>
  BY Committed DEF Inv, TypeOK
<1>5. configs' \in [Devices -> Seq(Nat)]
  BY Committed
<1>6. TypeOK'
  BY <1>1, <1>2, <1>3, <1>4, <1>5 DEF Inv, TypeOK
<1>7. Numbered'
  <2> SUFFICES ASSUME NEW d \in Devices PROVE configs'[d] = Numbers(Len(configs'[d]))
    BY DEF Numbered
  <2>1. CASE d \in targets
    BY <2>1, Committed
  <2>2. CASE d \notin targets
    BY <2>2, Committed DEF Inv, Numbered
  <2> QED BY <2>1, <2>2
<1>8. MetricsBounded' /\ RowsAgree'
  BY <1>1, <1>2 DEF Inv, MetricsBounded, RowsAgree, OfflineIsSilent, RolloutsAgree
<1>9. ASSUME NEW p \in Requests, request'[p] = request[p] PROVE Holds(request[p])'
  <2>1. request[p] \in Sessions /\ Holds(request[p])
    BY ThisSession
  <2>2. request[p].op = "configure" =>
            request[p].targets \subseteq Devices /\ request[p].version \in [Devices -> Nat]
    BY <2>1, SessionOf DEF Configurations
  <2>3. p # q
    BY <1>9, Committed DEF Inv, TypeOK, Idle
  <2>4. request[p].op = "configure" => request[p].inserted \cap targets = {}
    <3>1. Apart(request[p], request[q]) /\ request[q].op = "configure"
      BY <2>3, ThisSession, Committed
    <3>2. targets \subseteq request[q].inserted
      BY Committed
    <3> QED BY <3>1, <3>2 DEF Apart
  <2>5. \A d \in Devices :
            /\ Len(configs[d]) \in Nat /\ Len(configs'[d]) \in Nat
            /\ Len(configs[d]) <= Len(configs'[d])
            /\ d \notin targets => configs'[d] = configs[d]
    <3>1. \A d \in Devices : Len(configs[d]) \in Nat /\ Len(configs'[d]) \in Nat
      BY <1>5, LenProperties DEF Inv, TypeOK
    <3> QED BY <3>1, Committed
  <2> HIDE DEF targets
  <2>6. ConfigHolds(request[p])'
    <3> SUFFICES ASSUME request[p].op = "configure"
                 PROVE  /\ request[p].inserted \subseteq request[p].targets
                        /\ \A d \in request[p].targets :
                               /\ devices[d].status # "unregistered"
                               /\ d \in Registered => request[p].version[d] <= Len(configs'[d]) + 1
                               /\ d \in request[p].inserted =>
                                      d \in Registered /\ request[p].version[d] = Len(configs'[d]) + 1
      BY <1>1, <1>2, <1>9 DEF ConfigHolds
    <3>1. ConfigHolds(request[p])
      BY <2>1 DEF Holds
    <3> QED BY <2>2, <2>4, <2>5, <3>1 DEF ConfigHolds
  <2> QED BY <1>1, <1>2, <1>9, <2>1, <2>6 DEF Holds, HeartbeatHolds, SweepHolds
<1>10. Sound'
  BY <1>3, <1>9, RowStep
<1> QED BY <1>6, <1>7, <1>8, <1>10 DEF Inv

-----------------------------------------------------------------------------
(***************************************************************************)
(* The theorems                                                            *)
(***************************************************************************)
LEMMA Initially == Init => Inv
<1> SUFFICES ASSUME Init PROVE Inv
  OBVIOUS
<1>1. TypeOK
  <2>1. 0 \in Times /\ 0 \in 0 .. MaxRequests /\ <<>> \in Seq(Nat)
    BY FleetAssumption DEF Times
  <2>2. devices \in [Devices -> DeviceRows]
    BY <2>1 DEF Init, DeviceRows, Unregistered
  <2>3. update \in Updates
    BY DEF Init, Updates
  <2>4. request \in [Requests -> Sessions]
    BY IdleHolds DEF Init
  <2> QED BY <2>1, <2>2, <2>3, <2>4 DEF Init, TypeOK
<1>2. Numbered
  <2>1. Len(<<>>) = 0 /\ 1 .. 0 = {}
    OBVIOUS
  <2>2. <<>> = Numbers(Len(<<>>))
    BY <2>1 DEF Numbers
  <2> QED BY <2>2 DEF Init, Numbered
<1>3. MetricsBounded
  BY FleetAssumption DEF Init, MetricsBounded
<1>4. RowsAgree
  BY DEF Init, RowsAgree, OfflineIsSilent, RolloutsAgree, Registered, Unregistered
<1>5. Sound
  BY IdleHolds DEF Init, Sound
<1> QED BY <1>1, <1>2, <1>3, <1>4, <1>5 DEF Inv

LEMMA Stutter == ASSUME Inv, UNCHANGED vars PROVE Inv'
<1>1. UNCHANGED <<clock, devices, metrics, configs, update, request, made, torn>>
  BY DEF vars
<1>2. Registered' = Registered
  BY <1>1 DEF Registered
<1>3. TypeOK' /\ Numbered' /\ MetricsBounded'
  BY <1>1, <1>2 DEF Inv, TypeOK, Numbered, MetricsBounded
<1>4. RowsAgree'
  BY <1>1, <1>2 DEF Inv, RowsAgree, OfflineIsSilent, RolloutsAgree
<1>5. \A q \in Requests : Holds(request[q])'
  BY <1>1, <1>2, ThisSession DEF Holds, HeartbeatHolds, SweepHolds, ConfigHolds
<1>6. Sound'
  BY <1>1, <1>5, RowStep DEF Inv, TypeOK
<1> QED BY <1>3, <1>4, <1>6 DEF Inv

LEMMA Inductive == ASSUME Inv, [Next]_vars PROVE Inv'
<1>1. ASSUME NEW d \in Devices, Register(d) \/ Deregister(d) PROVE Inv'
  BY <1>1, RegisterStep, DeregisterStep
<1>2. ASSUME NEW q \in Requests,
             \/ LoadHeartbeat(q) \/ FlushHeartbeat(q) \/ TrimMetrics(q) \/ CommitHeartbeat(q)
             \/ LoadSweep(q) \/ CommitSweep(q)
      PROVE  Inv'
  BY <1>2, LoadHeartbeatStep, FlushHeartbeatStep, TrimMetricsStep, CommitHeartbeatStep,
     LoadSweepStep, CommitSweepStep
<1>3. ASSUME NEW q \in Requests,
             LoadTargets(q) \/ NextVersion(q) \/ InsertVersion(q) \/ CommitConfig(q)
      PROVE  Inv'
  BY <1>3, LoadTargetsStep, NextVersionStep, InsertVersionStep, CommitConfigStep
<1>4. ASSUME NEW q \in Requests,
             \/ LoadUpdate(q) \/ ApproveUpdate(q) \/ RollbackUpdate(q) \/ ScheduleUpdate(q)
             \/ Rollback(q)
      PROVE  Inv'
  BY <1>4, LoadUpdateStep, DecisionSteps, RollbackStep
<1>5. CASE UNCHANGED vars
  BY <1>5, Stutter
<1>6. CASE Next
  BY <1>1, <1>2, <1>3, <1>4, <1>6, TickStep, CreateUpdateStep DEF Next
<1> QED BY <1>5, <1>6

THEOREM Invariance == Spec => []Inv
<1>1. Inv /\ [Next]_vars => Inv'
  BY Inductive
<1> QED BY Initially, <1>1, PTL DEF Spec

\* The rows and sessions of the fleet are well formed, and nothing is left of a
\* device that was removed.
THEOREM TypeCorrect == Spec => []TypeOK
<1>1. Inv => TypeOK
  BY DEF Inv
<1> QED BY Invariance, <1>1, PTL

\* Heartbeats never leave more than METRICS_RETAINED of a device on record.
THEOREM MetricsStayBounded == Spec => []MetricsBounded
<1>1. Inv => MetricsBounded
  BY DEF Inv
<1> QED BY Invariance, <1>1, PTL

\* Rows that no overlapping requests wrote agree with one another.
THEOREM RowsStayAgreed == Spec => []RowsAgree
<1>1. Inv => RowsAgree
  BY DEF Inv
<1> QED BY Invariance, <1>1, PTL

\* A configuration is committed as the next version of every device it was
\* meant for.
THEOREM ConfigsStayCurrent == Spec => ConfigIsCurrent
<1> DEFINE Current ==
        \A q \in Requests :
            request[q].op = "configure" /\ configs' # configs /\ request'[q] # request[q] =>
                \A d \in request[q].targets :
                    /\ d \in Registered
                    /\ configs'[d] = [v \in 1 .. request[q].version[d] |-> v]
<1>1. ASSUME Inv, Next PROVE Current
  <2>1. CASE \E p \in Requests : CommitConfig(p)
    <3>1. PICK p \in Requests : CommitConfig(p)
      BY <2>1
    <3>2. \A q \in Requests : request'[q] # request[q] => q = p
      BY <1>1, <3>1, Committed DEF Inv, TypeOK
    <3>3. \A d \in request[p].targets :
              d \in Registered /\ configs'[d] = [v \in 1 .. request[p].version[d] |-> v]
      BY <1>1, <3>1, Committed DEF Numbers
    <3> QED BY <3>2, <3>3
  <2>2. CASE ~ \E p \in Requests : CommitConfig(p)
    <3>1. configs' = configs \/ request' = request
      BY <1>1, <2>2 DEF Next, Tick, CreateUpdate, Register, Deregister, LoadHeartbeat,
         FlushHeartbeat, TrimMetrics, CommitHeartbeat, LoadSweep, CommitSweep, LoadTargets,
         NextVersion, InsertVersion, LoadUpdate, ApproveUpdate, RollbackUpdate,
         ScheduleUpdate, Decide, Rollback
    <3> QED BY <3>1
  <2> QED BY <2>1, <2>2
<1>2. Inv /\ [Next]_vars => [Current]_vars
  BY <1>1
<1> HIDE DEF Current
<1>3. Spec => [][Current]_vars
  BY Invariance, <1>2, PTL DEF Spec
<1> QED BY <1>3 DEF Current, ConfigIsCurrent
=============================================================================
