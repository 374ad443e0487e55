------------------------------ MODULE EdgeFleet ------------------------------
(***************************************************************************)
(* The edge fleet of one workspace, backend/app/services/edge/fleet: the   *)
(* device registry with its heartbeats, the health sweep, the versions of  *)
(* the devices' configuration and one over-the-air update.                 *)
(*                                                                         *)
(* The services keep nothing in memory, so workers race on the rows.  Each *)
(* statement sees what is committed (READ COMMITTED).  A row that was      *)
(* written, and a key that was inserted, stay with their transaction until *)
(* it ends: others that want them wait.                                    *)
(***************************************************************************)
EXTENDS Integers, FiniteSets, Sequences, Functions

CONSTANTS
    Devices,       \* ids of devices, registered in any order
    Requests,      \* requests in flight
    Retained,      \* METRICS_RETAINED
    OfflineAfter,  \* OFFLINE_AFTER
    MaxClock,      \* bound: times that pass
    MaxRequests    \* bound: requests that are made

ASSUME FleetAssumption ==
    /\ Retained \in Nat /\ OfflineAfter \in Nat
    /\ MaxClock \in Nat /\ MaxRequests \in Nat
    /\ "update" \notin Devices

VARIABLES
    clock,
    devices,  \* the rows of edge_devices
    metrics,  \* per device, how many heartbeats are on record
    configs,  \* per device, the versions of its configuration as committed
    update,   \* the row of ota_updates, with those of its devices
    request,  \* what each request is doing, with what it read
    made,     \* how many requests have been made
    torn      \* history: the rows last written from an old reading

vars == <<clock, devices, metrics, configs, update, request, made, torn>>

Times == 0 .. MaxClock
Update == "update"

DeviceRows == [status : {"unregistered", "online", "offline", "removed"}, last_seen : Times]
Unregistered == [status |-> "unregistered", last_seen |-> 0]
Registered == {d \in Devices : devices[d].status \in {"online", "offline"}}

\* previous_model_id is never set, so a rollback has no other data.
Updates ==
    [status : {"none", "pending_approval", "scheduled", "completed", "rolled_back"},
     rollouts : [Devices -> {"none", "pending", "completed", "rolled_back"}]]

Idle == [op |-> "none"]

Heartbeats ==
    [op : {"heartbeat"}, phase : {"loaded", "flushed", "trimmed"}, dev : Devices,
     row : DeviceRows, now : Times, drop : Nat]

Sweeps == [op : {"sweep"}, seen : [Devices -> DeviceRows], now : Times]

\* inserted: the devices whose new version is inserted, and not yet committed.
Configurations ==
    [op : {"configure"}, targets : SUBSET Devices, version : [Devices -> Nat],
     inserted : SUBSET Devices]

Decisions == [op : {"approve", "rollback", "schedule"}, seen : Updates]

Sessions == {Idle} \cup Heartbeats \cup Sweeps \cup Configurations \cup Decisions

\* An UPDATE names only the columns that differ from what was read.
Column(read, new, stored) == IF new = read THEN stored ELSE new

Begin(q, session) ==
    /\ request[q] = Idle
    /\ made < MaxRequests
    /\ made' = made + 1
    /\ request' = [request EXCEPT ![q] = session]

Continue(q, session) ==
    /\ request' = [request EXCEPT ![q] = session]
    /\ UNCHANGED made

Done(q) == Continue(q, Idle)

\* A heartbeat that is not yet committed holds the row of its device.
Written(d) ==
    \E q \in Requests :
        /\ request[q].op = "heartbeat" /\ request[q].dev = d
        /\ request[q].phase # "loaded"

\* The version that q has inserted for d, if any.
Inserts(q, d) ==
    IF request[q].op = "configure" /\ d \in request[q].inserted
    THEN {request[q].version[d]} ELSE {}

(***************************************************************************)
(* DeviceRegistry                                                          *)
(***************************************************************************)
Register(d) ==
    /\ devices[d].status = "unregistered"
    /\ made < MaxRequests /\ made' = made + 1
    /\ devices' = [devices EXCEPT ![d] = [status |-> "online", last_seen |-> clock]]
    /\ UNCHANGED <<clock, metrics, configs, update, request, torn>>

LoadHeartbeat(q) ==
    \E d \in Registered :
        /\ Begin(q, [op |-> "heartbeat", phase |-> "loaded", dev |-> d,
                     row |-> devices[d], now |-> clock, drop |-> 0])
        /\ UNCHANGED <<clock, devices, metrics, configs, update, torn>>

\* The row is updated, the metric inserted.
FlushHeartbeat(q) ==
    LET r == request[q]
    IN  /\ r.op = "heartbeat" /\ r.phase = "loaded"
        /\ r.dev \in Registered
        /\ ~Written(r.dev)
        /\ Continue(q, [r EXCEPT !.phase = "flushed"])
        /\ UNCHANGED <<clock, devices, metrics, configs, update, torn>>

\* Mutant of Visible: trimmed before the heartbeat is flushed.
Stored(d) == metrics[d]

\* What a heartbeat's statements see: the metrics on record and its own.
Visible(d) == metrics[d] + 1

\* _trim_metrics keeps the newest of those.
TrimMetrics(q) ==
    LET r == request[q]
        surplus == Visible(r.dev) - Retained
    IN  /\ r.op = "heartbeat" /\ r.phase = "flushed"
        /\ Continue(q, [r EXCEPT !.phase = "trimmed",
                                 !.drop = IF surplus > 0 THEN surplus ELSE 0])
        /\ UNCHANGED <<clock, devices, metrics, configs, update, torn>>

CommitHeartbeat(q) ==
    LET r == request[q]
        d == r.dev
    IN  /\ r.op = "heartbeat" /\ r.phase = "trimmed"
        /\ devices' = [devices EXCEPT
               ![d] = [status |-> Column(r.row.status, "online", @.status), last_seen |-> r.now]]
        /\ metrics' = [metrics EXCEPT ![d] = @ + 1 - r.drop]
        /\ torn' = IF r.row = devices[d] THEN torn \ {d} ELSE torn \cup {d}
        /\ Done(q)
        /\ UNCHANGED <<clock, configs, update>>

\* Mutant of Cascaded: what belongs to a device is kept.
NotCascaded(rows, d, none) == rows

\* ON DELETE CASCADE: metrics and configurations go with the device; rollouts,
\* which do not refer to it, stay.
Cascaded(rows, d, none) == [rows EXCEPT ![d] = none]

Deregister(d) ==
    /\ d \in Registered
    /\ made < MaxRequests /\ made' = made + 1
    /\ ~Written(d) /\ \A q \in Requests : Inserts(q, d) = {}
    /\ devices' = [devices EXCEPT ![d].status = "removed"]
    /\ metrics' = Cascaded(metrics, d, 0)
    /\ configs' = Cascaded(configs, d, <<>>)
    /\ UNCHANGED <<clock, update, request, torn>>

(***************************************************************************)
(* detect_unhealthy_devices                                                *)
(***************************************************************************)
LoadSweep(q) ==
    /\ Begin(q, [op |-> "sweep", seen |-> devices, now |-> clock])
    /\ UNCHANGED <<clock, devices, metrics, configs, update, torn>>

Silent(now, row) == now - row.last_seen > OfflineAfter

\* Without a change nothing is committed (Rollback); a device that was removed
\* makes the commit fail.
CommitSweep(q) ==
    LET r == request[q]
        marked == {d \in Devices : r.seen[d].status = "online" /\ Silent(r.now, r.seen[d])}
    IN  /\ r.op = "sweep"
        /\ marked # {} /\ marked \subseteq Registered
        /\ \A d \in marked : ~Written(d)
        /\ devices' = [d \in Devices |->
               IF d \in marked THEN [devices[d] EXCEPT !.status = "offline"] ELSE devices[d]]
        /\ torn' = (torn \ marked) \cup {d \in marked : r.seen[d] # devices[d]}
        /\ Done(q)
        /\ UNCHANGED <<clock, metrics, configs, update>>

(***************************************************************************)
(* RemoteConfigService                                                     *)
(***************************************************************************)
\* set_config reads one device, set_fleet_config all.
LoadTargets(q) ==
    /\ \E targets \in {{d} : d \in Registered} \cup {Registered} :
           Begin(q, [op |-> "configure", targets |-> targets,
                     version |-> [d \in Devices |-> 0], inserted |-> {}])
    /\ UNCHANGED <<clock, devices, metrics, configs, update, torn>>

Highest(rows) ==
    CHOOSE v \in Range(rows) \cup {0} : \A w \in Range(rows) : w <= v

\* _next_version; device after device, in no particular order.
NextVersion(q) ==
    LET r == request[q]
    IN  /\ r.op = "configure"
        /\ \A d \in r.targets : r.version[d] # 0 => d \in r.inserted
        /\ \E d \in r.targets \ r.inserted :
               Continue(q, [r EXCEPT !.version[d] = Highest(configs[d]) + 1])
        /\ UNCHANGED <<clock, devices, metrics, configs, update, torn>>

\* Mutant of Free: as without uq_device_config_version.
FreeEnough(q, d, v) == v \notin Range(configs[d])

\* uq_device_config_version: a version is inserted once.  A request waits for
\* the other's insert, and fails if that is committed.
Free(q, d, v) ==
    /\ v \notin Range(configs[d])
    /\ \A p \in Requests \ {q} : v \notin Inserts(p, d)

\* The insert needs the device, too (Rollback).
InsertVersion(q) ==
    LET r == request[q]
    IN  /\ r.op = "configure"
        /\ \E d \in r.targets \ r.inserted :
               /\ r.version[d] # 0
               /\ d \in Registered
               /\ Free(q, d, r.version[d])
               /\ Continue(q, [r EXCEPT !.inserted = @ \cup {d}])
        /\ UNCHANGED <<clock, devices, metrics, configs, update, torn>>

CommitConfig(q) ==
    LET r == request[q]
    IN  /\ r.op = "configure" /\ r.inserted = r.targets
        /\ configs' = [d \in Devices |->
               IF d \in r.targets THEN Append(configs[d], r.version[d]) ELSE configs[d]]
        /\ Done(q)
        /\ UNCHANGED <<clock, devices, metrics, update, torn>>

(***************************************************************************)
(* OTAUpdateService                                                        *)
(***************************************************************************)
\* For all devices of the workspace, or for a list of ids that nobody checks.
CreateUpdate ==
    /\ update.status = "none"
    /\ made < MaxRequests /\ made' = made + 1
    /\ \E targets \in SUBSET Devices :
           update' = [status |-> "pending_approval",
                      rollouts |-> [d \in Devices |-> IF d \in targets THEN "pending" ELSE "none"]]
    /\ UNCHANGED <<clock, devices, metrics, configs, request, torn>>

LoadUpdate(q) ==
    /\ update.status # "none"
    /\ \E op \in {"approve", "rollback", "schedule"} :
           Begin(q, [op |-> op, seen |-> update])
    /\ UNCHANGED <<clock, devices, metrics, configs, update, torn>>

\* Mutant of Rollouts: only rollouts that have not ended are moved.
OpenRollouts(seen, status) ==
    [d \in Devices |-> IF seen.rollouts[d] = "pending"
                       THEN Column("pending", status, update.rollouts[d])
                       ELSE update.rollouts[d]]

\* The devices' rows after a decision that read the rows in seen.
Rollouts(seen, status) ==
    [d \in Devices |-> IF seen.rollouts[d] # "none"
                       THEN Column(seen.rollouts[d], status, update.rollouts[d])
                       ELSE update.rollouts[d]]

\* No decision looks at the status: any may follow any.
Decide(q, op, status, rollouts) ==
    LET r == request[q]
    IN  /\ r.op = op
        /\ update' = [status |-> Column(r.seen.status, status, update.status),
                      rollouts |-> rollouts]
        /\ torn' = IF r.seen = update THEN torn \ {Update} ELSE torn \cup {Update}
        /\ Done(q)
        /\ UNCHANGED <<clock, devices, metrics, configs>>

ApproveUpdate(q) ==
    Decide(q, "approve", "completed", Rollouts(request[q].seen, "completed"))
RollbackUpdate(q) ==
    Decide(q, "rollback", "rolled_back", Rollouts(request[q].seen, "rolled_back"))
ScheduleUpdate(q) == Decide(q, "schedule", "scheduled", update.rollouts)

-----------------------------------------------------------------------------
\* The handler had nothing to write or raised, a statement was refused, or the
\* worker died.
Rollback(q) ==
    /\ request[q] # Idle
    /\ Done(q)
    /\ UNCHANGED <<clock, devices, metrics, configs, update, torn>>

Tick ==
    /\ clock < MaxClock
    /\ clock' = clock + 1
    /\ UNCHANGED <<devices, metrics, configs, update, request, made, torn>>

\* At first, some devices are registered.
Init ==
    /\ clock = 0
    /\ devices \in [Devices -> {Unregistered, [status |-> "online", last_seen |-> 0]}]
    /\ metrics = [d \in Devices |-> 0]
    /\ configs = [d \in Devices |-> <<>>]
    /\ update = [status |-> "none", rollouts |-> [d \in Devices |-> "none"]]
    /\ request = [q \in Requests |-> Idle]
    /\ made = 0
    /\ torn = {}

Next ==
    \/ Tick
    \/ CreateUpdate
    \/ \E d \in Devices : Register(d) \/ Deregister(d)
    \/ \E q \in Requests :
           \/ LoadHeartbeat(q) \/ FlushHeartbeat(q) \/ TrimMetrics(q) \/ CommitHeartbeat(q)
           \/ LoadSweep(q) \/ CommitSweep(q)
           \/ LoadTargets(q) \/ NextVersion(q) \/ InsertVersion(q) \/ CommitConfig(q)
           \/ LoadUpdate(q) \/ ApproveUpdate(q) \/ RollbackUpdate(q) \/ ScheduleUpdate(q)
           \/ Rollback(q)

Spec == Init /\ [][Next]_vars

(***************************************************************************)
(* Properties                                                              *)
(***************************************************************************)
\* The rows are well formed; what belongs to a device goes with it.
TypeOK ==
    /\ clock \in Times
    /\ devices \in [Devices -> DeviceRows]
    /\ metrics \in [Devices -> Nat]
    /\ configs \in [Devices -> Seq(Nat)]
    /\ \A d \in Devices \ Registered : metrics[d] = 0 /\ configs[d] = <<>>
    /\ update \in Updates
    /\ request \in [Requests -> Sessions]
    /\ made \in 0 .. MaxRequests
    /\ torn \subseteq Devices \cup {Update}

\* However heartbeats of one device overlap, no more than METRICS_RETAINED are
\* on record ("so the telemetry table does not grow without bound"): the trim
\* counts on the row that the heartbeat updated first.
MetricsBounded == \A d \in Devices : metrics[d] <= Retained

\* A configuration is committed for each device it was meant for, or for none:
\* each is still there, has all its versions, and this is the highest ("the
\* highest config_version is current, the rest are the history").
ConfigIsCurrent ==
    [][\A q \in Requests :
          request[q].op = "configure" /\ configs' # configs /\ request'[q] # request[q] =>
              \A d \in request[q].targets :
                  /\ d \in Registered
                  /\ configs'[d] = [v \in 1 .. request[q].version[d] |-> v]]_vars

OfflineIsSilent ==
    \A d \in Registered :
        devices[d].status = "offline" /\ d \notin torn => Silent(clock, devices[d])

RolloutsAgree ==
    update.status \in {"completed", "rolled_back"} /\ Update \notin torn =>
        \A d \in Devices : update.rollouts[d] \in {"none", update.status}

\* Rows agree unless requests on them overlapped: a device shown as offline has
\* been silent for OFFLINE_AFTER (detect_unhealthy_devices), and what an ended
\* update says its devices' rows say (approve_update, rollback_update).
RowsAgree == OfflineIsSilent /\ RolloutsAgree
=============================================================================
