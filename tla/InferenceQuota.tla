--------------------------- MODULE InferenceQuota ---------------------------
(***************************************************************************)
(* The daily inference quota of one workspace: set_quota and check_quota   *)
(* of backend/app/services/runtime/cost_control.py on the workspace_quotas *)
(* row, for any number of requests in flight.                              *)
(*                                                                         *)
(* check_quota reads the row FOR UPDATE and holds it until it commits;     *)
(* set_quota reads it unlocked, and only its UPDATE waits for the holder.  *)
(* A check that finds no row allows the call and touches nothing: it is    *)
(* not a step.  Rows are never deleted.                                    *)
(***************************************************************************)
EXTENDS Integers

CONSTANTS
    Requests,  \* requests in flight
    MaxLimit,  \* bound: the largest daily_limit asked for
    MaxDays    \* bound: days that pass

ASSUME QuotaAssumption == MaxLimit \in Nat \ {0} /\ MaxDays \in Nat \ {0}

VARIABLES
    quota,     \* the workspace_quotas row
    request,   \* what each request is doing, with the values it read
    day,       \* the date
    granted,   \* history: calls allowed since the last reset or set_quota
    today      \* history: calls allowed since midnight or the last set_quota

vars == <<quota, request, day, granted, today>>

Limits == 1 .. MaxLimit

\* resets_at is the midnight that begins the day resets.
QuotaRows == [limit : Nat, used : Nat, resets : Nat]
NoRow == [limit |-> 0, used |-> 0, resets |-> 0]

Idle == [phase |-> "idle", limit |-> 0, resets |-> 0, read |-> NoRow]

Column(read, new, stored) == IF new = read THEN stored ELSE new

\* Mutant of LockFree: the row is read without FOR UPDATE.
Unlocked == TRUE

LockFree == \A q \in Requests : request[q].phase # "locked"

(***************************************************************************)
(* set_quota                                                               *)
(***************************************************************************)
\* The reset is computed before the row is read.
ReceiveSet(q) ==
    /\ request[q].phase = "idle"
    /\ \E limit \in Limits :
           request' = [request EXCEPT ![q] =
               [phase |-> "received", limit |-> limit, resets |-> day + 1,
                read |-> NoRow]]
    /\ UNCHANGED <<quota, day, granted, today>>

ReadForSet(q) ==
    /\ request[q].phase = "received"
    /\ request' = [request EXCEPT ![q] =
           [phase |-> "read", limit |-> @.limit, resets |-> @.resets, read |-> quota]]
    /\ UNCHANGED <<quota, day, granted, today>>

\* Only columns that differ from what was read are written; an INSERT beside
\* an existing row is refused by the unique workspace_id (Rollback).  Without a
\* column to write there is no UPDATE, and nothing to wait for.
WrittenBySet(r, stored) ==
    [limit |-> Column(r.read.limit, r.limit, stored.limit),
     used |-> Column(r.read.used, 0, stored.used),
     resets |-> Column(r.read.resets, r.resets, stored.resets)]

CommitSet(q) ==
    /\ request[q].phase = "read"
    /\ WrittenBySet(request[q], request[q].read) # request[q].read => LockFree
    /\ request[q].read = NoRow => quota = NoRow
    /\ quota' = WrittenBySet(request[q], quota)
    /\ request' = [request EXCEPT ![q] = Idle]
    /\ granted' = 0
    /\ today' = 0
    /\ UNCHANGED day

(***************************************************************************)
(* check_quota                                                             *)
(***************************************************************************)
Lock(q) ==
    /\ request[q].phase = "idle"
    /\ quota # NoRow
    /\ LockFree
    /\ request' = [request EXCEPT ![q] =
           [phase |-> "locked", limit |-> 0, resets |-> 0, read |-> quota]]
    /\ UNCHANGED <<quota, day, granted, today>>

\* Mutant of Due: a day early.
DueEarly(resets) == day + 1 >= resets

Due(resets) == day >= resets

\* Mutant of HasRoom: <= for <.
HasRoomInclusive(used, limit) == used <= limit

HasRoom(used, limit) == used < limit

\* One day is added however late the reset is noticed.
Consume(q) ==
    LET read == request[q].read
        due == Due(read.resets)
        used == IF due THEN 0 ELSE read.used
        unit == IF HasRoom(used, read.limit) THEN 1 ELSE 0
        resets == IF due THEN read.resets + 1 ELSE read.resets
    IN  /\ request[q].phase = "locked"
        /\ quota' = [limit |-> quota.limit,
                     used |-> Column(read.used, used + unit, quota.used),
                     resets |-> Column(read.resets, resets, quota.resets)]
        /\ request' = [request EXCEPT ![q] = Idle]
        /\ granted' = (IF due THEN 0 ELSE granted) + unit
        /\ today' = today + unit
        /\ UNCHANGED day

\* The handler raised or the worker died: nothing is written.
Rollback(q) ==
    /\ request[q].phase # "idle"
    /\ request' = [request EXCEPT ![q] = Idle]
    /\ UNCHANGED <<quota, day, granted, today>>

NextDay ==
    /\ day < MaxDays
    /\ day' = day + 1
    /\ today' = 0
    /\ UNCHANGED <<quota, request, granted>>

-----------------------------------------------------------------------------
Init ==
    /\ quota = NoRow
    /\ request = [q \in Requests |-> Idle]
    /\ day = 1
    /\ granted = 0
    /\ today = 0

Step(q) == \/ ReceiveSet(q) \/ ReadForSet(q) \/ CommitSet(q)
           \/ Lock(q) \/ Consume(q) \/ Rollback(q)

Next == NextDay \/ \E q \in Requests : Step(q)

Spec == Init /\ [][Next]_vars

(***************************************************************************)
(* Properties                                                              *)
(***************************************************************************)
RequestRecords ==
    [phase : {"idle", "received", "read", "locked"}, limit : 0 .. MaxLimit,
     resets : Nat, read : QuotaRows]

TypeOK ==
    /\ quota \in QuotaRows
    /\ quota.limit <= MaxLimit /\ quota.used <= MaxLimit
    /\ request \in [Requests -> RequestRecords]
    /\ day \in 1 .. MaxDays
    /\ granted \in Nat /\ today \in Nat

\* Between two resets of the counter no more calls are allowed than the limit,
\* whatever checks and set_quota calls race: "two workers cannot both read the
\* last remaining unit and both allow the call" (check_quota).
GrantsWithinLimit == granted <= quota.limit

\* A workspace that used up its quota waits no longer than until midnight,
\* even when a set_quota computed its reset on an earlier day (set_quota).
RenewedByMidnight == quota.resets <= day + 1

\* "A workspace's daily inference allowance" (WorkspaceQuota): since midnight,
\* or since the quota was set, no more calls are allowed than the limit.
DailyAllowance == today <= quota.limit
=============================================================================
