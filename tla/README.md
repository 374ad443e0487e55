# VisionAudioForge in TLA+

This directory holds TLA+ models of the backend of VisionAudioForge
(`backend/app`), TLC configurations that check them on small instances, and
theorems that TLAPS proves about them for every instance. Paths below are
relative to the repository. `PROJECT.json` lists the components, the runs, the
source lines of every definition, one mutant per checked property, the known
hazards, the findings and the theorems.

## 1. The system

VisionAudioForge is a FastAPI service on PostgreSQL (SQLAlchemy async sessions)
with Redis as cache and Celery broker. A request handler opens a session, reads
rows, computes and commits. Almost no handler locks a row. Three facts about
that stack shape every model:

* **READ COMMITTED.** Each statement sees the latest commits, so two reads of
  one request may see different moments.
* **Unit of work.** A commit writes only the columns whose value differs from
  the one that was read. Requests in flight overwrite one another column by
  column, not row by row. The models call this `Column(read, new, stored)`.
* **Constraints at the commit.** A unique constraint or an UPDATE that finds no
  row rolls the whole request back.

### Components

| Component | State | Operations | What is hard | What makes it correct |
|---|---|---|---|---|
| Federated learning (`services/federated/coordinator.py`, `api/routes/federated.py`) | federation, participants, rounds | create, join, start round, submit, aggregate, pause/resume/stop, retrain, remove, reconnect | unlocked read-compute-write by racing sites | rounds numbered without gaps, nobody averaged twice, the model from a completed round, privacy spending cumulative |
| Pipeline engine (`services/pipeline/engine.py`) | a definition, Kahn's queue, node results | validate, sort, execute | malformed and cyclic client graphs, two edge vocabularies | refuses exactly the invalid graphs, runs upstream first, ends |
| Pipeline runs (`tasks/pipeline.py`, `tasks/dispatch.py`, `api/routes/pipeline.py`) | run row, broker message, worker, bell | create, dispatch, load, run, record, notify | lost replies, redelivery, crashes between commit and dispatch | every run ends, status and results agree, the bell is right |
| Inference quota (`services/runtime/cost_control.py`) | quota row | set, check | racing checks, days without checks | no more calls than the limit |
| Review operations (`api/routes/reviewops.py`, `services/reviewops`) | review tasks, reviews, shifts | create, assign, auto-assign, verdict, double review, hand over | verdicts, reviews, assignments and hand-overs writing the same rows | a task is held by somebody and completed by the reviews it needs, a hand-over leaves nothing behind |
| Alerts (`services/alerts/alert_service.py`) | alerts, event history in memory | evaluate, deduplicate, trigger, acknowledge, resolve, escalate, test | select-then-insert, a history that rules share, two counters in one JSON column | one alert per incident, events kept as long as every window covers them, counters exact |
| Mobile sync (`services/mobile/offline_sync.py`) | sync conflicts, field notes | replay offline actions, resolve | alerts closed while the batch runs, rows remembered by the session | no field work lost silently |
| Capture (`services/capture/manager.py`) | sessions in Redis | create, end, count frames, list | read-modify-write, expiry | an ended session stays ended |
| Edge fleet (`services/edge/fleet`) | devices, heartbeats, configuration versions, updates | register, heartbeat, sweep, configure, approve, roll back, schedule | overlapping trims, version collisions, a sweep against heartbeats | telemetry bounded, versions without gaps for all devices or none, statuses agree with the data behind them |
| Command centre (`services/command_center`) | incidents, shifts | assign, auto-assign, escalate | operators racing | an incident has the operator who took it |
| Integrations (`services/integrations`) | webhooks, deliveries | trigger, record | sends before one commit | what was sent is on record |
| Training (`tasks/training.py`) | experiments | as pipeline runs | as pipeline runs | as pipeline runs |
| Auth, tenancy, rate limit (`core`, `middleware`) | limiter window | filter requests | none beyond a lock | - |
| Media, search, memory, graph, verticals, simulation, export | data | pure functions | numerics | - |
| Console, SDK, deployment | - | - | - | - |

They interact as follows. A route calls a service, which owns its rows. Long
work goes through `tasks/dispatch.py` to Celery, and the worker writes the row
the console polls. A task that ended inserts a notification. The run task calls
the pipeline engine. Offline sync writes alert rows that the alert routes also
write. Everything else shares nothing but users and workspaces.

## 2. Modules

| Module | Models | State and its source |
|---|---|---|
| `Federation` | one federation, any number of requests in flight | `federation`, `participants`, `rounds` are rows of `models/federated.py`; `request` is what each handler has read; `inserted` numbers primary keys |
| `RoundLedger` | what the rounds promise to an auditor | abstract: opened, completed, published |
| `FederationProofs` | proofs about `Federation` | |
| `PipelineEngine` | `validate_pipeline` and `execute_pipeline` on one definition | `nodes`, `edges` are the JSON; `degree`, `queue`, `order` are Kahn's locals; `results` is `node_results` |
| `PipelineEngineProofs` | proofs about `PipelineEngine` | |
| `PipelineRuns` | runs from the request to the bell | `row` is `pipeline_runs`; `endpoint` the route; `queue` the broker; `worker` the task slots; `bell` the notifications; `faults` counts what went wrong |
| `RunLifecycle` | what a run promises to the console | abstract: the status |
| `PipelineRunsProofs` | proofs about `PipelineRuns` | |
| `InferenceQuota` | the quota of one workspace | `quota` is the row; `request` holds what a request read; `day` is the clock; `granted` and `today` are history |
| `InferenceQuotaProofs` | proofs about `InferenceQuota` | |
| `ReviewTasks` | the review queue of one workspace | `tasks`, `reviews`, `shifts` are the rows; `request` is what a handler has read; `writer` and `torn` are history |
| `ReviewTasksProofs` | proofs about `ReviewTasks` | |
| `RuleEngine` | the in-process rule engine | `history` is `_event_history`, as a count per time; `fired` is history |
| `Alerts` | EXTENDS `RuleEngine` with the rows of alerts | `alerts`, `request`; `story` is history, per alert |
| `OfflineSync` | EXTENDS `Alerts` with devices and their batches | `batch` is a transaction of `process_offline_actions`; `notes`, `conflicts` are rows |
| `OfflineSyncProofs` | proofs about `OfflineSync`, `Alerts` and `RuleEngine` | |
| `EdgeFleet` | the fleet of one workspace | `devices`, `metrics`, `configs`, `update` are the rows; `request` a transaction with what it read; `torn` is history |
| `EdgeFleetProofs` | proofs about `EdgeFleet` | |
| `MC...` | instances: model values, symmetry, views | |

### Federation

A handler is four steps: `ReadFederation` (the row), `ReadParticipants` and
`ReadRounds` (the two `selectinload`s, each a SELECT of its own that sees a later
moment), and the commit, one action per operation. What clients ask for is the
constant `Calls`, any set of calls (`Call`): the theorems hold for all of them,
and an instance names those its question needs. `Rollback` covers exceptions, refused commits and dead workers.
Retrain commits and then calls `start_round`, which reads again (`Reload`).
Tensors are abstracted: the global model is the round it came from and the
submitters averaged into it. Epsilon is counted in shares of the budget, one
share per submission; whether the float sum of all shares reaches the budget is
the constant `SharesReachBudget`, because both happen (1.0 / 2 reaches it, the
route's default of ten rounds does not). A submission is not tied
to membership, as in the code.

### PipelineEngine

`Init` is any list of nodes and edges within the bounds, repeated ids, dangling
ends, loops and parallel edges included. An instance has at most one oddity of
type or vocabulary, which keeps the initial states few without losing a
combination that one check could confuse with another. A node with a required
input ("needy") may come with an edge into another of its ports, which does not
fill the input. `Sort` is one turn of the
`while queue` loop, `ExecuteNode` one turn of the execution loop. The order in
which ids enter the queue is that of the dict and of the edges: `InOrder` lists a
set of positions in ascending order, so no recursion is needed to say so. What a
node computes is a choice between outputs, an error and an exception.

### PipelineRuns

`CreateRun` commits the row, `Dispatch`, `DispatchRefused` and
`DispatchReplyLost` are the outcomes of `dispatch`, `RecordRefusal` is what
`_queue_run` writes. Celery's defaults with a Redis broker are external:
`Receive` prefetches, `Redeliver` is the visibility timeout of a message that a
slot holds unacknowledged, and the task acknowledges as it starts (`Load`).
`MarkRunning`, `Record` and `Notify` are the three transactions of
`_run_pipeline`. `RequestFails` and `WorkerFails` are crashes, or database
errors, between any two of them. Faults are counted so that a property can say
what holds as long as a kind of fault has not happened.

`RunLifecycle` is implemented under every fault. It knows two mishaps that weaken
its promise: once a message may have come twice, or after its refusal was
recorded, an ended run may run again; once something crashed, a run may stay
where it is, so its fairness is conditional on no crash.

### InferenceQuota

`Lock` is the `SELECT ... FOR UPDATE` of `check_quota` and `Consume` its commit.
`set_quota` computes its reset (`ReceiveSet`), reads without a lock
(`ReadForSet`) and commits when no check holds the row (`CommitSet`); if no
column changed there is no UPDATE and it waits for nobody. A check that finds no
row allows the call and writes nothing, so it is not a step.

### ReviewTasks

The operations of the routes and of `services/reviewops` on the same rows:
creation, assignment to a user or to an opaque label, verdicts, patches, double
reviews and their resolution, hand-over, and two auto-assignments, one
round-robin over labels (the route), one by workload (the service). Each reads
in as many statements as the code and commits the columns that changed. `torn`
holds the tasks that a request decided on although they had changed since it
read them.

### RuleEngine, Alerts, OfflineSync

The three share state and are checked as one. A condition is the list of all
conditions nested in it, in the order in which their evaluations end (`Nodes`),
so compound and temporal conditions nest to any depth without recursion. An
evaluation runs without an
await and is one step (`Feed`): every temporal condition appends to the list of
its key and prunes it by its own window, in order. A request then goes on to
`Deduplicate` (a SELECT) and to `TriggerAlert` or `JoinDuplicate` (the commit),
so two evaluations overlap as the code lets them. The duplicate count and the
escalation level are one JSON column (`payload`), so a writer of one puts back
its reading of the other. Rules are constants, and so are the conditions that
are tested, which need not be those of any rule (`Tested`): a test appends to and
prunes the history of the live rules.

A batch of `process_offline_actions` is one transaction. Its statements first
flush what earlier actions changed (`held`), and rows it holds are written by
others only after it ends; the alert it loaded last is not read again
(SQLAlchemy's identity map holds rows weakly). An alert that is acknowledged
already gets a new `acknowledged_by` if another user acknowledged it, so the
batch writes and holds its row in that case, too. `AbortBatch` is a refused
statement, a deadlock or a crash: the device is told of an error.

### EdgeFleet

A heartbeat is four steps: load the device, flush (which takes the lock on its
row: `Written`), trim, commit. `detect_unhealthy_devices` reads all devices and
marks the silent ones at its commit. A configuration reads a maximum per device
(`NextVersion`) and inserts it (`InsertVersion`); `Free` is
`uq_device_config_version`, with which a second writer of a version waits and is
then refused. Decisions on an update load it with its rollouts and write the
columns they change; no decision looks at the status.

Of these services the routes expose registration, heartbeats, removal and the
overview. The sweep, configurations and updates are called by tests only so far,
as are `evaluate_rule` and `EscalationPolicy`; the models take them as they are
meant to be called, by requests with a session each.

## 3. Runs

| Run | Bounds | What it shows |
|---|---|---|
| `federation_training` | 2 sites, 2 requests in flight, 2 rounds, minimum 1, one site that comes and goes and one that only submits | the round records stay well formed under every interleaving of all operations, and implement `RoundLedger` |
| `federation_lost_submission` (violation) | 2 sites, 2 requests, 2 rounds | an acknowledged submission disappears from its round |
| `federation_budget` (violation) | 2 sites, 1 request, 10 rounds, budget 1.0 | a round starts after the whole budget has been spent |
| `federation_spending_race` (violation) | 2 sites, 2 requests, 2 rounds | two submissions lose a share of epsilon |
| `engine_graphs` | 3 ids, up to 3 nodes and 3 edges, both vocabularies, all types, two ports | validation agrees with a reference definition of a valid graph; order, completeness and termination of execution |
| `engine_vocabularies` (violation) | 2 nodes, 1 edge | a validated builder pipeline raises `KeyError` |
| `runs_faults` | 2 runs, 2 workers, one fault of each kind | what each kind of fault leaves intact; every run ends while nothing crashes; the rows implement `RunLifecycle` with its liveness |
| `quota_checks` | 3 requests, limits up to 2, 3 days | the counter is exact under racing checks and sets |
| `quota_idle_days` (violation) | 2 requests, 3 days | after idle days more calls than the limit are allowed in a day |
| `review_queue` | 3 requests, 2 in flight, 2 tasks, 2 reviewers | what assignments, verdicts, reviews, hand-overs and auto-assignments do to one another |
| `alerts` | 2 requests, 3 rules (one nested) and a tested condition with one shared history, 2 times, 1 batch of up to 2 actions | shared event histories, duplicates, counters, and offline acknowledgements of the same alerts |
| `edge_fleet` | 5 requests, 2 in flight, 2 devices, 3 times, retention 1 | retention under overlapping heartbeats, the sweep, versions of one device or all, one update |

**Why the bounds are enough.** The races are between two writers of one row and
one reader in between, so two requests in flight show each of them; the quota
has a third so that a check and a set can both wait for a check. Two rounds
allow a stale round number and a late submission to the earlier round; the site
that never joins shows that a submission is not tied to membership, and the other
leaves while requests that read its row are in flight. The budget run has the route's defaults, whose
ten shares two sites spend in five rounds; `MaxRows`, `MaxCount` and `MaxShares`
end its counters where the next event would repeat an earlier one. Three
edges over three nodes are enough for a node with two
predecessors, a cycle beside an
acyclic part, and parallel edges. One fault of each kind, combined freely, gives
every pair and the triple; two workers are needed for a run to be executed twice
at once. Two tasks and two reviewers are enough for a fair share to be missed, a
hand-over to leave one task of two, and two auto-assignments to cross. Rules
with a window of 1 and a tested condition with a window of 0 on one history, at
two times, make the narrow one prune what the wide ones still need; two actions on one alert make a batch judge the second
by the row it remembers, and an initial alert that was escalated once makes the
severity and the level differ early. With a retention of one, two overlapping
heartbeats are one too many, and two devices let a fleet's configuration fail
between them; five requests are a heartbeat and a sweep with a third writer, or
an update with two decisions beside a removal. In the alerts run the nested rule
holds a temporal condition over a threshold between others, so one evaluation
appends and prunes in the middle.

**Deadlock.** `CHECK_DEADLOCK FALSE` is set where a behaviour ends: an engine
run returns, all runs have ended, the bounded counters of a federation are used
up. The same holds of the review, alert and fleet runs, whose requests are
bounded. The quota runs keep the check.

**Symmetry and views.** Sites and requests are only compared, so they
are permuted, in runs that check no liveness. `MCFederation!View` keeps of a request's
reading what its handler still uses (for a start, whether the budget is
exhausted rather than how much is spent) and drops the status of participants,
which no handler reads; states that agree on it have the same futures up to the
columns it drops, and no property of its runs but the type invariant speaks of
those.

**Sequential against concurrent.** `SubmissionsArePermanent` and
`SpendingIsCumulative` fail with two requests in flight (a late writer replaces
the list or the total it read earlier), and `NoRoundPastBudget` fails with one
(ten shares of 1.0 / 10 sum to just under 1.0). The first two need the overlap.
All three are promises of `models/federated.py`, so they are violation runs. That
the overlap is what loses spending is proved (`SerialSpendingAddsUp`, section 5).

**History variables.** `torn` (and `story[a].torn`) becomes true at the moment a
request writes a row that has changed since it read it. Three properties have a
part that holds of rows that are not torn, next to a part that holds under every
race: a review never completes a task too early (`ReviewsDecide`), and the
counters of an alert never run ahead (`CountersExact`); on rows that are not torn
the last review does complete the task, and the counters are exact. `RowsAgree`
speaks of rows that are not torn only: a heartbeat that read a device as online,
and overlaps the sweep that marks it offline, writes a new `last_seen` and leaves
the status "offline", because the column did not change.
`NothingLeftBehind` and `FieldWorkKept` exclude nothing: they relate a commit to
what its transaction read, whatever others wrote in between.

**What the exclusions leave uncovered.** A race that tears a row breaks the
excluded part, and the code has no lock or version check against it. Such hazards
are listed in `PROJECT.json` without a property, with the action that has the
race: a verdict overwritten by an auto-assignment, two reviews that each miss the
other, workloads counted before another assignment, a task assigned during a
hand-over, lost duplicate counts, two evaluations that both insert, a narrow
window pruning what a wider one still needs, a resolution overwritten by an
offline acknowledgement, a sweep against a heartbeat. No property of this project
says that they cannot happen; they can, and section 6 says why they are not
findings.

## 4. Fairness

`Federation`, `InferenceQuota`, `ReviewTasks`, `OfflineSync` and `EdgeFleet`
assume none: clients need not call anything.

`PipelineEngine` has `WF_vars(Next)`: a synchronous function keeps running until
it returns. A node that never returns is outside the model.

`PipelineRuns!FairSpec` has weak fairness for the steps of each request and of
each task slot. Neither waits for another, the event loop and the Celery worker
keep running them, and a slot that is idle takes a message if there is one. No
fairness is assumed for making a request or for any fault. `EveryRunEnds` is
conditional on no crash, because nothing in the code resumes the work of a
crashed process.

## 5. Proofs

All constants are arbitrary within the named assumptions, which say that bounds
are natural numbers, that some sets are finite and some values distinct, and
what a rule is (`EngineAssumption`).

**`FederationProofs`.** `RoundsContiguous` is not inductive: `StartRound` numbers
the round from a row read earlier. The inductive invariant `Inv` adds, for every
request, `Lags`: what it has read is no newer than what is stored, and its rounds
were themselves well formed. A commit only `Advances` the stored rounds, so
`Lags` survives the commits of others, and the unique constraint turns
`current_round + 1` of a stale reading into a rollback. From `Inv` follow the
type invariant, `RoundsContiguous`, `NoDoubleSubmission`, `RoundRowConsistent`,
`ModelFromCompletedRound` and the refinement of `RoundLedger`.

Two more theorems delimit the finding about lost spending. They are about
behaviours in which requests do not overlap: `Spec /\ []Serial`, where `Serial`
says that at most one request has begun and not ended. That is not what the
code's scheduling guarantees, and the theorems do not say so: they say that
nothing but the overlap loses spending. What a request has read is then what is
stored (`Current`), which is inductive together with `Inv`, and every step that
spends a share on the federation spends it on exactly one round
(`SerialSpendingAddsUp`). That is the step of an induction whose conclusion is
`SpendingIsCumulative`; the sum itself is recursive, so the conclusion stays out
of reach.

**`PipelineEngineProofs`.** For definitions of any size. The inductive invariant
`IInv` has five parts: the types and lengths (`Shape`); a degree counts the edges
whose source is not sorted yet, and the ids of degree zero are those in the order
or in the queue, each once (`Counted`); every edge into the order leads forward
(`Forward`); the results are a prefix of the order (`Executed`); and what the
phase says of the definition (`Judged`). `VerdictIsRight` compares lengths with
cardinalities: an order as long as the definition holds every id once, and has no
set of nodes with all its predecessors in itself; a shorter one leaves over
exactly such a set. `UpstreamFirst` and `EveryNodeExecuted` follow from `Forward`
and `Executed`. `KeyErrorExplained` delimits the second finding: only valid
definitions raise `KeyError`, and of those that validation lets through, every
one with a `target` edge does. `Shrinking` is termination as far as safety can
say it: every step lowers a natural number (`StepsLeft`).

**`PipelineRunsProofs`.** `CoherentRows` needs only that a row is committed
before its message exists (`Committed`) and holds under every fault.
`PendingIsOnItsWay` needs `LoadedLate`: a worker that loaded "running" writes
nothing when it marks the run, which is harmless because such a run is no longer
pending. `RunsOnce` is inductive with `Committed`. Without lost replies and
redelivery the place of the message determines the row (`Placed`), and from that
follows `BellAgrees`. `LifecycleImplemented` needs both: until something repeats,
`Placed` keeps an ended run as it is; after that `RunLifecycle` lets it run again,
and it remains to show that no run is ever absent or pending again.

**`InferenceQuotaProofs`.** `GrantsWithinLimit` follows from three facts: at most
one check holds the row and has read exactly what is stored (`Exclusive`), the
counter never lags behind the calls it counts (`Counted`), and the calls stay
within the limit of the row. `RenewedByMidnight` needs `ResetsInTime`: the reset
a `set_quota` in flight carries is never past the coming midnight.
`PunctualAllowance` delimits the third finding: as long as the stored reset never
lies in the past (`Punctual`), the daily allowance holds whatever races, because
a row whose reset is due has granted nothing today and any other has counted what
it granted today (`CountedToday`).

**`ReviewTasksProofs`.** A request's shape is fixed by its phase (`Shapes`): what
it has read covers the tasks that its commit will write (`Covered`). Every commit
is then the same merge of a reading into the stored rows (`MergeHolds`), column
by column. `AssignedToSomeone` follows because each writer of a status writes,
or has read, a holder that no other writer clears without setting another;
`ReviewsDecide` because reviews are only added, so a session has counted at most
those there are (`Lagging`), and because an untorn row was read as it is stored.
`NothingLeftBehind` is a step property: a hand-over to a colleague changes the
holder of every task it found open with the reviewer, so the merge writes that
column whatever is stored by then. `FairShare` is
proved without induction: a listing of the tasks is a bijection, so a share is
counted by the positions at which its reviewer's turn came; in a round-robin,
moving each position but the first back by one round and over to the other
reviewer maps one share into the other; in the workload loop it is enough to look
at the last task a reviewer is given.

**`OfflineSyncProofs`.** The history of a rule engine step is treated as a whole
(`Now`, `All`): appending and pruning keep it between what every window covers
and what fired, for conditions nested to any depth. For the rows, `Grows` names
what any step may do to an alert and its story; `Sound` says that a session's
reading is of a row that only grew since, and that its counters are within the
story (`Within`). `BatchSound` says how far a batch has come (`Progress`) and that
every alert it read is acknowledged, will be, or has a conflict (`Handled`), from
which follows `FieldWorkKept`. All steps of `Alerts` are shown to grow, so the
invariants of sessions and batches survive them; `AlertStep` adds that held rows
are left alone.

**`EdgeFleetProofs`.** Each session `Holds` what it needs of the stored rows, and
two sessions are `Apart`: no row and no key is held by both. `SessionStep` proves
once that a step which changes only a session keeps the invariant; each step that
changes rows shows that the others still hold. `MetricsBounded` follows because a
heartbeat that has flushed is alone on its device, so what it counted is what it
trims; `ConfigIsCurrent` because a version that was inserted is one more than the
number of versions (`Numbered`), and nobody else inserts there until the commit.

**Only model-checked.** Liveness: `EveryRunEnds`, `Terminates` (beside
`Shrinking`) and the fair half of `ImplementsLifecycle` (its safety half is
`LifecycleImplemented`). Fairness speaks of ENABLED, which the provers at hand do
not handle. Every other property of a passing run is a theorem.

## 6. Findings

* `services/federated/coordinator.py:293`: of two submissions to a round in
  flight, the one that committed first is dropped from the round's list although
  both were answered as received (`federation_lost_submission`). The rounds are
  "append-only", "the audit trail of a federated run" (`models/federated.py:9`).
* `services/federated/coordinator.py:221`: ten shares of 1.0 / 10 sum to
  0.9999999999999999, so one more round starts on a spent budget
  (`federation_budget`). "[T]he budget is what stops a federation training
  indefinitely" (`models/federated.py:73`).
* `services/federated/coordinator.py:298`: concurrent submissions lose privacy
  spending (`federation_spending_race`). "Spending is cumulative across rounds"
  (`models/federated.py:73`).
* `services/pipeline/engine.py:143`: an edge with `source`/`target` keys passes
  validation and raises `KeyError` (`engine_vocabularies`).
* `services/runtime/cost_control.py:217`: a late reset is caught up one day per
  check, each clearing the counter (`quota_idle_days`).

The other races the models have, those that section 3 lists among them, are not
counted as findings: no text of the repository that we found says that they
cannot happen. They are the hazards of `PROJECT.json` without a property.

## 7. Plan

Done, in this order: `Federation` with `RoundLedger`, `PipelineEngine`,
`PipelineRuns` with `RunLifecycle`, `InferenceQuota`, `ReviewTasks`,
`RuleEngine` with `Alerts` and `OfflineSync`, `EdgeFleet`, and their proofs. What
could follow:

1. The command centre, whose incidents are review tasks with other names, and
   `CaptureSessions`, once it is written down who should win.
2. A composition of `PipelineRuns` with the verdicts of `PipelineEngine`: the
   outcome recorded is the one the definition determines.
3. `EdgeFleet` with transfers, when something reports their progress.
4. The races of section 3 as findings, once it is written down which of two
   writers should win.

The runs are kept few: one passing run per question, and a violation run only
for a disagreement with the repository's own words.

## 8. Not modelled

Numerical code (vision, audio, transforms, search, aggregation, noise), data
import and export, language-model agents and templates compute functions of
their input that no interleaving changes. Single-row bookkeeping (notifications,
flags, keys, billing, plugins) has one write per request. Auth and tenancy
filters hold no state. `services/runtime/gpu_scheduler.py` only appends to its
queue, and `services/pipeline/scheduler.py` stores schedules that nothing
executes yet. Training tasks repeat the pattern of `PipelineRuns`. Formatting,
logging and the shape of responses are left out everywhere.

Partly modelled: of alerts, rules are constants and `check_escalations`,
statistics and outbound actions are left out (reads and HTTP); of mobile sync,
packages (reads), push tokens and online notes (single inserts); of the fleet,
transfers (`sync_service.py`, to which nothing reports), offline packages (single
inserts) and overviews (reads). Capture sessions are read, changed and written
back to Redis by short handlers: the one race is listed as a hazard. Incidents of
the command centre are assigned as review tasks are. Webhook deliveries are sent
one by one and recorded in one commit.
