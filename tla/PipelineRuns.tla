---------------------------- MODULE PipelineRuns ----------------------------
(***************************************************************************)
(* A pipeline run from the request to the notification: run_pipeline and   *)
(* start_pipeline_run commit a row and hand it to Celery                   *)
(* (backend/app/api/routes/pipeline.py, tasks/dispatch.py), a worker takes *)
(* it through running to its outcome and rings the workspace's bell        *)
(* (tasks/pipeline.py).                                                    *)
(*                                                                         *)
(* Celery runs with its defaults on a Redis broker: a worker prefetches a  *)
(* message, acknowledges it as it starts the task and never retries it; a  *)
(* message held unacknowledged for the visibility timeout is delivered     *)
(* again.  Rows are never deleted.  A database error in a request or a     *)
(* task ends it where a crash would.                                       *)
(***************************************************************************)
EXTENDS Integers

CONSTANTS
    Runs,             \* requests to run a pipeline
    Workers,          \* task slots: each holds one message
    MaxLostReplies,   \* bound: messages the broker took and did not confirm
    MaxRedeliveries,  \* bound: messages delivered again
    MaxCrashes        \* bound: requests and workers lost

ASSUME RunsAssumption ==
    /\ MaxLostReplies \in Nat
    /\ MaxRedeliveries \in Nat
    /\ MaxCrashes \in Nat

VARIABLES
    row,       \* pipeline_runs: status and results of each run
    endpoint,  \* where the request of each run is
    queue,     \* messages of each run in the broker
    worker,    \* what each task slot holds
    bell,      \* outcomes the workspace was notified of
    faults     \* history: what went wrong so far, besides refusals

vars == <<row, endpoint, queue, worker, bell, faults>>

Terminal == {"completed", "failed"}
Rows == [status : {"absent", "pending", "running"} \cup Terminal,
         results : {"none", "queue_error"} \cup Terminal]

\* A task slot: its phase, its run, and the values it last loaded or wrote.
Slots == [phase : {"idle", "prefetched", "loaded", "running", "recorded"},
          run : Runs, status : {"pending", "running"} \cup Terminal]

(***************************************************************************)
(* The request                                                             *)
(***************************************************************************)
CreateRun(r) ==
    /\ endpoint[r] = "none"
    /\ row' = [row EXCEPT ![r] = [status |-> "pending", results |-> "none"]]
    /\ endpoint' = [endpoint EXCEPT ![r] = "created"]
    /\ UNCHANGED <<queue, worker, bell, faults>>

\* dispatch: the broker has the message.
Dispatch(r) ==
    /\ endpoint[r] = "created"
    /\ queue' = [queue EXCEPT ![r] = @ + 1]
    /\ endpoint' = [endpoint EXCEPT ![r] = "done"]
    /\ UNCHANGED <<row, worker, bell, faults>>

\* Mutants of AfterRefusal: the error is swallowed; the request tries again.
SwallowedRefusal == "done"
RetriedRefusal == "created"

\* dispatch raises DispatchError.
AfterRefusal == "refused"

DispatchRefused(r) ==
    /\ endpoint[r] = "created"
    /\ endpoint' = [endpoint EXCEPT ![r] = AfterRefusal]
    /\ UNCHANGED <<row, queue, worker, bell, faults>>

DispatchReplyLost(r) ==
    /\ faults.reply < MaxLostReplies
    /\ faults' = [faults EXCEPT !.reply = @ + 1]
    /\ endpoint[r] = "created"
    /\ queue' = [queue EXCEPT ![r] = @ + 1]
    /\ endpoint' = [endpoint EXCEPT ![r] = AfterRefusal]
    /\ UNCHANGED <<row, worker, bell>>

\* Mutant of Refused: only the status is recorded.
RefusedStatus(run) == [run EXCEPT !.status = "failed"]

Refused(run) == [status |-> "failed", results |-> "queue_error"]

RecordRefusal(r) ==
    /\ endpoint[r] = "refused"
    /\ row' = [row EXCEPT ![r] = Refused(row[r])]
    /\ endpoint' = [endpoint EXCEPT ![r] = "done"]
    /\ UNCHANGED <<queue, worker, bell, faults>>

RequestFails(r) ==
    /\ faults.crash < MaxCrashes
    /\ faults' = [faults EXCEPT !.crash = @ + 1]
    /\ endpoint[r] \in {"created", "refused"}
    /\ endpoint' = [endpoint EXCEPT ![r] = "lost"]
    /\ UNCHANGED <<row, queue, worker, bell>>

(***************************************************************************)
(* The worker                                                              *)
(***************************************************************************)
Receive(w) ==
    /\ worker[w].phase = "idle"
    /\ \E r \in Runs :
           /\ queue[r] > 0
           /\ queue' = [queue EXCEPT ![r] = @ - 1]
           /\ worker' = [worker EXCEPT ![w] =
                            [phase |-> "prefetched", run |-> r, status |-> "pending"]]
    /\ UNCHANGED <<row, endpoint, bell, faults>>

Redeliver(w) ==
    /\ faults.redelivery < MaxRedeliveries
    /\ faults' = [faults EXCEPT !.redelivery = @ + 1]
    /\ worker[w].phase = "prefetched"
    /\ queue' = [queue EXCEPT ![worker[w].run] = @ + 1]
    /\ UNCHANGED <<row, endpoint, worker, bell>>

\* The message is acknowledged and _run_pipeline loads the row.
Load(w) ==
    /\ worker[w].phase = "prefetched"
    /\ worker' = [worker EXCEPT ![w] =
                     [phase |-> "loaded", run |-> @.run, status |-> row[@.run].status]]
    /\ UNCHANGED <<row, endpoint, queue, bell, faults>>

\* The session writes a column only when it differs from the value it loaded.
MarkRunning(w) ==
    /\ worker[w].phase = "loaded"
    /\ worker' = [worker EXCEPT ![w] =
                     [phase |-> "running", run |-> @.run, status |-> "running"]]
    /\ IF worker[w].status = "running"
       THEN row' = row
       ELSE row' = [row EXCEPT ![worker[w].run] =
                       [status |-> "running", results |-> @.results]]
    /\ UNCHANGED <<endpoint, queue, bell, faults>>

\* Mutants of Recorded: the payload is saved and the status left; the payload
\* is the row as it was.
RecordedPayload(run, outcome) == [run EXCEPT !.results = outcome]
RecordedStale(run, outcome) == [status |-> outcome, results |-> run.status]

Recorded(run, outcome) == [status |-> outcome, results |-> outcome]

\* execute_pipeline returns a status or raises, which counts as failed.
Record(w) ==
    /\ worker[w].phase = "running"
    /\ \E outcome \in Terminal :
           /\ row' = [row EXCEPT ![worker[w].run] = Recorded(@, outcome)]
           /\ worker' = [worker EXCEPT ![w] =
                            [phase |-> "recorded", run |-> @.run, status |-> outcome]]
    /\ UNCHANGED <<endpoint, queue, bell, faults>>

\* Mutant of Announced: the fixed text the bell once showed.
AlwaysCompleted(outcome) == "completed"

Announced(outcome) == outcome

\* _notify_finished: a bell that cannot be rung fails nothing.
Notify(w) ==
    /\ worker[w].phase = "recorded"
    /\ \/ bell' = [bell EXCEPT ![worker[w].run] = @ \cup {Announced(worker[w].status)}]
       \/ bell' = bell
    /\ worker' = [worker EXCEPT ![w] =
                     [phase |-> "idle", run |-> @.run, status |-> "pending"]]
    /\ UNCHANGED <<row, endpoint, queue, faults>>

\* An unacknowledged message goes back to the queue, a running task is lost.
WorkerFails(w) ==
    /\ faults.crash < MaxCrashes
    /\ faults' = [faults EXCEPT !.crash = @ + 1]
    /\ worker[w].phase # "idle"
    /\ worker' = [worker EXCEPT ![w] =
                     [phase |-> "idle", run |-> @.run, status |-> "pending"]]
    /\ IF worker[w].phase = "prefetched"
       THEN queue' = [queue EXCEPT ![worker[w].run] = @ + 1]
       ELSE queue' = queue
    /\ UNCHANGED <<row, endpoint, bell>>

-----------------------------------------------------------------------------
Init ==
    /\ row = [r \in Runs |-> [status |-> "absent", results |-> "none"]]
    /\ endpoint = [r \in Runs |-> "none"]
    /\ queue = [r \in Runs |-> 0]
    /\ worker \in [Workers -> [phase : {"idle"}, run : Runs, status : {"pending"}]]
    /\ bell = [r \in Runs |-> {}]
    /\ faults = [reply |-> 0, redelivery |-> 0, crash |-> 0]

RequestStep(r) == Dispatch(r) \/ DispatchRefused(r) \/ RecordRefusal(r)
TaskStep(w) == Receive(w) \/ Load(w) \/ MarkRunning(w) \/ Record(w) \/ Notify(w)

Next ==
    \/ \E r \in Runs : \/ CreateRun(r) \/ RequestStep(r)
                       \/ DispatchReplyLost(r) \/ RequestFails(r)
    \/ \E w \in Workers : TaskStep(w) \/ Redeliver(w) \/ WorkerFails(w)

Spec == Init /\ [][Next]_vars

\* A request and a task keep running until they end or fail: nothing in either
\* waits for another.  No request has to be made, no fault has to happen.
FairSpec ==
    /\ Spec
    /\ \A r \in Runs : WF_vars(RequestStep(r))
    /\ \A w \in Workers : WF_vars(TaskStep(w))

(***************************************************************************)
(* Properties                                                              *)
(***************************************************************************)
TypeOK ==
    /\ row \in [Runs -> Rows]
    /\ endpoint \in [Runs -> {"none", "created", "refused", "done", "lost"}]
    /\ queue \in [Runs -> Nat]
    /\ worker \in [Workers -> Slots]
    /\ bell \in [Runs -> SUBSET Terminal]
    /\ faults \in [reply : 0 .. MaxLostReplies, redelivery : 0 .. MaxRedeliveries,
                  crash : 0 .. MaxCrashes]

\* What the console shows of an ended run is one writer's account of it,
\* whatever requests and workers raced on the row: its status and its results
\* agree (_queue_run, _run_pipeline).
RowCoherent ==
    \A r \in Runs :
        /\ row[r].status = "completed" => row[r].results = "completed"
        /\ row[r].status = "failed" => row[r].results \in {"failed", "queue_error"}
        /\ row[r].status \in {"absent", "pending"} => row[r].results = "none"

Holds(w, r) == worker[w].phase # "idle" /\ worker[w].run = r

\* Without redelivery a run is executed once, even when a lost reply made the
\* request record a refusal (dispatch).
RunsOnce ==
    faults.redelivery = 0 => \A r \in Runs :
        /\ queue[r] <= 1
        /\ endpoint[r] \in {"none", "created"} => queue[r] = 0
        /\ \A w \in Workers : Holds(w, r) =>
               /\ queue[r] = 0
               /\ endpoint[r] \in {"refused", "done", "lost"}
               /\ \A v \in Workers : Holds(v, r) => v = w

\* While nothing crashes, a pending run is on its way: its request, a message
\* or a worker will move it ("the row the console polls").
PendingIsOnItsWay ==
    faults.crash = 0 => \A r \in Runs : row[r].status = "pending" =>
        \/ endpoint[r] \in {"created", "refused"}
        \/ queue[r] > 0
        \/ \E w \in Workers : Holds(w, r) /\ worker[w].phase \in {"prefetched", "loaded"}

\* Without lost replies and redelivery, the bell says what the row says, from
\* the moment it rings (_notify_finished).
BellAgrees ==
    faults.reply = 0 /\ faults.redelivery = 0 =>
        \A r \in Runs : bell[r] \subseteq {row[r].status}

\* What has gone wrong so far, as the console may be told of it.
Mishaps ==
    {m \in {"repeat", "crash"} :
        \/ m = "repeat" /\ (faults.reply > 0 \/ faults.redelivery > 0)
        \/ m = "crash" /\ faults.crash > 0}

Lifecycle == INSTANCE RunLifecycle
                 WITH status <- [r \in Runs |-> row[r].status], mishaps <- Mishaps

\* The rows go through the promised lifecycle (docs/persistence.md, "Background
\* work"): ended runs stay as they are until a reply is lost or a message comes
\* twice, and every run moves on until something crashes.
ImplementsLifecycle == Lifecycle!Spec

\* Its safety half.
LifecycleSafety == Lifecycle!Safety

\* While nothing crashes, every run that was created ends and stays ended, even
\* when replies are lost and messages delivered again.
EveryRunEnds ==
    [](faults.crash = 0) =>
        \A r \in Runs : <>[](row[r].status \in {"absent"} \cup Terminal)
=============================================================================
