---------------------------- MODULE ReviewTasks ----------------------------
(***************************************************************************)
(* The review queue of one workspace: the rows of review_tasks, reviews    *)
(* and review_shifts under the requests of backend/app/api/routes/         *)
(* reviewops.py and of the services in backend/app/services/reviewops.     *)
(*                                                                         *)
(* No handler locks a row.  A request reads in one or more statements,     *)
(* each seeing the latest commits, and writes in one transaction the       *)
(* columns that differ from what it read.  A request that names a task     *)
(* that does not exist changes nothing and is not a step.                  *)
(***************************************************************************)
EXTENDS Integers, FiniteSets

CONSTANTS
    Requests,    \* requests in flight
    Tasks,       \* task ids
    Reviewers,   \* users that review, each with a shift
    Nobody,      \* NULL in assigned_to and assigned_to_label
    MaxRequests  \* bound: requests that are made

ASSUME ReviewAssumption ==
    /\ IsFiniteSet(Reviewers) /\ IsFiniteSet(Tasks)
    /\ Nobody \notin Reviewers
    /\ MaxRequests \in Nat

VARIABLES
    tasks,    \* the review_tasks rows
    reviews,  \* per task, how many reviews it has
    shifts,   \* per reviewer, the state of the shift
    request,  \* what each request is doing, with what it has read
    made,     \* how many requests have been made
    writer,   \* history: the operation that wrote a task's status last
    torn      \* history: tasks a request once decided on from an old reading

vars == <<tasks, reviews, shifts, request, made, writer, torn>>

Statuses == {"pending", "assigned", "in_review", "completed", "escalated"}
Open == {"assigned", "in_review"}

\* Mutant of VerdictStatuses: the verdicts themselves.
Verdicts == {"approved", "rejected", "needs_changes"}

\* _VERDICT_STATUS of approved, rejected and needs_changes.
VerdictStatuses == {"completed", "escalated", "in_review"}

\* What a review decides, as far as the status depends on it.
Decisions == {"approved", "escalated"}

Rows == [status : Statuses \cup {"absent"}, required : 0 .. 2,
         user : Reviewers \cup {Nobody}, label : Reviewers \cup {Nobody}]

Absent == [status |-> "absent", required |-> 0, user |-> Nobody, label |-> Nobody]

Calls ==
    [op : {"assign"}, task : Tasks, reviewer : Reviewers, isUser : BOOLEAN]
        \cup [op : {"assign_reviewer"}, task : Tasks, reviewer : Reviewers]
        \cup [op : {"verdict"}, task : Tasks, status : VerdictStatuses]
        \cup [op : {"patch"}, task : Tasks, status : Statuses]
        \cup [op : {"review"}, task : Tasks, decision : Decisions]
        \cup [op : {"resolve"}, task : Tasks]
        \cup [op : {"handoff"}, from : Reviewers, to : Reviewers]
        \cup [op : {"auto_labels", "auto_users"}]

\* Operations that name one task, and those that select tasks.
Single == {"assign", "assign_reviewer", "verdict", "patch", "review", "resolve"}

NoCall == [op |-> "none"]

\* A request with what its session has read so far.
Session(phase, call, rows, count, loads, known) ==
    [phase |-> phase, call |-> call, rows |-> rows, count |-> count,
     loads |-> loads, known |-> known]

Idle == Session("idle", NoCall, <<>>, 0, <<>>, {})

\* The row a handler computes from the one it read.
With(row, status, user, label) ==
    [status |-> status, required |-> row.required, user |-> user, label |-> label]

\* The columns of one row after a transaction that read and computed a row.
Column(read, new, stored) == IF new = read THEN stored ELSE new

Merge(read, new, stored) ==
    [status |-> Column(read.status, new.status, stored.status),
     required |-> stored.required,
     user |-> Column(read.user, new.user, stored.user),
     label |-> Column(read.label, new.label, stored.label)]

Load(rows, r) ==
    Cardinality({t \in DOMAIN rows : rows[t].user = r /\ rows[t].status \in Open})

(***************************************************************************)
(* Creation                                                                *)
(***************************************************************************)
\* The route leaves required_reviews at 1, the service takes it.
CreateTask(t, required) ==
    /\ tasks[t] = Absent
    /\ tasks' = [tasks EXCEPT ![t] = [status |-> "pending", required |-> required,
                                      user |-> Nobody, label |-> Nobody]]
    /\ UNCHANGED <<reviews, shifts, request, made, writer, torn>>

\* The next shift of a reviewer who has handed over.
CreateShift(r) ==
    /\ shifts[r] = "ended"
    /\ shifts' = [shifts EXCEPT ![r] = "active"]
    /\ UNCHANGED <<tasks, reviews, request, made, writer, torn>>

(***************************************************************************)
(* Reading                                                                 *)
(***************************************************************************)
Begin(q, session) ==
    /\ request[q].phase = "idle"
    /\ made < MaxRequests
    /\ made' = made + 1
    /\ request' = [request EXCEPT ![q] = session]
    /\ UNCHANGED <<tasks, reviews, shifts, writer, torn>>

GoOn(q, phase, session) ==
    /\ request[q].phase = phase
    /\ request' = [request EXCEPT ![q] = session]
    /\ UNCHANGED <<tasks, reviews, shifts, made, writer, torn>>

\* SELECT of the task; submit_review also loads its reviews (LoadReviews).
LoadTask(q) ==
    \E call \in Calls :
        /\ call.op \in Single
        /\ tasks[call.task].status # "absent"
        /\ Begin(q, Session(IF call.op = "review" THEN "loaded" ELSE "ready", call,
                            [t \in {call.task} |-> tasks[t]], 0, <<>>, {}))

LoadReviews(q) ==
    LET r == request[q]
    IN  GoOn(q, "loaded", Session("ready", r.call, r.rows, reviews[r.call.task], <<>>, {}))

\* handoff: the two shifts, whether active or not.
LoadShifts(q) ==
    \E from, to \in Reviewers :
        Begin(q, Session("asked", [op |-> "handoff", from |-> from, to |-> to],
                         <<>>, 0, <<>>, {}))

\* The route's auto_assign first reads the labels ever given, and stops without one.
LoadLabels(q) ==
    LET known == {tasks[t].label : t \in Tasks} \ {Nobody}
    IN  /\ known # {}
        /\ Begin(q, Session("asked", [op |-> "auto_labels"], <<>>, 0, <<>>, known))

\* The tasks handoff and the route's auto_assign select from; the selection
\* itself is applied to this reading when they write.
LoadTasks(q) ==
    LET r == request[q]
    IN  GoOn(q, "asked", Session("ready", r.call, tasks, 0, <<>>, r.known))

Pending(rows) == {t \in DOMAIN rows : rows[t].status = "pending"}

\* The service's auto_assign_tasks reads pending tasks, then workloads, then
\* the reviewers ever assigned, and stops without a task or a reviewer.
LoadPending(q) ==
    /\ Pending(tasks) # {}
    /\ Begin(q, Session("pending", [op |-> "auto_users"], tasks, 0, <<>>, {}))

LoadWorkload(q) ==
    LET r == request[q]
    IN  GoOn(q, "pending", Session("workload", r.call, r.rows, 0,
                                   [u \in Reviewers |-> Load(tasks, u)], {}))

LoadReviewers(q) ==
    LET r == request[q]
        known == {tasks[t].user : t \in Tasks} \ {Nobody}
    IN  /\ known # {}
        /\ GoOn(q, "workload", Session("ready", r.call, r.rows, 0, r.loads, known))

(***************************************************************************)
(* Committing                                                              *)
(***************************************************************************)
OutOfDate(q) ==
    {t \in DOMAIN request[q].rows :
        \/ request[q].rows[t] # tasks[t]
        \/ request[q].call.op = "review" /\ request[q].count # reviews[t]}

Ready(q, op) == request[q].phase = "ready" /\ request[q].call.op = op

\* One transaction: new holds the rows the handler computed, by task.
Commit(q, op, new) ==
    /\ Ready(q, op)
    /\ tasks' = [t \in Tasks |->
           IF t \in DOMAIN new THEN Merge(request[q].rows[t], new[t], tasks[t])
                               ELSE tasks[t]]
    /\ writer' = [t \in Tasks |->
           IF t \in DOMAIN new /\ new[t].status # request[q].rows[t].status
           THEN op ELSE writer[t]]
    /\ torn' = torn \cup OutOfDate(q)
    /\ request' = [request EXCEPT ![q] = Idle]
    /\ UNCHANGED made

\* The one row of a call that names a task.
Only(q, row) == [t \in {request[q].call.task} |-> row]

Mine(q) == request[q].rows[request[q].call.task]

Restatus(row, status) == With(row, status, row.user, row.label)

\* Mutant of Assigned: the label is forgotten.
AssignedUser(row, call) ==
    With(row, "assigned", IF call.isUser THEN call.reviewer ELSE Nobody, row.label)

\* The label always, the user only when the id is one.
Assigned(row, call) ==
    With(row, "assigned", IF call.isUser THEN call.reviewer ELSE Nobody, call.reviewer)

AssignTask(q) ==
    /\ Commit(q, "assign", Only(q, Assigned(Mine(q), request[q].call)))
    /\ UNCHANGED <<reviews, shifts>>

AssignReviewer(q) ==
    /\ Commit(q, "assign_reviewer",
              Only(q, With(Mine(q), "assigned", request[q].call.reviewer, Mine(q).label)))
    /\ UNCHANGED <<reviews, shifts>>

SubmitVerdict(q) ==
    /\ Ready(q, "verdict")
    /\ Commit(q, "verdict", Only(q, Restatus(Mine(q), request[q].call.status)))
    /\ UNCHANGED <<reviews, shifts>>

PatchTask(q) ==
    /\ Ready(q, "patch")
    /\ Commit(q, "patch", Only(q, Restatus(Mine(q), request[q].call.status)))
    /\ UNCHANGED <<reviews, shifts>>

AddReview(q) ==
    reviews' = [reviews EXCEPT ![request[q].call.task] = @ + 1]

\* Mutant of Received: the review at hand is not counted.
ReceivedBefore(q) == request[q].count

Received(q) == request[q].count + 1

ReviewedStatus(q) ==
    IF request[q].call.decision = "escalated" THEN "escalated"
    ELSE IF Received(q) >= Mine(q).required THEN "completed"
    ELSE "in_review"

SubmitReview(q) ==
    /\ Commit(q, "review", Only(q, Restatus(Mine(q), ReviewedStatus(q))))
    /\ AddReview(q)
    /\ UNCHANGED shifts

ResolveDisagreement(q) ==
    /\ Commit(q, "resolve", Only(q, Restatus(Mine(q), "completed")))
    /\ AddReview(q)
    /\ UNCHANGED shifts

\* Mutant of Unfinished: tasks in review are forgotten.
AssignedOnly(rows, r) == {t \in DOMAIN rows : rows[t].user = r /\ rows[t].status = "assigned"}

Unfinished(rows, r) == {t \in DOMAIN rows : rows[t].user = r /\ rows[t].status \in Open}

Handoff(q) ==
    LET call == request[q].call
        rows == request[q].rows
    IN  /\ Commit(q, "handoff",
                  [t \in Unfinished(rows, call.from) |->
                       With(rows[t], rows[t].status, call.to, rows[t].label)])
        /\ shifts' = [shifts EXCEPT ![call.from] = "ended"]
        /\ UNCHANGED reviews

\* The orders in which a query may return the members of S.
Listings(S) ==
    {s \in [1 .. Cardinality(S) -> S] : \A i, j \in DOMAIN s : s[i] = s[j] => i = j}

RoundRobin(who, known) ==
    \E ts \in Listings(DOMAIN who), rs \in Listings(known) :
        \A i \in DOMAIN ts : who[ts[i]] = rs[((i - 1) % Cardinality(known)) + 1]

\* The route: labels in turn; neither query orders its rows.
AutoAssign(q) ==
    LET rows == request[q].rows
    IN  /\ Ready(q, "auto_labels")
        /\ \E who \in [Pending(rows) -> request[q].known] :
               /\ RoundRobin(who, request[q].known)
               /\ Commit(q, "auto_labels",
                         [t \in Pending(rows) |->
                             With(rows[t], "assigned", rows[t].user, who[t])])
        /\ UNCHANGED <<reviews, shifts>>

\* Mutant of Busy: a task assigned in this loop does not count.
BusyBefore(loads, who, ts, i, r) == loads[r]

\* The load of r when the i-th task is assigned: who holds the earlier ones.
Busy(loads, who, ts, i, r) ==
    loads[r] + Cardinality({j \in 1 .. i - 1 : who[ts[j]] = r})

\* min over the listed reviewers: the first of the least loaded.
LeastLoaded(loads, who, known) ==
    \E ts \in Listings(DOMAIN who), rs \in Listings(known) :
        \A i \in DOMAIN ts : \E k \in DOMAIN rs :
            /\ who[ts[i]] = rs[k]
            /\ \A m \in DOMAIN rs :
                   LET mine == Busy(loads, who, ts, i, rs[k])
                       other == Busy(loads, who, ts, i, rs[m])
                   IN  IF m < k THEN mine < other ELSE mine <= other

\* The service: each task to the least loaded of the reviewers ever assigned.
AutoAssignTasks(q) ==
    LET rows == request[q].rows
    IN  /\ Ready(q, "auto_users")
        /\ \E who \in [Pending(rows) -> request[q].known] :
               /\ LeastLoaded(request[q].loads, who, request[q].known)
               /\ Commit(q, "auto_users",
                         [t \in Pending(rows) |->
                             With(rows[t], "assigned", who[t], rows[t].label)])
        /\ UNCHANGED <<reviews, shifts>>

\* The handler raised, the commit was refused or the worker died.
Rollback(q) ==
    /\ request[q].phase # "idle"
    /\ request' = [request EXCEPT ![q] = Idle]
    /\ UNCHANGED <<tasks, reviews, shifts, made, writer, torn>>

-----------------------------------------------------------------------------
\* A queue at rest: tasks not created yet, or sent back by who held them.
Waiting == {[status |-> "pending", required |-> 1, user |-> r, label |-> r] :
                r \in Reviewers}

Init ==
    /\ tasks \in [Tasks -> {Absent} \cup Waiting]
    /\ reviews = [t \in Tasks |-> 0]
    /\ shifts = [r \in Reviewers |-> "active"]
    /\ request = [q \in Requests |-> Idle]
    /\ made = 0
    /\ writer = [t \in Tasks |-> "none"]
    /\ torn = {}

Read(q) == \/ LoadTask(q) \/ LoadReviews(q) \/ LoadShifts(q) \/ LoadLabels(q)
           \/ LoadTasks(q) \/ LoadPending(q) \/ LoadWorkload(q) \/ LoadReviewers(q)

Write(q) == \/ AssignTask(q) \/ AssignReviewer(q) \/ SubmitVerdict(q) \/ PatchTask(q)
            \/ SubmitReview(q) \/ ResolveDisagreement(q) \/ Handoff(q)
            \/ AutoAssign(q) \/ AutoAssignTasks(q)

Next ==
    \/ \E t \in Tasks, required \in 1 .. 2 : CreateTask(t, required)
    \/ \E r \in Reviewers : CreateShift(r)
    \/ \E q \in Requests : Read(q) \/ Write(q) \/ Rollback(q)

Spec == Init /\ [][Next]_vars

(***************************************************************************)
(* Properties                                                              *)
(***************************************************************************)
Readings == UNION {[S -> Rows] : S \in SUBSET Tasks}

RequestRecords ==
    [phase : {"idle", "asked", "pending", "workload", "loaded", "ready"},
     call : Calls \cup {NoCall}, rows : Readings, count : Nat,
     loads : {<<>>} \cup [Reviewers -> Nat], known : SUBSET Reviewers]

TypeOK ==
    /\ tasks \in [Tasks -> Rows]
    /\ reviews \in [Tasks -> Nat]
    /\ shifts \in [Reviewers -> {"active", "ended"}]
    /\ request \in [Requests -> RequestRecords]
    /\ made \in 0 .. MaxRequests
    /\ writer \in [Tasks -> Single \cup {"none", "handoff", "auto_labels", "auto_users"}]
    /\ torn \in SUBSET Tasks

\* Whatever requests race, a task the queue assigned is held by somebody: no
\* mix of columns of two assignments loses both the user and the label ("an
\* assignment still names who holds the task", ReviewTask.assigned_to_label).
AssignedToSomeone ==
    \A t \in Tasks :
        tasks[t].status = "assigned" /\ writer[t] # "patch" =>
            tasks[t].user # Nobody \/ tasks[t].label # Nobody

\* Reviews decide.  However requests race, a review completes a task only when
\* the task has the reviews it needs; as long as no request wrote the task from
\* an old reading, the last review it needs does complete it (submit_review).
ReviewsDecide ==
    \A t \in Tasks :
        writer[t] = "review" =>
            /\ tasks[t].status = "completed" => reviews[t] >= tasks[t].required
            /\ t \notin torn /\ tasks[t].status = "in_review" =>
                   reviews[t] < tasks[t].required

\* No reviewer is given a task while another has two fewer, when the readings
\* are current: labels by round-robin among the new tasks, users by workload.
UpToDate(q) ==
    /\ request[q].rows = tasks
    /\ request[q].call.op = "auto_users" =>
           request[q].loads = [r \in Reviewers |-> Load(tasks, r)]

Given(column, r) ==
    Cardinality({t \in Tasks : tasks[t].status = "pending"
                               /\ tasks'[t].status = "assigned"
                               /\ tasks'[t][column] = r})

FairShare ==
    [][\A q \in Requests : UpToDate(q) =>
          \A r, s \in request[q].known :
              /\ AutoAssign(q) => Given("label", r) <= Given("label", s) + 1
              /\ AutoAssignTasks(q) /\ Given("user", r) > 0 =>
                     Load(tasks', r) <= Load(tasks', s) + 1]_vars

\* Whatever other requests write to its tasks in between, a hand-over to a
\* colleague takes from the reviewer who goes off duty every task it found open
\* with that reviewer; only a task that came to the reviewer later, or was
\* opened again, stays behind (handoff).
NothingLeftBehind ==
    [][\A q \in Requests :
          Handoff(q) /\ request[q].call.from # request[q].call.to =>
              \A t \in Tasks :
                  tasks'[t].user = request[q].call.from /\ tasks'[t].status \in Open =>
                      \/ request[q].rows[t].user # tasks'[t].user
                      \/ request[q].rows[t].status \notin Open
      ]_vars
=============================================================================
