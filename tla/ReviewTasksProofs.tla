------------------------- MODULE ReviewTasksProofs -------------------------
(***************************************************************************)
(* Proofs about ReviewTasks, for any number of requests, tasks and         *)
(* reviewers.                                                              *)
(***************************************************************************)
EXTENDS ReviewTasks, FiniteSetTheorems, TLAPS

Bulk == {"handoff", "auto_labels", "auto_users"}

\* What a session holds in each of its phases.
Shape(r) ==
    /\ r.phase = "loaded" => r.call.op = "review"
    /\ r.phase \in {"loaded", "ready"} /\ r.call.op \in Single =>
           /\ r.call.task \in Tasks /\ r.rows \in [{r.call.task} -> Rows]
           /\ r.rows[r.call.task].status # "absent"
    /\ r.phase = "asked" => r.call.op \in {"handoff", "auto_labels"}
    /\ r.phase \in {"pending", "workload"} => r.call.op = "auto_users"
    /\ r.phase \in {"pending", "workload", "ready"} /\ r.call.op \in Bulk =>
           r.rows \in [Tasks -> Rows]
    /\ r.call.op = "handoff" =>
           r.call \in [op : {"handoff"}, from : Reviewers, to : Reviewers]

Shapes == \A q \in Requests : Shape(request[q])

Held(row) == row.user # Nobody \/ row.label # Nobody

\* A label is never cleared, and a user only in favour of a label; a task that
\* exists stays, with the reviews it requires.
Covers(stored, read) ==
    /\ read.status # "absent" => stored.status # "absent" /\ stored.required = read.required
    /\ read.label # Nobody => stored.label # Nobody
    /\ Held(read) => Held(stored)

Covered ==
    \A q \in Requests : \A t \in DOMAIN request[q].rows :
        t \in Tasks => Covers(tasks[t], request[q].rows[t])

\* Reviews are only added: a session has counted at most those there are.
Lagging ==
    \A q \in Requests :
        request[q].call.op = "review" => request[q].count <= reviews[request[q].call.task]

Inv == TypeOK /\ Shapes /\ Covered /\ Lagging /\ AssignedToSomeone /\ ReviewsDecide

-----------------------------------------------------------------------------
(***************************************************************************)
(* Sessions                                                                *)
(***************************************************************************)
LEMMA EmptyIsAReading == <<>> \in Readings /\ DOMAIN <<>> = {}
<1>1. <<>> \in [{} -> Rows]
  OBVIOUS
<1> QED BY <1>1 DEF Readings

LEMMA SessionIsARecord ==
  ASSUME NEW phase \in {"idle", "asked", "pending", "workload", "loaded", "ready"},
         NEW call \in Calls \cup {NoCall}, NEW rows \in Readings, NEW count \in Nat,
         NEW loads \in {<<>>} \cup [Reviewers -> Nat], NEW known \in SUBSET Reviewers
  PROVE  /\ Session(phase, call, rows, count, loads, known) \in RequestRecords
         /\ Session(phase, call, rows, count, loads, known).phase = phase
         /\ Session(phase, call, rows, count, loads, known).call = call
         /\ Session(phase, call, rows, count, loads, known).rows = rows
         /\ Session(phase, call, rows, count, loads, known).count = count
  BY DEF Session, RequestRecords

LEMMA IdleIsARecord ==
  /\ Idle \in RequestRecords /\ Shape(Idle)
  /\ Idle.phase = "idle" /\ Idle.rows = <<>> /\ Idle.call = NoCall
<1>1. NoCall.op = "none"
  BY DEF NoCall
<1>2. /\ Idle \in RequestRecords /\ Idle.phase = "idle"
      /\ Idle.rows = <<>> /\ Idle.call = NoCall
  BY EmptyIsAReading, SessionIsARecord DEF Idle
<1> QED BY <1>1, <1>2 DEF Shape, Single, Bulk

\* A record assigned to one request, and the others left alone.
LEMMA OneRequest ==
  ASSUME TypeOK, NEW q \in Requests, NEW r \in RequestRecords,
         request' = [request EXCEPT ![q] = r]
  PROVE  /\ request' \in [Requests -> RequestRecords]
         /\ request'[q] = r
         /\ \A p \in Requests : p # q => request'[p] = request[p]
  BY DEF TypeOK

LEMMA RowsAreReadings ==
  ASSUME NEW S \in SUBSET Tasks, NEW f \in [S -> Rows]
  PROVE  f \in Readings
  BY DEF Readings

LEMMA InitInv == Init => Inv
<1> SUFFICES ASSUME Init PROVE Inv
  OBVIOUS
<1>1. Absent \in Rows /\ Waiting \subseteq Rows
  BY DEF Absent, Waiting, Rows, Statuses
<1>2. \A row \in {Absent} \cup Waiting : row.status # "assigned"
  BY DEF Absent, Waiting
<1>3. TypeOK
  BY <1>1, IdleIsARecord, ReviewAssumption DEF Init, TypeOK, Single
<1>4. Shapes /\ Covered /\ Lagging
  BY IdleIsARecord, EmptyIsAReading DEF Init, Shapes, Covered, Lagging, NoCall
<1>5. AssignedToSomeone /\ ReviewsDecide
  BY <1>2 DEF Init, AssignedToSomeone, ReviewsDecide
<1> QED BY <1>3, <1>4, <1>5 DEF Inv

\* A step that only replaces one session by one that fits its phase.
LEMMA NewSession ==
  ASSUME Inv, NEW q \in Requests, NEW r \in RequestRecords,
         request' = [request EXCEPT ![q] = r],
         UNCHANGED <<tasks, reviews, shifts, writer, torn>>,
         made' \in 0 .. MaxRequests,
         Shape(r),
         \A t \in DOMAIN r.rows : t \in Tasks =>
             r.rows[t] = tasks[t] \/ Covers(tasks[t], r.rows[t]),
         r.call.op = "review" => r.count <= reviews[r.call.task]
  PROVE  Inv'
<1>1. /\ request' \in [Requests -> RequestRecords]
      /\ request'[q] = r
      /\ \A p \in Requests : p # q => request'[p] = request[p]
  BY OneRequest DEF Inv
<1>2. TypeOK'
  BY <1>1 DEF Inv, TypeOK
<1>3. Shapes'
  BY <1>1 DEF Inv, Shapes
<1>4. Covered'
  <2> SUFFICES ASSUME NEW p \in Requests, NEW t \in DOMAIN request'[p].rows, t \in Tasks
               PROVE  Covers(tasks[t], request'[p].rows[t])
    BY DEF Covered
  <2>1. CASE p = q
    BY <2>1, <1>1 DEF Covers
  <2>2. CASE p # q
    BY <2>2, <1>1 DEF Inv, Covered
  <2> QED BY <2>1, <2>2
<1>5. AssignedToSomeone' /\ ReviewsDecide'
  BY DEF Inv, AssignedToSomeone, ReviewsDecide
<1>6. Lagging'
  BY <1>1 DEF Inv, Lagging
<1> QED BY <1>2, <1>3, <1>4, <1>5, <1>6 DEF Inv

-----------------------------------------------------------------------------
(***************************************************************************)
(* Reading                                                                 *)
(***************************************************************************)
\* Begin and GoOn with a session that fits are steps of NewSession.
LEMMA BeginStep ==
  ASSUME Inv, NEW q \in Requests, NEW r \in RequestRecords, Begin(q, r), Shape(r),
         \A t \in DOMAIN r.rows : t \in Tasks => r.rows[t] = tasks[t],
         r.call.op = "review" => r.count <= reviews[r.call.task]
  PROVE  Inv'
<1>1. made' \in 0 .. MaxRequests
  BY ReviewAssumption DEF Begin, Inv, TypeOK
<1> QED BY <1>1, NewSession DEF Begin

LEMMA GoOnStep ==
  ASSUME Inv, NEW q \in Requests, NEW r \in RequestRecords, NEW phase,
         GoOn(q, phase, r), Shape(r),
         r.rows = request[q].rows \/ r.rows = tasks,
         r.call.op = "review" => r.count <= reviews[r.call.task]
  PROVE  Inv'
<1>1. made' \in 0 .. MaxRequests
  BY DEF GoOn, Inv, TypeOK
<1>2. \A t \in DOMAIN r.rows : t \in Tasks =>
          r.rows[t] = tasks[t] \/ Covers(tasks[t], r.rows[t])
  BY DEF Inv, Covered
<1> QED BY <1>1, <1>2, NewSession DEF GoOn

LEMMA TheTasks ==
  ASSUME TypeOK
  PROVE  tasks \in [Tasks -> Rows] /\ tasks \in Readings /\ DOMAIN tasks = Tasks
  BY DEF TypeOK, Readings

LEMMA NothingLoaded == <<>> \in {<<>>} \cup [Reviewers -> Nat] /\ {} \in SUBSET Reviewers
  OBVIOUS

\* A call that names a task names one of Tasks.
LEMMA CallsNameATask ==
  ASSUME NEW call \in Calls, call.op \in Single
  PROVE  call.task \in Tasks
  BY DEF Calls, Single

LEMMA HandoffCalls ==
  ASSUME NEW call \in Calls, call.op = "handoff"
  PROVE  call \in [op : {"handoff"}, from : Reviewers, to : Reviewers]
  BY DEF Calls

LEMMA ReadStep ==
  ASSUME Inv, NEW q \in Requests, Read(q)
  PROVE  Inv'
<1> DEFINE s == request[q]
<1>0. /\ TypeOK /\ Shape(s) /\ s \in RequestRecords
      /\ \A t \in Tasks : tasks[t] \in Rows
  BY DEF Inv, TypeOK, Shapes
<1>s. /\ s.call \in Calls \cup {NoCall} /\ s.rows \in Readings
      /\ s.loads \in {<<>>} \cup [Reviewers -> Nat] /\ s.known \in SUBSET Reviewers
  BY <1>0 DEF RequestRecords
<1>t. /\ tasks \in Readings /\ tasks \in [Tasks -> Rows]
      /\ <<>> \in Readings /\ DOMAIN <<>> = {}
      /\ <<>> \in {<<>>} \cup [Reviewers -> Nat] /\ {} \in SUBSET Reviewers
  BY <1>0, TheTasks, NothingLoaded, EmptyIsAReading
<1>1. CASE LoadTask(q)
  <2>1. PICK call \in Calls :
          /\ call.op \in Single /\ tasks[call.task].status # "absent"
          /\ Begin(q, Session(IF call.op = "review" THEN "loaded" ELSE "ready", call,
                              [t \in {call.task} |-> tasks[t]], 0, <<>>, {}))
    BY <1>1 DEF LoadTask
  <2> DEFINE rows == [t \in {call.task} |-> tasks[t]]
             phase == IF call.op = "review" THEN "loaded" ELSE "ready"
             r == Session(phase, call, rows, 0, <<>>, {})
  <2>2. call.task \in Tasks
    BY <2>1, CallsNameATask
  <2>3. rows \in [{call.task} -> Rows]
    BY <2>2, <1>0
  <2>3a. rows \in Readings
    BY <2>2, <2>3, RowsAreReadings
  <2>4. r \in RequestRecords /\ r.phase = phase /\ r.call = call /\ r.rows = rows /\ r.count = 0
    BY <2>3a, <1>t DEF Session, RequestRecords
  <2>5. Shape(r)
    <3> HIDE DEF rows
    <3>1. r.call.op \in Single /\ r.call.op \notin Bulk /\ r.call.op # "handoff"
      BY <2>1, <2>4 DEF Single, Bulk
    <3>2. r.call.task \in Tasks /\ r.rows \in [{r.call.task} -> Rows]
      BY <2>2, <2>3, <2>4
    <3>2a. r.rows[r.call.task].status # "absent"
      BY <2>1, <2>4 DEF rows
    <3>3. r.phase = "loaded" => r.call.op = "review"
      BY <2>4
    <3>4. r.phase \in {"loaded", "ready"}
      BY <2>4
    <3> HIDE DEF r
    <3> QED BY <3>1, <3>2, <3>2a, <3>3, <3>4 DEF Shape
  <2>6. r.call.op = "review" => r.count <= reviews[r.call.task]
    BY <2>2, <2>4, <1>0 DEF TypeOK
  <2> HIDE DEF r
  <2>7. \A t \in DOMAIN r.rows : t \in Tasks => r.rows[t] = tasks[t]
    BY <2>4
  <2>8. Begin(q, r)
    BY <2>1 DEF r
  <2> QED BY <2>4, <2>5, <2>6, <2>7, <2>8, BeginStep
<1>2. CASE LoadReviews(q)
  <2> DEFINE r == Session("ready", s.call, s.rows, reviews[s.call.task], <<>>, {})
  <2>1. s.phase = "loaded" /\ GoOn(q, "loaded", r)
    BY <1>2 DEF LoadReviews, GoOn
  <2>2. /\ s.call.op = "review" /\ s.call.task \in Tasks
        /\ s.rows \in [{s.call.task} -> Rows] /\ s.rows[s.call.task].status # "absent"
    BY <2>1, <1>0 DEF Shape, Single
  <2>3. reviews[s.call.task] \in Nat
    BY <2>2, <1>0 DEF TypeOK
  <2>4. /\ r \in RequestRecords /\ r.phase = "ready" /\ r.call = s.call /\ r.rows = s.rows
        /\ r.count = reviews[s.call.task]
    BY <1>s, <2>3, <1>t DEF Session, RequestRecords
  <2>5. Shape(r)
    BY <2>2, <2>4 DEF Shape, Single, Bulk
  <2> HIDE DEF r
  <2> QED BY <2>1, <2>3, <2>4, <2>5, GoOnStep
<1>3. CASE LoadShifts(q)
  <2>1. PICK from \in Reviewers, to \in Reviewers :
          Begin(q, Session("asked", [op |-> "handoff", from |-> from, to |-> to],
                           <<>>, 0, <<>>, {}))
    BY <1>3 DEF LoadShifts
  <2> DEFINE call == [op |-> "handoff", from |-> from, to |-> to]
             r == Session("asked", call, <<>>, 0, <<>>, {})
  <2>2. /\ call \in Calls /\ call \in [op : {"handoff"}, from : Reviewers, to : Reviewers]
        /\ call.op = "handoff"
    BY DEF Calls
  <2>2a. Begin(q, r)
    BY <2>1
  <2> HIDE DEF call
  <2>3. r \in RequestRecords /\ r.phase = "asked" /\ r.call = call /\ r.rows = <<>>
    BY <2>2, <1>s, <1>t DEF Session, RequestRecords
  <2>4. Shape(r)
    BY <2>2, <2>3 DEF Shape
  <2> HIDE DEF r
  <2> QED BY <2>2, <2>2a, <2>3, <2>4, <1>t, BeginStep
<1>4. CASE LoadLabels(q)
  <2> DEFINE known == {tasks[t].label : t \in Tasks} \ {Nobody}
             call == [op |-> "auto_labels"]
             r == Session("asked", call, <<>>, 0, <<>>, known)
  <2>1. Begin(q, r)
    BY <1>4 DEF LoadLabels
  <2>2. known \in SUBSET Reviewers
    BY <1>0 DEF Rows
  <2>3. call \in Calls /\ call.op = "auto_labels"
    BY DEF Calls
  <2> HIDE DEF call, known
  <2>4. r \in RequestRecords /\ r.phase = "asked" /\ r.call = call /\ r.rows = <<>>
    BY <2>2, <2>3, <1>s, <1>t DEF Session, RequestRecords
  <2>5. Shape(r)
    BY <2>3, <2>4 DEF Shape
  <2> HIDE DEF r
  <2> QED BY <2>1, <2>3, <2>4, <2>5, <1>t, BeginStep
<1>5. CASE LoadTasks(q)
  <2> DEFINE r == Session("ready", s.call, tasks, 0, <<>>, s.known)
  <2>1. s.phase = "asked" /\ GoOn(q, "asked", r)
    BY <1>5 DEF LoadTasks, GoOn
  <2>2. r \in RequestRecords /\ r.phase = "ready" /\ r.call = s.call /\ r.rows = tasks
    BY <1>s, <1>t DEF Session, RequestRecords
  <2>3. Shape(r)
    <3>1. r.call.op \in Bulk /\ r.call.op \notin Single
      BY <2>1, <2>2, <1>0 DEF Shape, Single, Bulk
    <3>2. r.call.op = "handoff" =>
              r.call \in [op : {"handoff"}, from : Reviewers, to : Reviewers]
      BY <2>2, <1>0 DEF Shape
    <3> HIDE DEF r
    <3> QED BY <3>1, <3>2, <2>2, <1>t DEF Shape
  <2>4. r.call.op # "review"
    BY <2>1, <2>2, <1>0 DEF Shape
  <2> HIDE DEF r
  <2> QED BY <2>1, <2>2, <2>3, <2>4, GoOnStep
<1>6. CASE LoadPending(q)
  <2> DEFINE call == [op |-> "auto_users"]
             r == Session("pending", call, tasks, 0, <<>>, {})
  <2>1. Begin(q, r)
    BY <1>6 DEF LoadPending
  <2>2. call \in Calls /\ call.op = "auto_users"
    BY DEF Calls
  <2> HIDE DEF call
  <2>3. r \in RequestRecords /\ r.phase = "pending" /\ r.call = call /\ r.rows = tasks
    BY <2>2, <1>s, <1>t DEF Session, RequestRecords
  <2>4. Shape(r)
    <3> HIDE DEF r
    <3> QED BY <2>2, <2>3, <1>t DEF Shape
  <2> HIDE DEF r
  <2> QED BY <2>1, <2>2, <2>3, <2>4, <1>t, BeginStep
<1>7. CASE LoadWorkload(q)
  <2> DEFINE loads == [u \in Reviewers |-> Load(tasks, u)]
             r == Session("workload", s.call, s.rows, 0, loads, {})
  <2>1. s.phase = "pending" /\ GoOn(q, "pending", r)
    BY <1>7 DEF LoadWorkload, GoOn
  <2>2. loads \in [Reviewers -> Nat]
    <3>1. ASSUME NEW u \in Reviewers PROVE Load(tasks, u) \in Nat
      <4> DEFINE mine == {t \in DOMAIN tasks : tasks[t].user = u /\ tasks[t].status \in Open}
      <4>1. IsFiniteSet(mine)
        BY <1>t, ReviewAssumption, FS_Subset
      <4> QED BY <4>1, FS_CardinalityType DEF Load
    <3> QED BY <3>1
  <2> HIDE DEF loads
  <2>3. r \in RequestRecords /\ r.phase = "workload" /\ r.call = s.call /\ r.rows = s.rows
    BY <1>s, <2>2, <1>t DEF Session, RequestRecords
  <2>4. Shape(r)
    BY <2>1, <2>3, <1>0 DEF Shape
  <2>5. r.call.op # "review"
    BY <2>1, <2>3, <1>0 DEF Shape
  <2> HIDE DEF r
  <2> QED BY <2>1, <2>3, <2>4, <2>5, GoOnStep
<1>8. CASE LoadReviewers(q)
  <2> DEFINE known == {tasks[t].user : t \in Tasks} \ {Nobody}
             r == Session("ready", s.call, s.rows, 0, s.loads, known)
  <2>1. s.phase = "workload" /\ GoOn(q, "workload", r)
    BY <1>8 DEF LoadReviewers, GoOn
  <2>2. known \in SUBSET Reviewers
    BY <1>0 DEF Rows
  <2> HIDE DEF known
  <2>3. r \in RequestRecords /\ r.phase = "ready" /\ r.call = s.call /\ r.rows = s.rows
    BY <1>s, <2>2, <1>t DEF Session, RequestRecords
  <2>4. Shape(r)
    BY <2>1, <2>3, <1>0 DEF Shape, Single, Bulk
  <2>5. r.call.op # "review"
    BY <2>1, <2>3, <1>0 DEF Shape
  <2> HIDE DEF r
  <2> QED BY <2>1, <2>3, <2>4, <2>5, GoOnStep
<1> QED BY <1>1, <1>2, <1>3, <1>4, <1>5, <1>6, <1>7, <1>8 DEF Read

LEMMA RollbackStep ==
  ASSUME Inv, NEW q \in Requests, Rollback(q)
  PROVE  Inv'
<1>1. made' \in 0 .. MaxRequests
  BY DEF Rollback, Inv, TypeOK
<1>2. Idle.call.op # "review"
  BY IdleIsARecord DEF NoCall
<1> QED BY <1>1, <1>2, IdleIsARecord, EmptyIsAReading, NewSession DEF Rollback

-----------------------------------------------------------------------------
(***************************************************************************)
(* Committing                                                              *)
(***************************************************************************)
Ops == Single \cup Bulk

\* What every handler's new row has in common: it never clears the label, it
\* clears the user only for a label, and an assignment names somebody.
Sound(op, read, new) ==
    /\ new \in Rows
    /\ new.status = "absent" => new.status = read.status
    /\ new.label \in Reviewers \cup {read.label}
    /\ new.user \in Reviewers \cup {read.user} \/ new.label \in Reviewers
    /\ new.status = "assigned" /\ new.status # read.status =>
           op = "patch" \/ new.user \in Reviewers \/ new.label \in Reviewers

\* Writing the changed columns over a row that covers the one read.
LEMMA MergeHolds ==
  ASSUME NEW op, NEW read \in Rows, NEW new, NEW stored \in Rows,
         Covers(stored, read), Sound(op, read, new),
         NEW m, m = Merge(read, new, stored)
  PROVE  /\ m \in Rows
         /\ \A row : Covers(stored, row) => Covers(m, row)
         /\ Held(stored) => Held(m)
         /\ new.user \in Reviewers \/ new.label \in Reviewers => Held(m)
         /\ new.status = read.status => m.status = stored.status
         /\ new.status # read.status => m.status = new.status
<1>1. /\ m.status = IF new.status = read.status THEN stored.status ELSE new.status
      /\ m.required = stored.required
      /\ m.user = IF new.user = read.user THEN stored.user ELSE new.user
      /\ m.label = IF new.label = read.label THEN stored.label ELSE new.label
      /\ m = [status |-> m.status, required |-> m.required, user |-> m.user, label |-> m.label]
  BY DEF Merge, Column
<1>2. /\ m.status \in Statuses \cup {"absent"} /\ m.required \in 0 .. 2
      /\ m.user \in Reviewers \cup {Nobody} /\ m.label \in Reviewers \cup {Nobody}
  BY <1>1 DEF Rows, Sound
<1>3. m \in Rows
  BY <1>1, <1>2 DEF Rows
<1>4. stored.label # Nobody \/ new.label \in Reviewers => m.label # Nobody
  BY <1>1, ReviewAssumption DEF Sound, Covers
<1>5. Held(stored) \/ new.user \in Reviewers \/ new.label \in Reviewers => Held(m)
  <2>1. CASE m.label # Nobody
    BY <2>1 DEF Held
  <2>2. CASE m.label = Nobody
    <3>1. stored.label = Nobody /\ new.label \notin Reviewers
      BY <2>2, <1>4
    <3>2. new.user \in Reviewers \cup {read.user}
      BY <3>1 DEF Sound
    <3>3. new.user \in Reviewers => m.user # Nobody
      BY <1>1, <3>1, ReviewAssumption DEF Covers, Held
    <3>4. stored.user # Nobody => m.user # Nobody
      BY <1>1, <3>2, <3>3
    <3> QED BY <3>1, <3>3, <3>4 DEF Held
  <2> QED BY <2>1, <2>2
<1>6. stored.status # "absent" => m.status # "absent"
  BY <1>1 DEF Sound
<1>7. \A row : Covers(stored, row) => Covers(m, row)
  BY <1>1, <1>4, <1>5, <1>6 DEF Covers
<1> QED BY <1>1, <1>3, <1>5, <1>7

\* The rows a session that is about to write has read.
LEMMA ReadyRows ==
  ASSUME Inv, NEW q \in Requests, NEW op \in Ops, Ready(q, op)
  PROVE  /\ op \in Single => /\ request[q].call.task \in Tasks
                             /\ DOMAIN request[q].rows = {request[q].call.task}
                             /\ Mine(q) \in Rows /\ Mine(q).status # "absent"
         /\ op \in Bulk => DOMAIN request[q].rows = Tasks
         /\ \A t \in DOMAIN request[q].rows :
                t \in Tasks /\ request[q].rows[t] \in Rows
         /\ request[q] \in RequestRecords
         /\ request[q].call \in Calls
<1>1. Shape(request[q]) /\ request[q] \in RequestRecords
  BY DEF Inv, TypeOK, Shapes
<1>2. request[q].call.op \in Ops /\ request[q].phase = "ready"
  BY DEF Ready
<1>3. request[q].call \in Calls
  BY <1>1, <1>2 DEF RequestRecords, NoCall, Ops, Single, Bulk
<1>4. op \in Single => /\ request[q].call.task \in Tasks
                      /\ request[q].rows \in [{request[q].call.task} -> Rows]
                      /\ request[q].rows[request[q].call.task].status # "absent"
  BY <1>1 DEF Shape, Ready
<1>5. op \in Bulk => request[q].rows \in [Tasks -> Rows]
  BY <1>1 DEF Shape, Ready
<1> QED BY <1>1, <1>3, <1>4, <1>5 DEF Mine, Ops

LEMMA CommitStep ==
  ASSUME Inv, NEW q \in Requests, NEW op \in Ops, NEW new, Commit(q, op, new),
         DOMAIN new \subseteq DOMAIN request[q].rows,
         \A t \in DOMAIN new : Sound(op, request[q].rows[t], new[t]),
         reviews' \in [Tasks -> Nat], \A t \in Tasks : reviews'[t] >= reviews[t],
         shifts' \in [Reviewers -> {"active", "ended"}]
  PROVE  TypeOK' /\ Shapes' /\ Covered' /\ Lagging' /\ AssignedToSomeone'
<1> DEFINE rows == request[q].rows
<1>1. \A t \in DOMAIN rows : t \in Tasks /\ rows[t] \in Rows /\ Covers(tasks[t], rows[t])
  BY ReadyRows DEF Commit, Inv, Covered
<1>2. \A t \in Tasks : tasks[t] \in Rows
  BY DEF Inv, TypeOK
<1>3. /\ request' \in [Requests -> RequestRecords]
      /\ request'[q] = Idle
      /\ \A p \in Requests : p # q => request'[p] = request[p]
  BY OneRequest, IdleIsARecord DEF Commit, Inv
<1>4. ASSUME NEW t \in Tasks
      PROVE  /\ tasks'[t] \in Rows
             /\ \A row : Covers(tasks[t], row) => Covers(tasks'[t], row)
             /\ Held(tasks[t]) => Held(tasks'[t])
             /\ tasks'[t].status = "assigned" /\ writer'[t] # "patch" => Held(tasks'[t])
  <2>0. tasks[t].status = "assigned" /\ writer[t] # "patch" => Held(tasks[t])
    BY DEF Inv, AssignedToSomeone, Held
  <2>1. CASE t \in DOMAIN new
    <3>1. /\ tasks'[t] = Merge(rows[t], new[t], tasks[t])
          /\ writer'[t] = IF new[t].status # rows[t].status THEN op ELSE writer[t]
      BY <2>1 DEF Commit
    <3>2. /\ rows[t] \in Rows /\ tasks[t] \in Rows /\ Covers(tasks[t], rows[t])
          /\ Sound(op, rows[t], new[t])
      BY <1>1, <1>2, <2>1
    <3> DEFINE m == tasks'[t]
               read == rows[t]
               stored == tasks[t]
               row == new[t]
    <3>a. /\ m = Merge(read, row, stored)
          /\ read \in Rows /\ stored \in Rows /\ Covers(stored, read) /\ Sound(op, read, row)
      BY <3>1, <3>2
    <3> HIDE DEF m, read, stored, row
    <3>b. m \in Rows
      BY <3>a, MergeHolds
    <3>c. \A old : Covers(stored, old) => Covers(m, old)
      BY <3>a, MergeHolds
    <3>d. Held(stored) => Held(m)
      BY <3>a, MergeHolds
    <3>e. row.user \in Reviewers \/ row.label \in Reviewers => Held(m)
      BY <3>a, MergeHolds
    <3>f. /\ row.status = read.status => m.status = stored.status
          /\ row.status # read.status => m.status = row.status
      BY <3>a DEF Merge, Column
    <3> USE DEF m, read, stored, row
    <3>4. tasks'[t].status = "assigned" /\ writer'[t] # "patch" => Held(tasks'[t])
      BY <2>0, <3>1, <3>2, <3>d, <3>e, <3>f DEF Sound
    <3> QED BY <3>b, <3>c, <3>d, <3>4
  <2>2. CASE t \notin DOMAIN new
    <3>1. tasks'[t] = tasks[t] /\ writer'[t] = writer[t]
      BY <2>2 DEF Commit
    <3> QED BY <3>1, <2>0, <1>2
  <2> QED BY <2>1, <2>2
<1>5. TypeOK'
  <2>1. tasks' \in [Tasks -> Rows]
    BY <1>4 DEF Commit
  <2>2. writer' \in [Tasks -> Single \cup {"none", "handoff", "auto_labels", "auto_users"}]
    BY DEF Commit, Inv, TypeOK, Ops, Bulk
  <2>3. torn' \in SUBSET Tasks
    BY <1>1 DEF Commit, OutOfDate, Inv, TypeOK
  <2>4. made' \in 0 .. MaxRequests
    BY DEF Commit, Inv, TypeOK
  <2> QED BY <2>1, <2>2, <2>3, <2>4, <1>3 DEF TypeOK
<1>6. Shapes'
  BY <1>3, IdleIsARecord DEF Inv, Shapes
<1>7. Covered'
  <2> SUFFICES ASSUME NEW p \in Requests, NEW t \in DOMAIN request'[p].rows, t \in Tasks
               PROVE  Covers(tasks'[t], request'[p].rows[t])
    BY DEF Covered
  <2>1. CASE p = q
    BY <2>1, <1>3, IdleIsARecord, EmptyIsAReading
  <2>2. CASE p # q
    BY <2>2, <1>3, <1>4 DEF Inv, Covered
  <2> QED BY <2>1, <2>2
<1>8. AssignedToSomeone'
  BY <1>4 DEF AssignedToSomeone, Held
<1>9. Lagging'
  <2> SUFFICES ASSUME NEW p \in Requests, request'[p].call.op = "review"
               PROVE  request'[p].count <= reviews'[request'[p].call.task]
    BY DEF Lagging
  <2>1. p # q /\ request'[p] = request[p]
    BY <1>3, IdleIsARecord DEF NoCall
  <2>2. request[p].call \in Calls /\ request[p].count \in Nat
    BY <2>1 DEF Inv, TypeOK, RequestRecords, NoCall
  <2>3. request[p].call.task \in Tasks
    BY <2>1, <2>2, CallsNameATask DEF Single
  <2>4. request[p].count <= reviews[request[p].call.task]
    BY <2>1 DEF Inv, Lagging
  <2> QED BY <2>1, <2>2, <2>3, <2>4 DEF Inv, TypeOK
<1> QED BY <1>5, <1>6, <1>7, <1>8, <1>9

\* Over the row it was computed from, a new row is written as it is.
LEMMA UntornRow ==
  ASSUME Inv, NEW q \in Requests, NEW op \in Ops, NEW new, Commit(q, op, new),
         NEW t \in Tasks \ torn', t \in DOMAIN request[q].rows
  PROVE  /\ request[q].rows[t] = tasks[t]
         /\ op = "review" => request[q].count = reviews[t]
         /\ t \in DOMAIN new =>
                /\ tasks'[t].status = new[t].status
                /\ tasks'[t].required = tasks[t].required
                /\ tasks'[t].user = new[t].user
                /\ writer'[t] = op \/ (writer'[t] = writer[t] /\ new[t].status = tasks[t].status)
         /\ t \notin DOMAIN new => tasks'[t] = tasks[t] /\ writer'[t] = writer[t]
<1>1. t \notin OutOfDate(q)
  BY DEF Commit
<1>2. request[q].rows[t] = tasks[t] /\ (op = "review" => request[q].count = reviews[t])
  BY <1>1 DEF OutOfDate, Commit, Ready
<1>3. ASSUME t \in DOMAIN new
      PROVE  tasks'[t] = Merge(tasks[t], new[t], tasks[t])
  BY <1>2, <1>3 DEF Commit
<1>4. t \notin DOMAIN new => tasks'[t] = tasks[t] /\ writer'[t] = writer[t]
  BY DEF Commit
<1>5. ASSUME t \in DOMAIN new
      PROVE  /\ tasks'[t].status = new[t].status
             /\ tasks'[t].required = tasks[t].required
             /\ tasks'[t].user = new[t].user
  BY <1>3, <1>5 DEF Merge, Column
<1>6. ASSUME t \in DOMAIN new
      PROVE  writer'[t] = op \/ (writer'[t] = writer[t] /\ new[t].status = tasks[t].status)
  <2>2. CASE new[t].status = request[q].rows[t].status
    <3>1. writer'[t] = writer[t]
      BY <2>2 DEF Commit
    <3> QED BY <3>1, <2>2, <1>2
  <2>3. CASE new[t].status # request[q].rows[t].status
    BY <2>3, <1>6 DEF Commit
  <2> QED BY <2>2, <2>3
<1> QED BY <1>2, <1>4, <1>5, <1>6

\* Every commit but a review's leaves the count and the status of a task in step.
LEMMA OtherDecides ==
  ASSUME Inv, NEW q \in Requests, NEW op \in Ops \ {"review"}, NEW new, Commit(q, op, new),
         DOMAIN new \subseteq DOMAIN request[q].rows,
         reviews' \in [Tasks -> Nat],
         \A t \in DOMAIN new : t \in Tasks,
         \A t \in Tasks :
             \/ reviews'[t] = reviews[t]
             \/ t \in DOMAIN new /\ new[t].status = "completed" /\ reviews'[t] >= reviews[t]
  PROVE  ReviewsDecide'
<1> SUFFICES ASSUME NEW t \in Tasks, writer'[t] = "review"
             PROVE  /\ tasks'[t].status = "completed" => reviews'[t] >= tasks'[t].required
                    /\ t \notin torn' /\ tasks'[t].status = "in_review" =>
                           reviews'[t] < tasks'[t].required
  BY DEF ReviewsDecide
<1>1. /\ tasks'[t].status = tasks[t].status /\ tasks'[t].required = tasks[t].required
      /\ writer[t] = "review"
      /\ t \in DOMAIN new => new[t].status = request[q].rows[t].status
  <2>1. CASE t \in DOMAIN new
    <3>1. new[t].status = request[q].rows[t].status /\ writer[t] = "review"
      BY <2>1 DEF Commit
    <3>2. tasks'[t] = Merge(request[q].rows[t], new[t], tasks[t])
      BY <2>1 DEF Commit
    <3> QED BY <3>1, <3>2 DEF Merge, Column
  <2>2. CASE t \notin DOMAIN new
    BY <2>2 DEF Commit
  <2> QED BY <2>1, <2>2
<1>2. /\ tasks[t].status = "completed" => reviews[t] >= tasks[t].required
      /\ t \notin torn /\ tasks[t].status = "in_review" => reviews[t] < tasks[t].required
      /\ tasks[t].required \in Int /\ reviews[t] \in Nat /\ reviews'[t] \in Nat
  BY <1>1 DEF Inv, ReviewsDecide, TypeOK, Rows
<1>3. reviews'[t] >= reviews[t]
  BY <1>2
<1>4. ASSUME t \notin torn', tasks'[t].status = "in_review"
      PROVE  reviews'[t] = reviews[t] /\ t \notin torn
  <2>1. t \notin torn /\ t \notin OutOfDate(q)
    BY <1>4 DEF Commit
  <2>2. t \in DOMAIN new => new[t].status = tasks[t].status
    BY <1>1, <2>1 DEF OutOfDate
  <2> QED BY <1>1, <1>4, <2>1, <2>2
<1> QED BY <1>1, <1>2, <1>3, <1>4

LEMMA SoundRestatus ==
  ASSUME NEW op, NEW row \in Rows, NEW status \in Statuses,
         status # "assigned" \/ op = "patch"
  PROVE  Sound(op, row, Restatus(row, status)) /\ Restatus(row, status).status = status
  BY DEF Sound, Restatus, With, Rows, Statuses

\* The commits of operations that name a task.
LEMMA SingleStep ==
  ASSUME Inv, NEW q \in Requests, NEW op \in Single, NEW row,
         Commit(q, op, Only(q, row)), Sound(op, Mine(q), row),
         UNCHANGED shifts,
         \/ UNCHANGED reviews
         \/ AddReview(q) /\ (op = "review" \/ (op = "resolve" /\ row.status = "completed")),
         op = "review" => AddReview(q) /\ row = Restatus(Mine(q), ReviewedStatus(q))
  PROVE  Inv'
<1> DEFINE t == request[q].call.task
           rows == request[q].rows
           new == Only(q, row)
<1>0. op \in Ops /\ Ready(q, op)
  BY DEF Ops, Commit
<1>1. /\ t \in Tasks /\ DOMAIN rows = {t} /\ Mine(q) \in Rows /\ Mine(q) = rows[t]
      /\ rows[t].status # "absent"
      /\ request[q] \in RequestRecords
  BY <1>0, ReadyRows DEF Mine
<1>2. DOMAIN new = {t} /\ new[t] = row
  BY DEF Only
<1>3. /\ reviews' \in [Tasks -> Nat]
      /\ \A u \in Tasks : u # t => reviews'[u] = reviews[u]
      /\ reviews'[t] = reviews[t] \/ reviews'[t] = reviews[t] + 1
      /\ AddReview(q) => reviews'[t] = reviews[t] + 1
  BY <1>1 DEF AddReview, Inv, TypeOK
<1>4. TypeOK' /\ Shapes' /\ Covered' /\ Lagging' /\ AssignedToSomeone'
  <2>1. shifts' \in [Reviewers -> {"active", "ended"}]
    BY DEF Inv, TypeOK
  <2>2. \A u \in DOMAIN new : Sound(op, rows[u], new[u])
    BY <1>1, <1>2
  <2>3. \A u \in Tasks : reviews'[u] >= reviews[u]
    BY <1>3 DEF Inv, TypeOK
  <2> QED BY <1>0, <1>1, <1>2, <1>3, <2>1, <2>2, <2>3, CommitStep
<1>5. ReviewsDecide'
  <2>1. CASE op # "review"
    <3>1. \A u \in Tasks :
             \/ reviews'[u] = reviews[u]
             \/ u \in DOMAIN new /\ new[u].status = "completed" /\ reviews'[u] >= reviews[u]
      BY <2>1, <1>1, <1>2, <1>3 DEF Inv, TypeOK
    <3> QED BY <2>1, <3>1, <1>0, <1>1, <1>2, <1>3, OtherDecides
  <2>2. CASE op = "review"
    <3> SUFFICES ASSUME NEW u \in Tasks, writer'[u] = "review"
                 PROVE  /\ tasks'[u].status = "completed" => reviews'[u] >= tasks'[u].required
                        /\ u \notin torn' /\ tasks'[u].status = "in_review" =>
                               reviews'[u] < tasks'[u].required
      BY DEF ReviewsDecide
    <3>1. CASE u # t
      <4>1. tasks'[u] = tasks[u] /\ writer'[u] = writer[u] /\ (u \in torn => u \in torn')
        BY <3>1, <1>2 DEF Commit
      <4> QED BY <3>1, <4>1, <1>3 DEF Inv, ReviewsDecide
    <3>2. CASE u = t
      <4>0. t \in DOMAIN rows /\ t \in DOMAIN new /\ t \in Tasks
        BY <1>1, <1>2
      <4>1. /\ reviews'[t] = reviews[t] + 1
            /\ tasks[t].required \in Int /\ reviews[t] \in Nat
            /\ request[q].count \in Nat /\ request[q].count <= reviews[t]
            /\ rows[t].required \in Int
        BY <2>2, <1>0, <1>1, <1>3, SMTT(30)
           DEF Inv, TypeOK, Rows, RequestRecords, Lagging, Ready
      <4>2. row.status = ReviewedStatus(q) /\ new[t] = row
        BY <2>2, <1>2 DEF Restatus, With
      <4>3. tasks'[t] = Merge(rows[t], new[t], tasks[t])
        BY <4>0 DEF Commit
      <4>4. ASSUME tasks'[t].status = "completed"
            PROVE  reviews'[t] >= tasks'[t].required
        <5>1. CASE new[t].status = rows[t].status
          <6>1. writer[t] = "review" /\ tasks'[t].status = tasks[t].status
            BY <5>1, <4>3, <4>0, <3>2 DEF Commit, Merge, Column
          <6> QED BY <6>1, <4>1, <4>3, <4>4, <4>0 DEF Inv, ReviewsDecide, Merge
        <5>2. CASE new[t].status # rows[t].status
          <6>1. ReviewedStatus(q) = "completed"
            BY <5>2, <4>2, <4>3, <4>4 DEF Merge, Column
          <6>2. request[q].count + 1 >= rows[t].required
            BY <6>1, <1>1 DEF ReviewedStatus, Received
          <6>3. rows[t].required = tasks[t].required
            BY <1>1, <4>0 DEF Inv, Covered, Covers
          <6> QED BY <6>2, <6>3, <4>1, <4>3 DEF Merge
        <5> QED BY <5>1, <5>2
      <4>5. ASSUME t \notin torn', tasks'[t].status = "in_review"
            PROVE  reviews'[t] < tasks'[t].required
        <5>1. /\ rows[t] = tasks[t] /\ request[q].count = reviews[t]
              /\ tasks'[t].status = new[t].status
              /\ tasks'[t].required = tasks[t].required
          BY <4>0, <4>5, <2>2, <1>0, UntornRow
        <5> QED BY <5>1, <4>1, <4>2, <4>5, <1>1 DEF ReviewedStatus, Received
      <4> QED BY <3>2, <4>4, <4>5
    <3> QED BY <3>1, <3>2
  <2> QED BY <2>1, <2>2
<1> QED BY <1>4, <1>5 DEF Inv

\* The commits of operations that select their tasks.
LEMMA BulkStep ==
  ASSUME Inv, NEW q \in Requests, NEW op \in Bulk, NEW new,
         Commit(q, op, new), DOMAIN new \subseteq Tasks,
         \A t \in DOMAIN new : Sound(op, request[q].rows[t], new[t]),
         UNCHANGED reviews, shifts' \in [Reviewers -> {"active", "ended"}]
  PROVE  Inv'
<1>1. op \in Ops \ {"review"} /\ Ready(q, op)
  BY DEF Ops, Bulk, Commit
<1>2. DOMAIN request[q].rows = Tasks
  BY <1>1, ReadyRows
<1>3. reviews' \in [Tasks -> Nat]
  BY DEF Inv, TypeOK
<1>4. TypeOK' /\ Shapes' /\ Covered' /\ Lagging' /\ AssignedToSomeone'
  <2>1. \A t \in Tasks : reviews'[t] >= reviews[t]
    BY DEF Inv, TypeOK
  <2> QED BY <1>1, <1>2, <1>3, <2>1, CommitStep
<1>5. ReviewsDecide'
  BY <1>1, <1>2, <1>3, OtherDecides
<1> QED BY <1>4, <1>5 DEF Inv

-----------------------------------------------------------------------------
(***************************************************************************)
(* One lemma for the operations on one task, one for the others            *)
(***************************************************************************)
LEMMA OneTaskStep ==
  ASSUME Inv, NEW q \in Requests,
         \/ AssignTask(q) \/ AssignReviewer(q) \/ SubmitVerdict(q) \/ PatchTask(q)
         \/ SubmitReview(q) \/ ResolveDisagreement(q)
  PROVE  Inv'
<1> DEFINE call == request[q].call
           row == Mine(q)
<1>0. ASSUME NEW op \in Single, Ready(q, op)
      PROVE  row \in Rows /\ call \in Calls /\ call.op = op
  BY <1>0, ReadyRows DEF Ops, Ready
<1> HIDE DEF row
<1>1. CASE AssignTask(q)
  <2> DEFINE new == Assigned(row, call)
  <2>1. Commit(q, "assign", Only(q, new)) /\ UNCHANGED <<reviews, shifts>>
    BY <1>1 DEF AssignTask, row
  <2>2. row \in Rows /\ call \in Calls /\ call.op = "assign"
    BY <2>1, <1>0 DEF Commit, Single
  <2>3. call.reviewer \in Reviewers
    BY <2>2 DEF Calls
  <2>4. Sound("assign", row, new)
    BY <2>2, <2>3 DEF Sound, Assigned, With, Rows, Statuses
  <2> HIDE DEF new
  <2> QED BY <2>1, <2>4, SingleStep DEF Single, row
<1>2. CASE AssignReviewer(q)
  <2> DEFINE new == With(row, "assigned", call.reviewer, row.label)
  <2>1. Commit(q, "assign_reviewer", Only(q, new)) /\ UNCHANGED <<reviews, shifts>>
    BY <1>2 DEF AssignReviewer, row
  <2>2. row \in Rows /\ call \in Calls /\ call.op = "assign_reviewer"
    BY <2>1, <1>0 DEF Commit, Single
  <2>3. call.reviewer \in Reviewers
    BY <2>2 DEF Calls
  <2>4. Sound("assign_reviewer", row, new)
    BY <2>2, <2>3 DEF Sound, With, Rows, Statuses
  <2> HIDE DEF new
  <2> QED BY <2>1, <2>4, SingleStep DEF Single, row
<1>3. CASE SubmitVerdict(q)
  <2> DEFINE new == Restatus(row, call.status)
  <2>1. Commit(q, "verdict", Only(q, new)) /\ UNCHANGED <<reviews, shifts>>
    BY <1>3 DEF SubmitVerdict, row
  <2>2. row \in Rows /\ call \in Calls /\ call.op = "verdict"
    BY <2>1, <1>0 DEF Commit, Single
  <2>3. call.status \in VerdictStatuses
    BY <2>2 DEF Calls
  <2>4. call.status \in Statuses /\ call.status # "assigned"
    BY <2>3 DEF VerdictStatuses, Statuses
  <2>5. Sound("verdict", row, new)
    BY <2>2, <2>4, SoundRestatus
  <2> HIDE DEF new
  <2> QED BY <2>1, <2>5, SingleStep DEF Single, row
<1>4. CASE PatchTask(q)
  <2> DEFINE new == Restatus(row, call.status)
  <2>1. Commit(q, "patch", Only(q, new)) /\ UNCHANGED <<reviews, shifts>>
    BY <1>4 DEF PatchTask, row
  <2>2. row \in Rows /\ call \in Calls /\ call.op = "patch"
    BY <2>1, <1>0 DEF Commit, Single
  <2>3. call.status \in Statuses
    BY <2>2 DEF Calls
  <2>4. Sound("patch", row, new)
    BY <2>2, <2>3, SoundRestatus
  <2> HIDE DEF new
  <2> QED BY <2>1, <2>4, SingleStep DEF Single, row
<1>5. CASE SubmitReview(q)
  <2> DEFINE new == Restatus(row, ReviewedStatus(q))
  <2>1. /\ Commit(q, "review", Only(q, new)) /\ AddReview(q) /\ UNCHANGED shifts
        /\ new = Restatus(Mine(q), ReviewedStatus(q))
    BY <1>5 DEF SubmitReview, row
  <2>2. row \in Rows
    BY <2>1, <1>0 DEF Commit, Single
  <2>3. ReviewedStatus(q) \in Statuses /\ ReviewedStatus(q) # "assigned"
    BY DEF ReviewedStatus, Statuses
  <2>4. Sound("review", row, new)
    BY <2>2, <2>3, SoundRestatus
  <2> HIDE DEF new
  <2> QED BY <2>1, <2>4, SingleStep DEF Single, row
<1>6. CASE ResolveDisagreement(q)
  <2> DEFINE new == Restatus(row, "completed")
  <2>1. Commit(q, "resolve", Only(q, new)) /\ AddReview(q) /\ UNCHANGED shifts
    BY <1>6 DEF ResolveDisagreement, row
  <2>2. row \in Rows
    BY <2>1, <1>0 DEF Commit, Single
  <2>3. Sound("resolve", row, new) /\ new.status = "completed"
    BY <2>2, SoundRestatus DEF Statuses
  <2> HIDE DEF new
  <2> QED BY <2>1, <2>3, SingleStep DEF Single, row
<1> QED BY <1>1, <1>2, <1>3, <1>4, <1>5, <1>6

LEMMA SelectionStep ==
  ASSUME Inv, NEW q \in Requests, Handoff(q) \/ AutoAssign(q) \/ AutoAssignTasks(q)
  PROVE  Inv'
<1> DEFINE rows == request[q].rows
           call == request[q].call
           known == request[q].known
<1>0. ASSUME NEW op \in Bulk, Ready(q, op)
      PROVE  /\ DOMAIN rows = Tasks /\ \A t \in Tasks : rows[t] \in Rows
             /\ call \in Calls /\ call.op = op
             /\ known \in SUBSET Reviewers
  <2>1. op \in Ops
    BY DEF Ops
  <2>2. request[q] \in RequestRecords
    BY DEF Inv, TypeOK
  <2> QED BY <1>0, <2>1, <2>2, ReadyRows DEF Ready, RequestRecords
<1>1. CASE Handoff(q)
  <2> DEFINE new == [t \in Unfinished(rows, call.from) |->
                        With(rows[t], rows[t].status, call.to, rows[t].label)]
  <2>1. /\ Commit(q, "handoff", new) /\ UNCHANGED reviews
        /\ shifts' = [shifts EXCEPT ![call.from] = "ended"]
    BY <1>1 DEF Handoff
  <2>2. /\ DOMAIN rows = Tasks /\ \A t \in Tasks : rows[t] \in Rows
        /\ call \in Calls /\ call.op = "handoff"
    BY <2>1, <1>0 DEF Commit, Bulk
  <2>3. call.to \in Reviewers
    BY <2>2, HandoffCalls
  <2>4. DOMAIN new \subseteq Tasks
    BY <2>2 DEF Unfinished
  <2>5. ASSUME NEW t \in DOMAIN new PROVE Sound("handoff", rows[t], new[t])
    <3>1. new[t] = With(rows[t], rows[t].status, call.to, rows[t].label) /\ rows[t] \in Rows
      BY <2>2, <2>4
    <3> HIDE DEF new, rows, call
    <3> QED BY <3>1, <2>3 DEF Sound, With, Rows
  <2>6. shifts' \in [Reviewers -> {"active", "ended"}]
    BY <2>1 DEF Inv, TypeOK
  <2> HIDE DEF new
  <2> QED BY <2>1, <2>4, <2>5, <2>6, BulkStep DEF Bulk
<1>2. CASE AutoAssign(q)
  <2>1. PICK who \in [Pending(rows) -> known] :
          Commit(q, "auto_labels",
                 [t \in Pending(rows) |-> With(rows[t], "assigned", rows[t].user, who[t])])
    BY <1>2 DEF AutoAssign
  <2> DEFINE new == [t \in Pending(rows) |->
                        With(rows[t], "assigned", rows[t].user, who[t])]
  <2>2. /\ DOMAIN rows = Tasks /\ \A t \in Tasks : rows[t] \in Rows
        /\ known \in SUBSET Reviewers
    BY <2>1, <1>0 DEF Commit, Bulk
  <2>3. DOMAIN new \subseteq Tasks
    BY <2>2 DEF Pending
  <2>4. ASSUME NEW t \in DOMAIN new PROVE Sound("auto_labels", rows[t], new[t])
    <3>1. /\ new[t] = With(rows[t], "assigned", rows[t].user, who[t])
          /\ rows[t] \in Rows /\ who[t] \in Reviewers
      BY <2>2, <2>3
    <3> HIDE DEF new, rows
    <3> QED BY <3>1 DEF Sound, With, Rows, Statuses
  <2>5. Commit(q, "auto_labels", new) /\ UNCHANGED <<reviews, shifts>>
    BY <1>2, <2>1 DEF AutoAssign
  <2>6. shifts' \in [Reviewers -> {"active", "ended"}]
    BY <2>5 DEF Inv, TypeOK
  <2> HIDE DEF new
  <2> QED BY <2>3, <2>4, <2>5, <2>6, BulkStep DEF Bulk
<1>3. CASE AutoAssignTasks(q)
  <2>1. PICK who \in [Pending(rows) -> known] :
          Commit(q, "auto_users",
                 [t \in Pending(rows) |-> With(rows[t], "assigned", who[t], rows[t].label)])
    BY <1>3 DEF AutoAssignTasks
  <2> DEFINE new == [t \in Pending(rows) |->
                        With(rows[t], "assigned", who[t], rows[t].label)]
  <2>2. /\ DOMAIN rows = Tasks /\ \A t \in Tasks : rows[t] \in Rows
        /\ known \in SUBSET Reviewers
    BY <2>1, <1>0 DEF Commit, Bulk
  <2>3. DOMAIN new \subseteq Tasks
    BY <2>2 DEF Pending
  <2>4. ASSUME NEW t \in DOMAIN new PROVE Sound("auto_users", rows[t], new[t])
    <3>1. /\ new[t] = With(rows[t], "assigned", who[t], rows[t].label)
          /\ rows[t] \in Rows /\ who[t] \in Reviewers
      BY <2>2, <2>3
    <3> HIDE DEF new, rows
    <3> QED BY <3>1 DEF Sound, With, Rows, Statuses
  <2>5. Commit(q, "auto_users", new) /\ UNCHANGED <<reviews, shifts>>
    BY <1>3, <2>1 DEF AutoAssignTasks
  <2>6. shifts' \in [Reviewers -> {"active", "ended"}]
    BY <2>5 DEF Inv, TypeOK
  <2> HIDE DEF new
  <2> QED BY <2>3, <2>4, <2>5, <2>6, BulkStep DEF Bulk
<1> QED BY <1>1, <1>2, <1>3

LEMMA CreationStep ==
  ASSUME Inv,
         \/ \E t \in Tasks, required \in 1 .. 2 : CreateTask(t, required)
         \/ \E r \in Reviewers : CreateShift(r)
  PROVE  Inv'
<1>1. ASSUME NEW t \in Tasks, NEW required \in 1 .. 2, CreateTask(t, required)
      PROVE  Inv'
  <2> DEFINE row == [status |-> "pending", required |-> required,
                     user |-> Nobody, label |-> Nobody]
  <2>1. /\ tasks[t] = Absent /\ tasks' = [tasks EXCEPT ![t] = row]
        /\ UNCHANGED <<reviews, shifts, request, made, writer, torn>>
    BY <1>1 DEF CreateTask
  <2>2. row \in Rows /\ row.status = "pending"
    BY DEF Rows, Statuses
  <2>3. \A old : Covers(tasks[t], old) => Covers(row, old)
    BY <2>1 DEF Covers, Held, Absent
  <2> HIDE DEF row
  <2>4. tasks' \in [Tasks -> Rows] /\ tasks'[t] = row
        /\ \A u \in Tasks : u # t => tasks'[u] = tasks[u]
    BY <2>1, <2>2 DEF Inv, TypeOK
  <2>5. TypeOK'
    BY <2>1, <2>4 DEF Inv, TypeOK
  <2>6. Shapes'
    BY <2>1 DEF Inv, Shapes
  <2>7. Covered'
    <3> SUFFICES ASSUME NEW q \in Requests, NEW u \in DOMAIN request[q].rows, u \in Tasks
                 PROVE  Covers(tasks'[u], request[q].rows[u])
      BY <2>1 DEF Covered
    <3>1. Covers(tasks[u], request[q].rows[u])
      BY DEF Inv, Covered
    <3> QED BY <3>1, <2>3, <2>4
  <2>8. AssignedToSomeone' /\ ReviewsDecide' /\ Lagging'
    BY <2>1, <2>2, <2>4 DEF Inv, AssignedToSomeone, ReviewsDecide, Lagging
  <2> QED BY <2>5, <2>6, <2>7, <2>8 DEF Inv
<1>2. ASSUME NEW r \in Reviewers, CreateShift(r)
      PROVE  Inv'
  <2>1. /\ shifts' = [shifts EXCEPT ![r] = "active"]
        /\ UNCHANGED <<tasks, reviews, request, made, writer, torn>>
    BY <1>2 DEF CreateShift
  <2>2. TypeOK'
    BY <2>1 DEF Inv, TypeOK
  <2> QED BY <2>1, <2>2 DEF Inv, Shapes, Covered, Lagging, AssignedToSomeone, ReviewsDecide
<1> QED BY <1>1, <1>2

-----------------------------------------------------------------------------
(***************************************************************************)
(* Theorems                                                                *)
(***************************************************************************)
\* Every reachable state satisfies the inductive invariant.
THEOREM Invariance == Spec => []Inv
<1>1. Inv /\ [Next]_vars => Inv'
  <2> SUFFICES ASSUME Inv, [Next]_vars PROVE Inv'
    OBVIOUS
  <2>1. CASE \/ \E t \in Tasks, required \in 1 .. 2 : CreateTask(t, required)
             \/ \E r \in Reviewers : CreateShift(r)
    BY <2>1, CreationStep
  <2>2. ASSUME NEW q \in Requests, Read(q) PROVE Inv'
    BY <2>2, ReadStep
  <2>3. ASSUME NEW q \in Requests, Write(q) PROVE Inv'
    BY <2>3, OneTaskStep, SelectionStep DEF Write
  <2>4. ASSUME NEW q \in Requests, Rollback(q) PROVE Inv'
    BY <2>4, RollbackStep
  <2>5. CASE UNCHANGED vars
    BY <2>5 DEF vars, Inv, TypeOK, Shapes, Covered, Lagging, AssignedToSomeone,
                     ReviewsDecide
  <2> QED BY <2>1, <2>2, <2>3, <2>4, <2>5 DEF Next
<1> QED BY InitInv, <1>1, PTL DEF Spec

\* The rows and the sessions keep their types.
THEOREM TypeCorrect == Spec => []TypeOK
  BY Invariance, PTL DEF Inv

\* However assignments race, a task the queue assigned is held by somebody
\* (assign_task, auto_assign, assign_reviewer, handoff).
THEOREM AssignmentHolds == Spec => []AssignedToSomeone
  BY Invariance, PTL DEF Inv

\* Under any race a review completes a task only when it has the reviews it
\* needs, and the last one completes a task nobody wrote from an old reading
\* (submit_review).
THEOREM ReviewsAreDecisive == Spec => []ReviewsDecide
  BY Invariance, PTL DEF Inv

\* A hand-over to a colleague takes every task it found open with the reviewer
\* who goes off duty, whatever other requests wrote in between (handoff).
THEOREM HandoverComplete == Spec => NothingLeftBehind
<1> DEFINE Complete == \A q \in Requests :
        Handoff(q) /\ request[q].call.from # request[q].call.to =>
            \A t \in Tasks :
                tasks'[t].user = request[q].call.from /\ tasks'[t].status \in Open =>
                    \/ request[q].rows[t].user # tasks'[t].user
                    \/ request[q].rows[t].status \notin Open
<1>1. Inv => Complete
  <2> SUFFICES ASSUME Inv, NEW q \in Requests, Handoff(q),
                      request[q].call.from # request[q].call.to, NEW t \in Tasks,
                      request[q].rows[t].user = request[q].call.from,
                      request[q].rows[t].status \in Open
               PROVE  tasks'[t].user = request[q].call.to
    OBVIOUS
  <2> DEFINE rows == request[q].rows
             call == request[q].call
             new == [u \in Unfinished(rows, call.from) |->
                        With(rows[u], rows[u].status, call.to, rows[u].label)]
  <2>1. Commit(q, "handoff", new)
    BY DEF Handoff
  <2>2. DOMAIN rows = Tasks
    <3>1. "handoff" \in Ops /\ "handoff" \in Bulk /\ Ready(q, "handoff")
      BY <2>1 DEF Commit, Ops, Bulk
    <3> QED BY <3>1, ReadyRows
  <2>3. t \in DOMAIN new /\ new[t].user = call.to
    BY <2>2 DEF Unfinished, With
  <2> HIDE DEF new
  <2>4. tasks'[t] = Merge(rows[t], new[t], tasks[t])
    BY <2>1, <2>3 DEF Commit
  <2> QED BY <2>3, <2>4 DEF Merge, Column
<1> QED BY <1>1, Invariance, PTL DEF NothingLeftBehind

-----------------------------------------------------------------------------
(***************************************************************************)
(* Fair shares.  A deal gives each of finitely many tasks to a reviewer;   *)
(* both loops go through the tasks in some order, so a share is counted by *)
(* the positions at which its reviewer's turn came.                        *)
(***************************************************************************)

\* A listing of S is a bijection from 1 .. Cardinality(S).
LEMMA ListingIsBijective ==
  ASSUME NEW S, IsFiniteSet(S), NEW s \in Listings(S)
  PROVE  /\ Cardinality(S) \in Nat
         /\ s \in [1 .. Cardinality(S) -> S]
         /\ \A i, j \in 1 .. Cardinality(S) : s[i] = s[j] => i = j
         /\ \A x \in S : \E i \in 1 .. Cardinality(S) : s[i] = x
<1>1. PICK n \in Nat : n = Cardinality(S)
  BY FS_CardinalityType
<1>2. s \in [1 .. n -> S] /\ \A i, j \in 1 .. n : s[i] = s[j] => i = j
  BY <1>1 DEF Listings
<1>3. IsFiniteSet(1 .. n) /\ Cardinality(1 .. n) = n
  BY FS_Interval
<1>4. s \in Injection(1 .. n, S)
  BY <1>2 DEF Injection, IsInjective
<1>5. s \in Surjection(1 .. n, S)
  BY <1>1, <1>3, <1>4, FS_Injection
<1> QED BY <1>1, <1>2, <1>5 DEF Surjection

\* The positions of a listing at which r is given an element, and the
\* elements it is given.
Turns(who, ts, n, r) == {i \in 1 .. n : who[ts[i]] = r}
Share(who, r) == {t \in DOMAIN who : who[t] = r}

LEMMA ShareCounted ==
  ASSUME NEW who, IsFiniteSet(DOMAIN who), NEW ts \in Listings(DOMAIN who), NEW r
  PROVE  /\ IsFiniteSet(Turns(who, ts, Cardinality(DOMAIN who), r))
         /\ IsFiniteSet(Share(who, r))
         /\ Cardinality(Share(who, r)) =
                Cardinality(Turns(who, ts, Cardinality(DOMAIN who), r))
<1> DEFINE S == DOMAIN who
<1>1. PICK n \in Nat : n = Cardinality(S)
  BY FS_CardinalityType
<1>2. /\ ts \in [1 .. n -> S]
      /\ \A i, j \in 1 .. n : ts[i] = ts[j] => i = j
      /\ \A x \in S : \E i \in 1 .. n : ts[i] = x
  BY <1>1, ListingIsBijective
<1> DEFINE I == Turns(who, ts, n, r)
           f == [i \in I |-> ts[i]]
<1>3. IsFiniteSet(1 .. n) /\ I \in SUBSET (1 .. n)
  BY FS_Interval DEF Turns
<1>4. IsFiniteSet(I)
  BY <1>3, FS_Subset
<1>5. f \in [I -> Share(who, r)]
  BY <1>2 DEF Turns, Share
<1>6. f \in Injection(I, Share(who, r))
  BY <1>2, <1>5 DEF Injection, IsInjective, Turns
<1>7. f \in Surjection(I, Share(who, r))
  <2> SUFFICES ASSUME NEW t \in Share(who, r) PROVE \E i \in I : f[i] = t
    BY <1>5 DEF Surjection
  <2>1. PICK i \in 1 .. n : ts[i] = t
    BY <1>2 DEF Share
  <2>2. i \in I
    BY <2>1 DEF Turns, Share
  <2> QED BY <2>1, <2>2
<1>8. ExistsBijection(I, Share(who, r))
  BY <1>6, <1>7 DEF ExistsBijection, Bijection
<1>9. IsFiniteSet(Share(who, r)) /\ Cardinality(Share(who, r)) = Cardinality(I)
  BY <1>4, <1>8, FS_Bijection
<1> QED BY <1>1, <1>4, <1>9

\* Division with remainder.
LEMMA Euclid ==
  ASSUME NEW k \in Nat, k > 0, NEW x \in Nat
  PROVE  /\ x % k \in 0 .. k - 1
         /\ x \div k \in Nat
         /\ x = (k * (x \div k)) + (x % k)
  OBVIOUS

LEMMA RemainderUnique ==
  ASSUME NEW k \in Nat, k > 0, NEW c \in 0 .. k - 1, NEW f \in 0 .. k - 1,
         NEW d \in Nat, NEW e \in Nat, (k * d) + c = (k * e) + f
  PROVE  c = f
<1>1. CASE d = e
  BY <1>1
<1>2. CASE d < e
  <2>1. e >= d + 1
    BY <1>2
  <2>2. k * e >= k * (d + 1)
    BY <2>1
  <2> QED BY <2>2
<1>3. CASE d > e
  <2>1. d >= e + 1
    BY <1>3
  <2>2. k * d >= k * (e + 1)
    BY <2>1
  <2> QED BY <2>2
<1> QED BY <1>1, <1>2, <1>3

\* Between two turns of one reviewer every other has a turn.
LEMMA TurnBefore ==
  ASSUME NEW k \in Nat, k > 0, NEW x \in Nat,
         NEW c \in 0 .. k - 1, NEW b \in 0 .. k - 1, x % k = c, x # c
  PROVE  /\ x - c + b - k \in Nat
         /\ x - c + b - k < x
         /\ (x - c + b - k) % k = b
<1> DEFINE y == x - c + b - k
<1>1. PICK d \in Nat : x = (k * d) + c
  BY Euclid
<1>2. d # 0
  BY <1>1
<1>3. PICK e \in Nat : d = e + 1
  BY <1>2, d - 1 \in Nat, d = (d - 1) + 1
<1>4. k * d = (k * e) + k
  BY <1>3
<1>5. y = (k * e) + b
  BY <1>1, <1>4
<1>6. k * e \in Nat
  OBVIOUS
<1>7. y \in Nat /\ y < x
  BY <1>1, <1>4, <1>5, <1>6
<1>8. PICK g \in Nat : y = (k * g) + (y % k) /\ y % k \in 0 .. k - 1
  BY <1>7, Euclid
<1>9. y % k = b
  BY <1>5, <1>8, RemainderUnique, SMTT(30)
<1> QED BY <1>7, <1>9

\* Of the positions 1 .. n, dealt in turn to k reviewers, the c-th gets at
\* most one more than the b-th.
Nth(n, k, c) == {i \in 1 .. n : ((i - 1) % k) + 1 = c}

LEMMA DealtInTurn ==
  ASSUME NEW n \in Nat, NEW k \in Nat, NEW c \in 1 .. k, NEW b \in 1 .. k
  PROVE  Cardinality(Nth(n, k, c)) <= Cardinality(Nth(n, k, b)) + 1
<1>1. IsFiniteSet(1 .. n) /\ k > 0
  BY FS_Interval
<1>2. /\ IsFiniteSet(Nth(n, k, c)) /\ Cardinality(Nth(n, k, c)) \in Nat
      /\ IsFiniteSet(Nth(n, k, b)) /\ Cardinality(Nth(n, k, b)) \in Nat
  <2>1. Nth(n, k, c) \in SUBSET (1 .. n) /\ Nth(n, k, b) \in SUBSET (1 .. n)
    BY DEF Nth
  <2> QED BY <1>1, <2>1, FS_Subset, FS_CardinalityType
<1> DEFINE Later == Nth(n, k, c) \ {c}
           f == [i \in Later |-> i - c + b - k]
<1>3. f \in [Later -> Nth(n, k, b)]
  <2> SUFFICES ASSUME NEW i \in Later PROVE i - c + b - k \in Nth(n, k, b)
    OBVIOUS
  <2> DEFINE x == i - 1
             y == x - (c - 1) + (b - 1) - k
  <2>1. /\ i \in 1 .. n /\ i # c /\ x \in Nat /\ x # c - 1
        /\ c - 1 \in 0 .. k - 1 /\ b - 1 \in 0 .. k - 1
    BY DEF Nth
  <2>2. (x % k) + 1 = c /\ x % k \in 0 .. k - 1
    BY <1>1, <2>1, Euclid DEF Nth
  <2>3. x % k = c - 1
    BY <2>2
  <2>4. y \in Nat /\ y < x /\ y % k = b - 1
    <3> HIDE DEF x
    <3> QED BY <1>1, <2>1, <2>3, TurnBefore
  <2>5. y + 1 \in 1 .. n /\ (y + 1) - 1 = y
    BY <2>1, <2>4
  <2>6. (((y + 1) - 1) % k) + 1 = b
    BY <2>4, <2>5
  <2>7. y + 1 = i - c + b - k
    BY <2>1
  <2> HIDE DEF y
  <2>8. y + 1 \in Nth(n, k, b)
    BY <2>5, <2>6 DEF Nth
  <2> QED BY <2>7, <2>8
<1>4. \A i, j \in Later : f[i] = f[j] => i = j
  BY DEF Nth
<1>5. f \in Injection(Later, Nth(n, k, b))
  BY <1>3, <1>4 DEF Injection, IsInjective
<1>6. Cardinality(Later) <= Cardinality(Nth(n, k, b)) /\ IsFiniteSet(Later)
  BY <1>2, <1>5, FS_Injection
<1>7. Cardinality(Nth(n, k, c)) <= Cardinality(Later) + 1 /\ Cardinality(Later) \in Nat
  <2>1. Cardinality(Later) \in Nat
    BY <1>6, FS_CardinalityType
  <2>2. Cardinality(Later) = IF c \in Nth(n, k, c) THEN Cardinality(Nth(n, k, c)) - 1
                                                   ELSE Cardinality(Nth(n, k, c))
    BY <1>2, FS_RemoveElement
  <2> HIDE DEF Later
  <2> QED BY <1>2, <2>1, <2>2
<1> QED BY <1>2, <1>6, <1>7

\* The route's loop: whoever is dealt tasks in turn has at most one more than
\* any other, however the queries list tasks and labels.
LEMMA RoundRobinIsFair ==
  ASSUME NEW who, IsFiniteSet(DOMAIN who), NEW known, IsFiniteSet(known),
         RoundRobin(who, known), NEW r \in known, NEW s \in known
  PROVE  Cardinality(Share(who, r)) <= Cardinality(Share(who, s)) + 1
<1>1. PICK n \in Nat, k \in Nat : n = Cardinality(DOMAIN who) /\ k = Cardinality(known)
  BY FS_CardinalityType
<1>2. PICK ts \in Listings(DOMAIN who), rs \in Listings(known) :
          \A i \in DOMAIN ts : who[ts[i]] = rs[((i - 1) % Cardinality(known)) + 1]
  BY DEF RoundRobin
<1>3. /\ rs \in [1 .. k -> known]
      /\ \A i, j \in 1 .. k : rs[i] = rs[j] => i = j
      /\ \A x \in known : \E i \in 1 .. k : rs[i] = x
  BY <1>1, ListingIsBijective
<1>4. ts \in [1 .. n -> DOMAIN who]
  BY <1>1, ListingIsBijective
<1>5. \A i \in 1 .. n : who[ts[i]] = rs[((i - 1) % k) + 1]
  BY <1>1, <1>2, <1>4
<1>6. ASSUME NEW c \in 1 .. k
      PROVE  Turns(who, ts, n, rs[c]) = Nth(n, k, c)
  <2>1. \A i \in 1 .. n : ((i - 1) % k) + 1 \in 1 .. k
    <3> TAKE i \in 1 .. n
    <3>1. i - 1 \in Nat /\ k > 0
      OBVIOUS
    <3>2. (i - 1) % k \in 0 .. k - 1
      BY <3>1, Euclid
    <3> QED BY <3>2
  <2>2. \A i \in 1 .. n : who[ts[i]] = rs[c] <=> ((i - 1) % k) + 1 = c
    BY <1>3, <1>5, <2>1
  <2> QED BY <2>2 DEF Turns, Nth
<1>7. PICK c \in 1 .. k, b \in 1 .. k : rs[c] = r /\ rs[b] = s
  BY <1>3
<1>8. /\ Cardinality(Share(who, r)) = Cardinality(Nth(n, k, c))
      /\ Cardinality(Share(who, s)) = Cardinality(Nth(n, k, b))
  BY <1>1, <1>6, <1>7, ShareCounted
<1> QED BY <1>8, DealtInTurn

\* A non-empty finite set of numbers has a last one.
LEMMA LastOf ==
  ASSUME NEW I \in SUBSET Nat, IsFiniteSet(I), I # {}
  PROVE  \E i \in I : \A j \in I : j <= i
<1> DEFINE After(i) == {j \in I : j > i}
           Tails == {After(i) : i \in I}
<1>1. Tails \subseteq SUBSET I /\ Tails # {}
  OBVIOUS
<1>2. IsWellFoundedOn(StrictSubsetOrdering(I), SUBSET I)
  BY FS_StrictSubsetOrderingWellFounded, FS_FiniteSubsetsOfFinite
<1>3. PICK X \in Tails : \A Y \in Tails : <<Y, X>> \notin StrictSubsetOrdering(I)
  <2> HIDE DEF Tails
  <2> QED BY <1>1, <1>2, WFMin
<1>4. PICK i \in I : X = After(i)
  OBVIOUS
<1>5. ASSUME NEW j \in I, j > i PROVE FALSE
  <2>1. After(j) \in Tails /\ j \in X /\ j \notin After(j)
    BY <1>4, <1>5
  <2>2. After(j) \subseteq X
    <3>1. \A l \in I : l > j => l > i
      BY <1>5
    <3> QED BY <1>4, <3>1
  <2>3. X \in SUBSET I /\ After(j) \in SUBSET I
    BY <1>1
  <2>4. <<After(j), X>> \in StrictSubsetOrdering(I)
    BY <2>1, <2>2, <2>3 DEF StrictSubsetOrdering
  <2> QED BY <1>3, <2>1, <2>4
<1> QED BY <1>5
\* The service's loop: at the last task r is given, nobody has less than r had
\* then, and r gets no more.
LEMMA LeastLoadedIsFair ==
  ASSUME NEW who, IsFiniteSet(DOMAIN who), NEW known, IsFiniteSet(known),
         NEW loads, \A u \in known : loads[u] \in Nat,
         LeastLoaded(loads, who, known), NEW r \in known, NEW s \in known,
         Cardinality(Share(who, r)) > 0
  PROVE  loads[r] + Cardinality(Share(who, r))
             <= loads[s] + Cardinality(Share(who, s)) + 1
<1>1. PICK n \in Nat, k \in Nat : n = Cardinality(DOMAIN who) /\ k = Cardinality(known)
  BY FS_CardinalityType
<1>2. PICK ts \in Listings(DOMAIN who), rs \in Listings(known) :
          \A i \in DOMAIN ts : \E m \in DOMAIN rs :
              /\ who[ts[i]] = rs[m]
              /\ \A l \in DOMAIN rs :
                     LET mine == Busy(loads, who, ts, i, rs[m])
                         other == Busy(loads, who, ts, i, rs[l])
                     IN  IF l < m THEN mine < other ELSE mine <= other
  BY DEF LeastLoaded
<1>3. /\ rs \in [1 .. k -> known]
      /\ \A x \in known : \E i \in 1 .. k : rs[i] = x
      /\ ts \in [1 .. n -> DOMAIN who]
  BY <1>1, ListingIsBijective
<1> DEFINE TurnsOfR == Turns(who, ts, n, r)
           TurnsOfS == Turns(who, ts, n, s)
<1>4. /\ IsFiniteSet(TurnsOfR) /\ Cardinality(Share(who, r)) = Cardinality(TurnsOfR)
      /\ IsFiniteSet(TurnsOfS) /\ Cardinality(Share(who, s)) = Cardinality(TurnsOfS)
  BY <1>1, ShareCounted
<1>5. /\ TurnsOfR # {} /\ TurnsOfR \in SUBSET Nat
      /\ Cardinality(TurnsOfR) \in Nat /\ Cardinality(TurnsOfS) \in Nat
  BY <1>4, FS_EmptySet, FS_CardinalityType DEF Turns
<1>6. PICK i \in TurnsOfR : \A j \in TurnsOfR : j <= i
  <2> HIDE DEF TurnsOfR
  <2> QED BY <1>4, <1>5, LastOf
<1>7. i \in 1 .. n /\ who[ts[i]] = r
  BY DEF Turns
<1> DEFINE Before(u) == {j \in 1 .. i - 1 : who[ts[j]] = u}
<1>8. /\ IsFiniteSet(1 .. i - 1)
      /\ Before(r) \in SUBSET (1 .. i - 1) /\ Before(s) \in SUBSET (1 .. i - 1)
  <2>1. PICK h \in Int : h = i - 1
    BY <1>7
  <2>2. IsFiniteSet(1 .. h)
    BY FS_Interval
  <2> QED BY <2>1, <2>2
<1>9. /\ IsFiniteSet(Before(r)) /\ Cardinality(Before(r)) \in Nat
      /\ IsFiniteSet(Before(s)) /\ Cardinality(Before(s)) \in Nat
  BY <1>8, FS_Subset, FS_CardinalityType
<1>10. TurnsOfR = Before(r) \cup {i} /\ i \notin Before(r)
  <2>1. ASSUME NEW j \in TurnsOfR, j # i PROVE j \in Before(r)
    <3>1. j <= i /\ j \in 1 .. n /\ who[ts[j]] = r
      BY <1>6, <2>1 DEF Turns
    <3>2. j \in 1 .. i - 1
      BY <1>7, <2>1, <3>1
    <3> QED BY <3>1, <3>2
  <2>2. Before(r) \subseteq TurnsOfR
    BY <1>7 DEF Turns
  <2>3. i \notin Before(r)
    BY <1>7
  <2> QED BY <2>1, <2>2, <2>3
<1>11. Cardinality(TurnsOfR) = Cardinality(Before(r)) + 1
  <2> HIDE DEF TurnsOfR, Before
  <2> QED BY <1>9, <1>10, FS_AddElement
<1>12. Cardinality(Before(s)) <= Cardinality(TurnsOfS)
  <2>1. Before(s) \in SUBSET TurnsOfS
    BY <1>7 DEF Turns
  <2> HIDE DEF Before, TurnsOfS
  <2> QED BY <1>4, <2>1, FS_Subset
<1>13. Busy(loads, who, ts, i, r) <= Busy(loads, who, ts, i, s)
  <2>1. PICK m \in 1 .. k :
          /\ rs[m] = r
          /\ \A l \in 1 .. k :
                 IF l < m THEN Busy(loads, who, ts, i, r) < Busy(loads, who, ts, i, rs[l])
                 ELSE Busy(loads, who, ts, i, r) <= Busy(loads, who, ts, i, rs[l])
    BY <1>2, <1>3, <1>7
  <2>2. PICK l \in 1 .. k : rs[l] = s
    BY <1>3
  <2>3. Busy(loads, who, ts, i, r) \in Nat /\ Busy(loads, who, ts, i, s) \in Nat
    BY <1>9 DEF Busy
  <2>4. \/ Busy(loads, who, ts, i, r) < Busy(loads, who, ts, i, s)
        \/ Busy(loads, who, ts, i, r) <= Busy(loads, who, ts, i, s)
    BY <2>1, <2>2
  <2> QED BY <2>3, <2>4
<1>14. loads[r] + Cardinality(Before(r)) <= loads[s] + Cardinality(Before(s))
  BY <1>13 DEF Busy
<1> HIDE DEF TurnsOfR, TurnsOfS, Before
<1>15. loads[r] \in Nat /\ loads[s] \in Nat
  OBVIOUS
<1> QED BY <1>4, <1>5, <1>9, <1>11, <1>12, <1>14, <1>15

\* When the rows a loop has read are current, its commit stores what it
\* computed: pending tasks are assigned as dealt, other tasks stay.
LEMMA DealCommitted ==
  ASSUME Inv, NEW q \in Requests, NEW op, NEW new,
         request[q].rows = tasks, DOMAIN new = Pending(tasks),
         Commit(q, op, new), NEW t \in Tasks
  PROVE  /\ t \in Pending(tasks) =>
                /\ tasks'[t].status = new[t].status
                /\ tasks'[t].user = new[t].user
                /\ tasks'[t].label = new[t].label
         /\ t \notin Pending(tasks) => tasks'[t] = tasks[t]
<1>1. tasks' = [u \in Tasks |->
          IF u \in DOMAIN new THEN Merge(tasks[u], new[u], tasks[u]) ELSE tasks[u]]
  BY DEF Commit
<1>2. t \in Pending(tasks) => tasks'[t] = Merge(tasks[t], new[t], tasks[t])
  BY <1>1
<1>3. t \notin Pending(tasks) => tasks'[t] = tasks[t]
  BY <1>1
<1> QED BY <1>2, <1>3 DEF Merge, Column

\* The route's auto_assign deals labels fairly.
LEMMA LabelsFair ==
  ASSUME Inv, NEW q \in Requests, request[q].rows = tasks, AutoAssign(q),
         NEW r \in request[q].known, NEW s \in request[q].known
  PROVE  Given("label", r) <= Given("label", s) + 1
<1>1. PICK who \in [Pending(tasks) -> request[q].known] :
          /\ RoundRobin(who, request[q].known)
          /\ Commit(q, "auto_labels",
                    [t \in Pending(tasks) |->
                        With(tasks[t], "assigned", tasks[t].user, who[t])])
  BY DEF AutoAssign
<1> DEFINE new == [t \in Pending(tasks) |->
                      With(tasks[t], "assigned", tasks[t].user, who[t])]
<1>2. \A t \in Pending(tasks) : new[t].status = "assigned" /\ new[t].label = who[t]
  BY DEF With
<1>3. DOMAIN new = Pending(tasks) /\ Commit(q, "auto_labels", new)
  BY <1>1
<1> HIDE DEF new
<1>4. DOMAIN tasks = Tasks /\ DOMAIN who = Pending(tasks)
  BY DEF Inv, TypeOK
<1>5. \A t \in Pending(tasks) : tasks'[t].status = "assigned" /\ tasks'[t].label = who[t]
  BY <1>2, <1>3, <1>4, DealCommitted DEF Pending
<1>6. ASSUME NEW u
      PROVE  Given("label", u) = Cardinality(Share(who, u))
  <2>1. {t \in Tasks : tasks[t].status = "pending" /\ tasks'[t].status = "assigned"
                       /\ tasks'[t]["label"] = u} = Share(who, u)
    BY <1>4, <1>5 DEF Share, Pending
  <2> QED BY <2>1 DEF Given
<1>7. IsFiniteSet(DOMAIN who) /\ IsFiniteSet(request[q].known)
  <2>1. DOMAIN who \in SUBSET Tasks /\ request[q].known \in SUBSET Reviewers
    BY <1>4 DEF Pending, Inv, TypeOK, RequestRecords
  <2> QED BY <2>1, FS_Subset, ReviewAssumption
<1>8. PICK known : known = request[q].known
  OBVIOUS
<1> QED BY <1>1, <1>6, <1>7, <1>8, RoundRobinIsFair

\* The service's auto_assign_tasks levels workloads.
LEMMA WorkloadsFair ==
  ASSUME Inv, NEW q \in Requests, request[q].rows = tasks, AutoAssignTasks(q),
         request[q].loads = [u \in Reviewers |-> Load(tasks, u)],
         NEW r \in request[q].known, NEW s \in request[q].known, Given("user", r) > 0
  PROVE  Load(tasks', r) <= Load(tasks', s) + 1
<1>1. PICK who \in [Pending(tasks) -> request[q].known] :
          /\ LeastLoaded(request[q].loads, who, request[q].known)
          /\ Commit(q, "auto_users",
                    [t \in Pending(tasks) |->
                        With(tasks[t], "assigned", who[t], tasks[t].label)])
  BY DEF AutoAssignTasks
<1> DEFINE new == [t \in Pending(tasks) |->
                      With(tasks[t], "assigned", who[t], tasks[t].label)]
<1>2. \A t \in Pending(tasks) : new[t].status = "assigned" /\ new[t].user = who[t]
  BY DEF With
<1>3. DOMAIN new = Pending(tasks) /\ Commit(q, "auto_users", new)
  BY <1>1
<1> HIDE DEF new
<1>4. /\ DOMAIN tasks = Tasks /\ DOMAIN tasks' = Tasks
      /\ DOMAIN who = Pending(tasks) /\ Pending(tasks) \subseteq Tasks
  BY <1>3 DEF Inv, TypeOK, Commit, Pending
<1>5. \A t \in Pending(tasks) : tasks'[t].status = "assigned" /\ tasks'[t].user = who[t]
  BY <1>2, <1>3, <1>4, DealCommitted
<1>6. \A t \in Tasks \ Pending(tasks) : tasks'[t] = tasks[t]
  BY <1>3, DealCommitted
<1>7. IsFiniteSet(DOMAIN who) /\ request[q].known \in SUBSET Reviewers
      /\ IsFiniteSet(request[q].known)
  <2>1. DOMAIN who \in SUBSET Tasks /\ request[q].known \in SUBSET Reviewers
    BY <1>4 DEF Inv, TypeOK, RequestRecords
  <2> QED BY <2>1, FS_Subset, ReviewAssumption
<1>8. ASSUME NEW u
      PROVE  /\ Load(tasks, u) \in Nat
             /\ Cardinality(Share(who, u)) \in Nat
             /\ Load(tasks', u) = Load(tasks, u) + Cardinality(Share(who, u))
  <2> DEFINE Was == {t \in Tasks : tasks[t].user = u /\ tasks[t].status \in Open}
             Is == {t \in Tasks : tasks'[t].user = u /\ tasks'[t].status \in Open}
             Gets == Share(who, u)
  <2>1. Is = Was \cup Gets
    BY <1>4, <1>5, <1>6 DEF Share, Pending, Open
  <2>2. Was \cap Gets = {}
    BY <1>4 DEF Share, Pending, Open
  <2>3. Was \in SUBSET Tasks /\ Gets \in SUBSET Tasks
    BY <1>4 DEF Share
  <2>4. IsFiniteSet(Was) /\ IsFiniteSet(Gets)
    BY <2>3, FS_Subset, ReviewAssumption
  <2>5. Load(tasks, u) = Cardinality(Was) /\ Load(tasks', u) = Cardinality(Is)
    BY <1>4 DEF Load
  <2> HIDE DEF Was, Is, Gets
  <2>6. Cardinality(Was \cup Gets) = Cardinality(Was) + Cardinality(Gets)
                                     - Cardinality({})
    BY <2>2, <2>4, FS_Union
  <2>7. Cardinality(Was) \in Nat /\ Cardinality(Gets) \in Nat
    BY <2>4, FS_CardinalityType
  <2>8. Cardinality({}) = 0
    BY FS_EmptySet
  <2> QED BY <2>1, <2>5, <2>6, <2>7, <2>8 DEF Gets
<1>9. Cardinality(Share(who, r)) > 0
  <2>1. {t \in Tasks : tasks[t].status = "pending" /\ tasks'[t].status = "assigned"
                       /\ tasks'[t]["user"] = r} = Share(who, r)
    BY <1>4, <1>5 DEF Share, Pending
  <2> QED BY <2>1 DEF Given
<1>10. PICK known, loads : known = request[q].known /\ loads = request[q].loads
  OBVIOUS
<1>11. /\ \A u \in known : loads[u] \in Nat
       /\ loads[r] = Load(tasks, r) /\ loads[s] = Load(tasks, s)
  BY <1>7, <1>8, <1>10
<1>12. loads[r] + Cardinality(Share(who, r)) <= loads[s] + Cardinality(Share(who, s)) + 1
  BY <1>1, <1>7, <1>9, <1>10, <1>11, LeastLoadedIsFair
<1>13. /\ Load(tasks', r) = Load(tasks, r) + Cardinality(Share(who, r))
       /\ Load(tasks', s) = Load(tasks, s) + Cardinality(Share(who, s))
  BY <1>8
<1> QED BY <1>11, <1>12, <1>13

\* Both auto-assignments are fair when they decide on current readings: nobody
\* is given a task while another, known to the queue, has two fewer.
THEOREM AssignmentsFair == Spec => FairShare
<1>1. ASSUME Inv, NEW q \in Requests, UpToDate(q),
             NEW r \in request[q].known, NEW s \in request[q].known
      PROVE  /\ AutoAssign(q) => Given("label", r) <= Given("label", s) + 1
             /\ AutoAssignTasks(q) /\ Given("user", r) > 0 =>
                    Load(tasks', r) <= Load(tasks', s) + 1
  <2>1. AutoAssign(q) => Given("label", r) <= Given("label", s) + 1
    BY <1>1, LabelsFair DEF UpToDate
  <2>2. AutoAssignTasks(q) => request[q].call.op = "auto_users"
    BY DEF AutoAssignTasks, Ready
  <2>3. AutoAssignTasks(q) /\ Given("user", r) > 0 =>
            Load(tasks', r) <= Load(tasks', s) + 1
    BY <1>1, <2>2, WorkloadsFair DEF UpToDate
  <2> QED BY <2>1, <2>3
<1>2. Inv => \A q \in Requests : UpToDate(q) =>
          \A r, s \in request[q].known :
              /\ AutoAssign(q) => Given("label", r) <= Given("label", s) + 1
              /\ AutoAssignTasks(q) /\ Given("user", r) > 0 =>
                     Load(tasks', r) <= Load(tasks', s) + 1
  BY <1>1
<1> QED BY <1>2, Invariance, PTL DEF FairShare
=============================================================================
