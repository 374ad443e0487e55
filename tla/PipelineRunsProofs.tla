------------------------- MODULE PipelineRunsProofs -------------------------
(***************************************************************************)
(* What holds of pipeline runs for any number of requests, workers and     *)
(* faults, and of those that met only some of the faults.                  *)
(*                                                                         *)
(* A worker that loaded "running" writes nothing when it marks the run     *)
(* running, so that a pending run is on its way needs to be told that such *)
(* a worker's run is no longer pending (LoadedLate).  Without lost replies *)
(* and redelivery the place of the message determines the row (Placed):    *)
(* that no ended run moves until then, and that none is pending when a     *)
(* worker records its outcome, makes the rows go through RunLifecycle.     *)
(***************************************************************************)
EXTENDS PipelineRuns, TLAPS

\* The row is committed before the message exists.
Committed ==
    \A r \in Runs :
        /\ endpoint[r] = "none" <=> row[r].status = "absent"
        /\ queue[r] > 0 => endpoint[r] # "none"
        /\ \A w \in Workers :
               /\ Holds(w, r) => endpoint[r] # "none"
               /\ worker[w].phase = "recorded" => worker[w].status \in Terminal

Inv == TypeOK /\ Committed /\ RowCoherent

\* A worker that loaded "running" came to a run that is not pending, and one
\* that executes its run has moved it on.
LoadedLate ==
    \A w \in Workers :
        /\ worker[w].phase = "loaded" /\ worker[w].status # "pending" =>
               row[worker[w].run].status # "pending"
        /\ worker[w].phase = "running" => row[worker[w].run].status # "pending"

\* Without lost replies and redelivery, where the message is tells the row.
Placed ==
    faults.reply = 0 /\ faults.redelivery = 0 => \A r \in Runs :
        /\ endpoint[r] \in {"none", "created", "refused"} =>
               queue[r] = 0 /\ \A w \in Workers : ~Holds(w, r)
        /\ endpoint[r] \in {"created", "refused"} => row[r].status = "pending"
        /\ queue[r] > 0 => row[r].status = "pending"
        /\ \A w \in Workers : Holds(w, r) =>
               /\ worker[w].phase \in {"prefetched", "loaded"} => row[r].status = "pending"
               /\ worker[w].phase = "loaded" => worker[w].status = "pending"
               /\ worker[w].phase = "running" => row[r].status = "running"
               /\ worker[w].phase = "recorded" => row[r].status = worker[w].status
        /\ bell[r] # {} => row[r].status \in Terminal

PlacedInv == Inv /\ RunsOnce /\ Placed /\ BellAgrees
-----------------------------------------------------------------------------
\* Every step keeps the types; the row of a message exists.
LEMMA TypeStep ==
    ASSUME RunsAssumption, TypeOK, Committed, [Next]_vars
    PROVE  TypeOK'
<1>1. ASSUME NEW r \in Runs, CreateRun(r) PROVE TypeOK'
  BY <1>1 DEF CreateRun, TypeOK, Rows
<1>2. ASSUME NEW r \in Runs, Dispatch(r) PROVE TypeOK'
  BY <1>2 DEF Dispatch, TypeOK
<1>3. ASSUME NEW r \in Runs, DispatchRefused(r) PROVE TypeOK'
  BY <1>3 DEF DispatchRefused, TypeOK, AfterRefusal
<1>4. ASSUME NEW r \in Runs, RecordRefusal(r) PROVE TypeOK'
  BY <1>4 DEF RecordRefusal, TypeOK, Rows, Terminal, Refused
<1>5. ASSUME NEW r \in Runs, DispatchReplyLost(r) PROVE TypeOK'
  BY <1>5 DEF DispatchReplyLost, TypeOK, AfterRefusal
<1>6. ASSUME NEW r \in Runs, RequestFails(r) PROVE TypeOK'
  BY <1>6 DEF RequestFails, TypeOK
<1>7. ASSUME NEW w \in Workers, Receive(w) PROVE TypeOK'
  BY <1>7 DEF Receive, TypeOK, Slots
<1>8. ASSUME NEW w \in Workers, Load(w) PROVE TypeOK'
  BY <1>8 DEF Load, TypeOK, Committed, Holds, Rows, Slots
<1>9. ASSUME NEW w \in Workers, MarkRunning(w) PROVE TypeOK'
  BY <1>9 DEF MarkRunning, TypeOK, Rows, Slots
<1>10. ASSUME NEW w \in Workers, Record(w) PROVE TypeOK'
  BY <1>10 DEF Record, TypeOK, Rows, Slots, Recorded
<1>11. ASSUME NEW w \in Workers, Notify(w) PROVE TypeOK'
  <2>1. worker[w].run \in Runs /\ worker[w].status \in Terminal
    BY <1>11 DEF Notify, TypeOK, Committed, Slots
  <2>2. bell' \in [Runs -> SUBSET Terminal]
    BY <1>11, <2>1 DEF Notify, TypeOK, Announced
  <2>3. worker' \in [Workers -> Slots]
    BY <1>11, <2>1 DEF Notify, TypeOK, Slots
  <2>4. QED
    BY <1>11, <2>2, <2>3 DEF Notify, TypeOK
<1>12. ASSUME NEW w \in Workers, Redeliver(w) PROVE TypeOK'
  BY <1>12 DEF Redeliver, TypeOK, Slots
<1>13. ASSUME NEW w \in Workers, WorkerFails(w) PROVE TypeOK'
  <2>1. worker[w].run \in Runs
    BY DEF TypeOK, Slots
  <2>2. queue' \in [Runs -> Nat]
    BY <1>13, <2>1 DEF WorkerFails, TypeOK
  <2>3. worker' \in [Workers -> Slots]
    BY <1>13, <2>1 DEF WorkerFails, TypeOK, Slots
  <2>4. QED
    BY <1>13, <2>2, <2>3 DEF WorkerFails, TypeOK
<1>14. ASSUME UNCHANGED vars PROVE TypeOK'
  BY <1>14 DEF vars, TypeOK
<1>15. QED
  BY <1>1, <1>2, <1>3, <1>4, <1>5, <1>6, <1>7, <1>8, <1>9, <1>10,
     <1>11, <1>12, <1>13, <1>14
     DEF Next, RequestStep, TaskStep

\* No step makes a message before its row.
LEMMA CommittedStep ==
    ASSUME RunsAssumption, TypeOK, Committed, [Next]_vars
    PROVE  Committed'
<1>1. ASSUME NEW r \in Runs, CreateRun(r) PROVE Committed'
  BY <1>1 DEF CreateRun, TypeOK, Committed, Holds
<1>2. ASSUME NEW r \in Runs, Dispatch(r) PROVE Committed'
  BY <1>2 DEF Dispatch, Committed, Holds
<1>3. ASSUME NEW r \in Runs, DispatchRefused(r) PROVE Committed'
  BY <1>3 DEF DispatchRefused, Committed, Holds, AfterRefusal
<1>4. ASSUME NEW r \in Runs, RecordRefusal(r) PROVE Committed'
  BY <1>4 DEF RecordRefusal, Committed, Holds, Refused
<1>5. ASSUME NEW r \in Runs, DispatchReplyLost(r) PROVE Committed'
  BY <1>5 DEF DispatchReplyLost, Committed, Holds, AfterRefusal
<1>6. ASSUME NEW r \in Runs, RequestFails(r) PROVE Committed'
  BY <1>6 DEF RequestFails, Committed, Holds
<1>7. ASSUME NEW w \in Workers, Receive(w) PROVE Committed'
  BY <1>7 DEF Receive, Committed, Holds
<1>8. ASSUME NEW w \in Workers, Load(w) PROVE Committed'
  BY <1>8 DEF Load, Committed, Holds
<1>9. ASSUME NEW w \in Workers, MarkRunning(w) PROVE Committed'
  BY <1>9 DEF MarkRunning, TypeOK, Committed, Holds
<1>10. ASSUME NEW w \in Workers, Record(w) PROVE Committed'
  BY <1>10 DEF Record, Committed, Holds, Terminal, Recorded
<1>11. ASSUME NEW w \in Workers, Notify(w) PROVE Committed'
  BY <1>11 DEF Notify, TypeOK, Committed, Holds, Rows, Slots, Terminal, Announced
<1>12. ASSUME NEW w \in Workers, Redeliver(w) PROVE Committed'
  BY <1>12 DEF Redeliver, Committed, Holds
<1>13. ASSUME NEW w \in Workers, WorkerFails(w) PROVE Committed'
  BY <1>13 DEF WorkerFails, TypeOK, Committed, Holds
<1>14. ASSUME UNCHANGED vars PROVE Committed'
  BY <1>14 DEF vars, Committed, Holds
<1>15. QED
  BY <1>1, <1>2, <1>3, <1>4, <1>5, <1>6, <1>7, <1>8, <1>9, <1>10,
     <1>11, <1>12, <1>13, <1>14
     DEF Next, RequestStep, TaskStep

\* Both writers of a row write its status and its results together.
LEMMA CoherentStep ==
    ASSUME RunsAssumption, TypeOK, RowCoherent, [Next]_vars
    PROVE  RowCoherent'
<1>1. ASSUME NEW r \in Runs, CreateRun(r) PROVE RowCoherent'
  BY <1>1 DEF CreateRun, RowCoherent
<1>2. ASSUME NEW r \in Runs, Dispatch(r) PROVE RowCoherent'
  BY <1>2 DEF Dispatch, RowCoherent
<1>3. ASSUME NEW r \in Runs, DispatchRefused(r) PROVE RowCoherent'
  BY <1>3 DEF DispatchRefused, RowCoherent, AfterRefusal
<1>4. ASSUME NEW r \in Runs, RecordRefusal(r) PROVE RowCoherent'
  BY <1>4 DEF RecordRefusal, RowCoherent, Refused
<1>5. ASSUME NEW r \in Runs, DispatchReplyLost(r) PROVE RowCoherent'
  BY <1>5 DEF DispatchReplyLost, RowCoherent, AfterRefusal
<1>6. ASSUME NEW r \in Runs, RequestFails(r) PROVE RowCoherent'
  BY <1>6 DEF RequestFails, RowCoherent
<1>7. ASSUME NEW w \in Workers, Receive(w) PROVE RowCoherent'
  BY <1>7 DEF Receive, RowCoherent
<1>8. ASSUME NEW w \in Workers, Load(w) PROVE RowCoherent'
  BY <1>8 DEF Load, RowCoherent
<1>9. ASSUME NEW w \in Workers, MarkRunning(w) PROVE RowCoherent'
  <2>1. CASE worker[w].status = "running"
    BY <1>9, <2>1 DEF MarkRunning, RowCoherent
  <2>2. CASE worker[w].status # "running"
    <3>1. worker[w].run \in Runs
      BY DEF TypeOK, Slots
    <3>2. row' = [row EXCEPT ![worker[w].run] =
                     [status |-> "running", results |-> row[worker[w].run].results]]
      BY <1>9, <2>2 DEF MarkRunning
    <3>3. \A r \in Runs : row'[r] = row[r] \/ row'[r].status = "running"
      BY <3>1, <3>2 DEF TypeOK
    <3>4. QED
      BY <3>3 DEF RowCoherent
  <2>3. QED
    BY <2>1, <2>2
<1>10. ASSUME NEW w \in Workers, Record(w) PROVE RowCoherent'
  BY <1>10 DEF Record, RowCoherent, Terminal, Recorded
<1>11. ASSUME NEW w \in Workers, Notify(w) PROVE RowCoherent'
  BY <1>11 DEF Notify, RowCoherent, Announced
<1>12. ASSUME NEW w \in Workers, Redeliver(w) PROVE RowCoherent'
  BY <1>12 DEF Redeliver, RowCoherent
<1>13. ASSUME NEW w \in Workers, WorkerFails(w) PROVE RowCoherent'
  BY <1>13 DEF WorkerFails, RowCoherent
<1>14. ASSUME UNCHANGED vars PROVE RowCoherent'
  BY <1>14 DEF vars, RowCoherent
<1>15. QED
  BY <1>1, <1>2, <1>3, <1>4, <1>5, <1>6, <1>7, <1>8, <1>9, <1>10,
     <1>11, <1>12, <1>13, <1>14
     DEF Next, RequestStep, TaskStep

LEMMA InvStep ==
    ASSUME RunsAssumption, Inv, [Next]_vars
    PROVE  Inv'
BY TypeStep, CommittedStep, CoherentStep DEF Inv

LEMMA InvInit ==
    ASSUME RunsAssumption, Init
    PROVE  Inv
BY DEF Init, Inv, RunsAssumption, TypeOK, Committed, RowCoherent, Holds, Rows, Slots, Terminal

\* The types, the order of commit and message, and coherent rows, whatever
\* goes wrong.
THEOREM Invariance == Spec => []Inv
<1>1. Init => Inv
  BY InvInit, RunsAssumption
<1>2. Inv /\ [Next]_vars => Inv'
  BY InvStep, RunsAssumption
<1>3. QED
  BY <1>1, <1>2, PTL DEF Spec

\* Rows, requests, messages and workers keep their types (models/pipeline.py).
THEOREM TypeCorrect == Spec => []TypeOK
<1>1. Inv => TypeOK
  BY DEF Inv
<1>2. QED
  BY <1>1, Invariance, PTL

\* The row of an ended run is one writer's account, under every fault
\* (_queue_run, _run_pipeline).
THEOREM CoherentRows == Spec => []RowCoherent
<1>1. Inv => RowCoherent
  BY DEF Inv
<1>2. QED
  BY <1>1, Invariance, PTL

\* Without crashes, whoever takes charge of a pending run does so before the
\* last one lets it go.
LEMMA OnItsWayStep ==
    ASSUME RunsAssumption, Inv, LoadedLate, PendingIsOnItsWay, [Next]_vars
    PROVE  (LoadedLate /\ PendingIsOnItsWay)'
<1>1. ASSUME NEW r \in Runs, CreateRun(r) PROVE (LoadedLate /\ PendingIsOnItsWay)'
  BY <1>1 DEF CreateRun, Inv, TypeOK, Committed, LoadedLate, PendingIsOnItsWay, Holds
<1>2. ASSUME NEW r \in Runs, Dispatch(r) PROVE (LoadedLate /\ PendingIsOnItsWay)'
  BY <1>2 DEF Dispatch, Inv, TypeOK, LoadedLate, PendingIsOnItsWay, Holds
<1>3. ASSUME NEW r \in Runs, DispatchRefused(r) PROVE (LoadedLate /\ PendingIsOnItsWay)'
  BY <1>3 DEF DispatchRefused, LoadedLate, PendingIsOnItsWay, Holds, AfterRefusal
<1>4. ASSUME NEW r \in Runs, RecordRefusal(r) PROVE (LoadedLate /\ PendingIsOnItsWay)'
  BY <1>4 DEF RecordRefusal, Inv, TypeOK, LoadedLate, PendingIsOnItsWay, Holds, Refused
<1>5. ASSUME NEW r \in Runs, DispatchReplyLost(r) PROVE (LoadedLate /\ PendingIsOnItsWay)'
  BY <1>5 DEF DispatchReplyLost, LoadedLate, PendingIsOnItsWay, Holds, AfterRefusal
<1>6. ASSUME NEW r \in Runs, RequestFails(r) PROVE (LoadedLate /\ PendingIsOnItsWay)'
  BY <1>6 DEF RequestFails, Inv, TypeOK, LoadedLate, PendingIsOnItsWay
<1>7. ASSUME NEW w \in Workers, Receive(w) PROVE (LoadedLate /\ PendingIsOnItsWay)'
  BY <1>7 DEF Receive, Inv, TypeOK, LoadedLate, PendingIsOnItsWay, Holds
<1>8. ASSUME NEW w \in Workers, Load(w) PROVE (LoadedLate /\ PendingIsOnItsWay)'
  BY <1>8 DEF Load, LoadedLate, PendingIsOnItsWay, Holds
<1>9. ASSUME NEW w \in Workers, MarkRunning(w) PROVE (LoadedLate /\ PendingIsOnItsWay)'
  <2> DEFINE rr == worker[w].run
  <2>1. rr \in Runs /\ worker[w].phase = "loaded"
    BY <1>9 DEF MarkRunning, Inv, TypeOK, Slots
  <2>2. row'[rr].status # "pending" /\ \A r \in Runs \ {rr} : row'[r] = row[r]
    <3>1. CASE worker[w].status = "running"
      BY <1>9, <2>1, <3>1 DEF MarkRunning, LoadedLate
    <3>2. CASE worker[w].status # "running"
      BY <1>9, <2>1, <3>2 DEF MarkRunning, Inv, TypeOK
    <3>3. QED
      BY <3>1, <3>2
  <2>3. /\ worker'[w].phase = "running" /\ worker'[w].run = rr
        /\ \A v \in Workers \ {w} : worker'[v] = worker[v] /\ worker[v].run \in Runs
        /\ UNCHANGED <<endpoint, queue, faults>>
    BY <1>9 DEF MarkRunning, Inv, TypeOK, Slots
  <2>4. LoadedLate'
    <3>1. \A v \in Workers \ {w} :
              worker[v].run = rr \/ row'[worker[v].run] = row[worker[v].run]
      BY <2>2, <2>3
    <3> HIDE DEF rr
    <3>2. QED
      BY <2>2, <2>3, <3>1 DEF LoadedLate
  <2>5. PendingIsOnItsWay'
    <3>1. SUFFICES ASSUME NEW r \in Runs, row'[r].status = "pending", faults.crash = 0
                   PROVE  \/ endpoint[r] \in {"created", "refused"}
                          \/ queue[r] > 0
                          \/ \E v \in Workers : Holds(v, r)' /\
                                worker'[v].phase \in {"prefetched", "loaded"}
      BY <2>3 DEF PendingIsOnItsWay
    <3>2. r # rr /\ row[r].status = "pending" /\ faults.crash = 0
      BY <2>2, <3>1
    <3>3. ASSUME NEW v \in Workers, Holds(v, r)
          PROVE  v # w /\ worker'[v] = worker[v]
      BY <2>3, <3>2, <3>3 DEF Holds
    <3>4. QED
      BY <3>2, <3>3 DEF PendingIsOnItsWay, Holds
  <2>6. QED
    BY <2>4, <2>5
<1>10. ASSUME NEW w \in Workers, Record(w) PROVE (LoadedLate /\ PendingIsOnItsWay)'
  BY <1>10 DEF Record, LoadedLate, PendingIsOnItsWay, Holds, Terminal, Recorded
<1>11. ASSUME NEW w \in Workers, Notify(w) PROVE (LoadedLate /\ PendingIsOnItsWay)'
  BY <1>11 DEF Notify, LoadedLate, PendingIsOnItsWay, Holds, Announced
<1>12. ASSUME NEW w \in Workers, Redeliver(w) PROVE (LoadedLate /\ PendingIsOnItsWay)'
  BY <1>12 DEF Redeliver, LoadedLate, PendingIsOnItsWay, Holds
<1>13. ASSUME NEW w \in Workers, WorkerFails(w) PROVE (LoadedLate /\ PendingIsOnItsWay)'
  BY <1>13 DEF WorkerFails, Inv, TypeOK, LoadedLate, PendingIsOnItsWay
<1>14. ASSUME UNCHANGED vars PROVE (LoadedLate /\ PendingIsOnItsWay)'
  BY <1>14 DEF vars, LoadedLate, PendingIsOnItsWay, Holds
<1>15. QED
  BY <1>1, <1>2, <1>3, <1>4, <1>5, <1>6, <1>7, <1>8, <1>9, <1>10,
     <1>11, <1>12, <1>13, <1>14
     DEF Next, RequestStep, TaskStep

\* Without redelivery, a step moves the only message of a run or consumes it.
LEMMA OnceStep ==
    ASSUME RunsAssumption, TypeOK, RunsOnce, [Next]_vars
    PROVE  RunsOnce'
<1>1. ASSUME NEW r \in Runs, CreateRun(r) PROVE RunsOnce'
  BY <1>1 DEF CreateRun, RunsOnce, Holds
<1>2. ASSUME NEW r \in Runs, Dispatch(r) PROVE RunsOnce'
  BY <1>2 DEF Dispatch, TypeOK, RunsOnce, Holds
<1>3. ASSUME NEW r \in Runs, DispatchRefused(r) PROVE RunsOnce'
  BY <1>3 DEF DispatchRefused, RunsOnce, Holds, AfterRefusal
<1>4. ASSUME NEW r \in Runs, RecordRefusal(r) PROVE RunsOnce'
  BY <1>4 DEF RecordRefusal, RunsOnce, Holds, Refused
<1>5. ASSUME NEW r \in Runs, DispatchReplyLost(r) PROVE RunsOnce'
  BY <1>5 DEF DispatchReplyLost, TypeOK, RunsOnce, Holds, AfterRefusal
<1>6. ASSUME NEW r \in Runs, RequestFails(r) PROVE RunsOnce'
  BY <1>6 DEF RequestFails, RunsOnce, Holds
<1>7. ASSUME NEW w \in Workers, Receive(w) PROVE RunsOnce'
  BY <1>7 DEF Receive, TypeOK, RunsOnce, Holds
<1>8. ASSUME NEW w \in Workers, Load(w) PROVE RunsOnce'
  BY <1>8 DEF Load, RunsOnce, Holds
<1>9. ASSUME NEW w \in Workers, MarkRunning(w) PROVE RunsOnce'
  BY <1>9 DEF MarkRunning, RunsOnce, Holds
<1>10. ASSUME NEW w \in Workers, Record(w) PROVE RunsOnce'
  BY <1>10 DEF Record, RunsOnce, Holds, Recorded
<1>11. ASSUME NEW w \in Workers, Notify(w) PROVE RunsOnce'
  BY <1>11 DEF Notify, RunsOnce, Holds, Announced
<1>12. ASSUME NEW w \in Workers, Redeliver(w) PROVE RunsOnce'
  BY <1>12 DEF Redeliver, TypeOK, RunsOnce
<1>13. ASSUME NEW w \in Workers, WorkerFails(w) PROVE RunsOnce'
  BY <1>13 DEF WorkerFails, TypeOK, RunsOnce, Holds
<1>14. ASSUME UNCHANGED vars PROVE RunsOnce'
  BY <1>14 DEF vars, RunsOnce, Holds
<1>15. QED
  BY <1>1, <1>2, <1>3, <1>4, <1>5, <1>6, <1>7, <1>8, <1>9, <1>10,
     <1>11, <1>12, <1>13, <1>14
     DEF Next, RequestStep, TaskStep

\* Without lost replies and redelivery, the message and the row move together.
LEMMA PlacedStep ==
    ASSUME RunsAssumption, Inv, RunsOnce, Placed, [Next]_vars
    PROVE  Placed'
<1>1. ASSUME NEW r \in Runs, CreateRun(r) PROVE Placed'
  BY <1>1 DEF CreateRun, Inv, TypeOK, Committed, Placed, Holds, Terminal
<1>2. ASSUME NEW r \in Runs, Dispatch(r) PROVE Placed'
  BY <1>2 DEF Dispatch, Inv, TypeOK, Placed, Holds
<1>3. ASSUME NEW r \in Runs, DispatchRefused(r) PROVE Placed'
  BY <1>3 DEF DispatchRefused, Placed, Holds, AfterRefusal
<1>4. ASSUME NEW r \in Runs, RecordRefusal(r) PROVE Placed'
  BY <1>4 DEF RecordRefusal, Inv, TypeOK, Placed, Holds, Terminal, Refused
<1>5. ASSUME NEW r \in Runs, DispatchReplyLost(r) PROVE Placed'
  BY <1>5 DEF DispatchReplyLost, Inv, TypeOK, Placed
<1>6. ASSUME NEW r \in Runs, RequestFails(r) PROVE Placed'
  BY <1>6 DEF RequestFails, Placed, Holds
<1>7. ASSUME NEW w \in Workers, Receive(w) PROVE Placed'
  BY <1>7 DEF Receive, Inv, TypeOK, Committed, RunsOnce, Placed, Holds, Rows, Slots, Terminal
<1>8. ASSUME NEW w \in Workers, Load(w) PROVE Placed'
  BY <1>8 DEF Load, Inv, TypeOK, Committed, RunsOnce, Placed, Holds, Rows, Slots, Terminal
<1>9. ASSUME NEW w \in Workers, MarkRunning(w) PROVE Placed'
  BY <1>9 DEF MarkRunning, Inv, TypeOK, Committed, RunsOnce, Placed, Holds, Rows, Slots, Terminal
<1>10. ASSUME NEW w \in Workers, Record(w) PROVE Placed'
  BY <1>10 DEF Record, Inv, TypeOK, RunsOnce, Placed, Holds, Recorded
<1>11. ASSUME NEW w \in Workers, Notify(w) PROVE Placed'
  BY <1>11 DEF Notify, Inv, TypeOK, Committed, Placed, Holds, Announced
<1>12. ASSUME NEW w \in Workers, Redeliver(w) PROVE Placed'
  BY <1>12 DEF Redeliver, Inv, TypeOK, Placed
<1>13. ASSUME NEW w \in Workers, WorkerFails(w) PROVE Placed'
  BY <1>13 DEF WorkerFails, Inv, TypeOK, Placed, Holds
<1>14. ASSUME UNCHANGED vars PROVE Placed'
  BY <1>14 DEF vars, Inv, TypeOK, Committed, RunsOnce, Placed, Holds, Rows, Slots, Terminal
<1>15. QED
  BY <1>1, <1>2, <1>3, <1>4, <1>5, <1>6, <1>7, <1>8, <1>9, <1>10,
     <1>11, <1>12, <1>13, <1>14
     DEF Next, RequestStep, TaskStep

\* The bell is rung with the outcome on the row, and the row keeps it.
LEMMA BellStep ==
    ASSUME RunsAssumption, Inv, RunsOnce, Placed, BellAgrees,
           [Next]_vars
    PROVE  BellAgrees'
<1>1. ASSUME NEW r \in Runs, CreateRun(r) PROVE BellAgrees'
  BY <1>1 DEF CreateRun, Inv, Committed, Placed, BellAgrees, Terminal
<1>2. ASSUME NEW r \in Runs, Dispatch(r) PROVE BellAgrees'
  BY <1>2 DEF Dispatch, BellAgrees
<1>3. ASSUME NEW r \in Runs, DispatchRefused(r) PROVE BellAgrees'
  BY <1>3 DEF DispatchRefused, BellAgrees, AfterRefusal
<1>4. ASSUME NEW r \in Runs, RecordRefusal(r) PROVE BellAgrees'
  BY <1>4 DEF RecordRefusal, Placed, BellAgrees, Terminal, Refused
<1>5. ASSUME NEW r \in Runs, DispatchReplyLost(r) PROVE BellAgrees'
  BY <1>5 DEF DispatchReplyLost, Inv, TypeOK, BellAgrees
<1>6. ASSUME NEW r \in Runs, RequestFails(r) PROVE BellAgrees'
  BY <1>6 DEF RequestFails, BellAgrees
<1>7. ASSUME NEW w \in Workers, Receive(w) PROVE BellAgrees'
  BY <1>7 DEF Receive, BellAgrees
<1>8. ASSUME NEW w \in Workers, Load(w) PROVE BellAgrees'
  BY <1>8 DEF Load, BellAgrees
<1>9. ASSUME NEW w \in Workers, MarkRunning(w) PROVE BellAgrees'
  BY <1>9 DEF MarkRunning, Inv, TypeOK, Placed, BellAgrees, Holds, Terminal
<1>10. ASSUME NEW w \in Workers, Record(w) PROVE BellAgrees'
  BY <1>10 DEF Record, Placed, BellAgrees, Holds, Terminal, Recorded
<1>11. ASSUME NEW w \in Workers, Notify(w) PROVE BellAgrees'
  BY <1>11 DEF Notify, Inv, TypeOK, Placed, BellAgrees, Holds, Announced
<1>12. ASSUME NEW w \in Workers, Redeliver(w) PROVE BellAgrees'
  BY <1>12 DEF Redeliver, Inv, TypeOK, BellAgrees
<1>13. ASSUME NEW w \in Workers, WorkerFails(w) PROVE BellAgrees'
  BY <1>13 DEF WorkerFails, BellAgrees
<1>14. ASSUME UNCHANGED vars PROVE BellAgrees'
  BY <1>14 DEF vars, BellAgrees
<1>15. QED
  BY <1>1, <1>2, <1>3, <1>4, <1>5, <1>6, <1>7, <1>8, <1>9, <1>10,
     <1>11, <1>12, <1>13, <1>14
     DEF Next, RequestStep, TaskStep

LEMMA PlacedInit ==
    ASSUME RunsAssumption, Init
    PROVE  LoadedLate /\ PendingIsOnItsWay /\ RunsOnce /\ Placed /\ BellAgrees
BY DEF Init, LoadedLate, PendingIsOnItsWay, RunsOnce, Placed, BellAgrees, Holds

\* No pending run is forgotten while nothing crashes, even when replies are
\* lost and messages delivered again (_queue_run, _run_pipeline).
THEOREM NoRunForgotten == Spec => []PendingIsOnItsWay
<1> DEFINE I == Inv /\ LoadedLate /\ PendingIsOnItsWay
<1>1. Init => I
  BY InvInit, PlacedInit, RunsAssumption
<1>2. I /\ [Next]_vars => I'
  BY InvStep, OnItsWayStep, RunsAssumption
<1>3. I => PendingIsOnItsWay
  OBVIOUS
<1>4. QED
  BY <1>1, <1>2, <1>3, PTL DEF Spec

\* Without redelivery every run has at most one message or worker, even when
\* its request thinks the broker refused it (dispatch).
THEOREM ExecutedOnce == Spec => []RunsOnce
<1> DEFINE I == Inv /\ RunsOnce
<1>1. Init => I
  BY InvInit, PlacedInit, RunsAssumption
<1>2. I /\ [Next]_vars => I'
  BY InvStep, OnceStep, RunsAssumption DEF Inv
<1>3. I => RunsOnce
  OBVIOUS
<1>4. QED
  BY <1>1, <1>2, <1>3, PTL DEF Spec

LEMMA PlacedInvariance == Spec => []PlacedInv
<1>1. Init => PlacedInv
  BY InvInit, PlacedInit, RunsAssumption DEF PlacedInv
<1>2. PlacedInv /\ [Next]_vars => PlacedInv'
  BY InvStep, OnceStep, PlacedStep, BellStep, RunsAssumption DEF PlacedInv, Inv
<1>3. QED
  BY <1>1, <1>2, PTL DEF Spec

\* With no lost reply and no redelivery, the bell says what the row says, from
\* the moment it rings (_notify_finished).
THEOREM BellTellsTheRow == Spec => []BellAgrees
<1>1. PlacedInv => BellAgrees
  BY DEF PlacedInv
<1>2. QED
  BY <1>1, PlacedInvariance, PTL

Status == [r \in Runs |-> row[r].status]

\* A row that moves along one edge of the lifecycle is an abstract step.
LEMMA MoveIsNext ==
    ASSUME NEW r \in Runs, NEW to \in {"pending", "running", "completed", "failed"},
           row \in [Runs -> Rows], row' = [row EXCEPT ![r] = row'[r]],
           row'[r].status = to, UNCHANGED Mishaps,
           \/ row[r].status = "absent" /\ to = "pending"
           \/ row[r].status = "pending" /\ to \in {"running", "failed"}
           \/ row[r].status = "running" /\ to \in Terminal
           \/ /\ "repeat" \in Mishaps
              /\ row[r].status \in Terminal /\ to \in {"running"} \cup Terminal
    PROVE  Lifecycle!Next
<1>1. [q \in Runs |-> row'[q].status] = [Status EXCEPT ![r] = to]
  BY DEF Status
<1>2. Status[r] = row[r].status
  BY DEF Status
<1>3. Lifecycle!Move(r, row[r].status, to)
  BY <1>1, <1>2 DEF Status, Lifecycle!Move
<1>4. QED
  BY <1>3 DEF Terminal, Lifecycle!Next, Lifecycle!Create, Lifecycle!Start,
     Lifecycle!Refuse, Lifecycle!Finish, Lifecycle!Again, Lifecycle!Terminal

\* Until a reply is lost or a message comes twice nothing has repeated.
LEMMA NothingRepeated ==
    ASSUME TypeOK, "repeat" \notin Mishaps
    PROVE  faults.reply = 0 /\ faults.redelivery = 0
  BY RunsAssumption DEF Mishaps, TypeOK

\* A fault is a mishap of the lifecycle, and moves no row.
LEMMA FaultIsNext ==
    ASSUME TypeOK, UNCHANGED row,
           \/ faults' = [faults EXCEPT !.reply = @ + 1]
           \/ faults' = [faults EXCEPT !.redelivery = @ + 1]
           \/ faults' = [faults EXCEPT !.crash = @ + 1]
    PROVE  Lifecycle!Next
<1>1. /\ faults.reply \in Nat /\ faults.redelivery \in Nat /\ faults.crash \in Nat
      /\ faults = [reply |-> faults.reply, redelivery |-> faults.redelivery,
                   crash |-> faults.crash]
  BY RunsAssumption DEF TypeOK
<1>2. \/ Mishaps' = Mishaps \cup {"repeat"}
      \/ Mishaps' = Mishaps \cup {"crash"}
  BY <1>1 DEF Mishaps
<1>3. QED
  BY <1>2 DEF Lifecycle!Next, Lifecycle!Mishap

LEMMA LifecycleStep ==
    ASSUME RunsAssumption, PlacedInv, LoadedLate, [Next]_vars
    PROVE  Lifecycle!Next \/ UNCHANGED <<Status, Mishaps>>
<1> USE DEF PlacedInv, Inv
<1>1. ASSUME NEW r \in Runs, CreateRun(r) PROVE Lifecycle!Next
  <2>1. /\ row[r].status = "absent"
        /\ row' = [row EXCEPT ![r] = row'[r]]
        /\ row'[r].status = "pending"
    BY <1>1 DEF CreateRun, TypeOK, Committed
  <2>2. UNCHANGED Mishaps
    BY <1>1 DEF CreateRun, Mishaps
  <2>3. QED
    BY <2>1, <2>2, MoveIsNext DEF TypeOK
<1>2. ASSUME NEW r \in Runs, RecordRefusal(r) PROVE Lifecycle!Next
  <2>1. /\ row' = [row EXCEPT ![r] = row'[r]]
        /\ row'[r].status = "failed"
        /\ row[r].status \in {"pending", "running"} \cup Terminal
    BY <1>2 DEF RecordRefusal, Refused, TypeOK, Committed, Rows
  <2>2. row[r].status = "pending" \/ "repeat" \in Mishaps
    BY <1>2, NothingRepeated DEF RecordRefusal, Placed
  <2>3. UNCHANGED Mishaps
    BY <1>2 DEF RecordRefusal, Mishaps
  <2>4. "failed" \in Terminal
    BY DEF Terminal
  <2>5. QED
    BY <2>1, <2>2, <2>3, <2>4, MoveIsNext DEF TypeOK
<1>3. ASSUME NEW w \in Workers, MarkRunning(w), row' # row
      PROVE  Lifecycle!Next \/ UNCHANGED <<Status, Mishaps>>
  <2> DEFINE r == worker[w].run
  <2>1. r \in Runs /\ worker[w].phase = "loaded" /\ worker[w].status # "running"
    BY <1>3 DEF MarkRunning, TypeOK, Slots
  <2>2. row' = [row EXCEPT ![r] = row'[r]] /\ row'[r].status = "running"
    BY <1>3, <2>1 DEF MarkRunning, TypeOK
  <2>3. row[r].status \in {"pending", "running"} \cup Terminal
    BY <2>1 DEF Committed, Holds, TypeOK, Rows
  <2>4. row[r].status = "pending" \/ "repeat" \in Mishaps
    BY <2>1, NothingRepeated DEF Placed, Holds
  <2>5. UNCHANGED Mishaps
    BY <1>3 DEF MarkRunning, Mishaps
  <2>6. CASE row[r].status = "running"
    <3>1. UNCHANGED Status
      BY <2>1, <2>2, <2>6 DEF Status, TypeOK
    <3>2. QED
      BY <2>5, <3>1
  <2>7. CASE row[r].status # "running"
    <3> HIDE DEF r
    <3>1. QED
      BY <2>1, <2>2, <2>3, <2>4, <2>5, <2>7, MoveIsNext DEF TypeOK
  <2>8. QED
    BY <2>6, <2>7
<1>4. ASSUME NEW w \in Workers, Record(w) PROVE Lifecycle!Next
  <2> DEFINE r == worker[w].run
  <2>1. r \in Runs /\ worker[w].phase = "running"
    BY <1>4 DEF Record, TypeOK, Slots
  <2>2. PICK outcome \in Terminal :
           row' = [row EXCEPT ![r] = [status |-> outcome, results |-> outcome]]
    BY <1>4 DEF Record, Recorded
  <2>3. row' = [row EXCEPT ![r] = row'[r]] /\ row'[r].status = outcome
    BY <2>1, <2>2 DEF TypeOK
  <2>4. row[r].status \in {"running"} \cup Terminal
    BY <2>1 DEF LoadedLate, Committed, Holds, TypeOK, Rows
  <2>5. row[r].status = "running" \/ "repeat" \in Mishaps
    BY <2>1, NothingRepeated DEF Placed, Holds
  <2>6. UNCHANGED Mishaps
    BY <1>4 DEF Record, Mishaps
  <2>7. outcome \in {"pending", "running", "completed", "failed"}
    BY DEF Terminal
  <2> HIDE DEF r
  <2>8. QED
    BY <2>1, <2>3, <2>4, <2>5, <2>6, <2>7, MoveIsNext DEF TypeOK
<1>5. ASSUME NEW r \in Runs, DispatchReplyLost(r) \/ RequestFails(r)
      PROVE  Lifecycle!Next
  BY <1>5, FaultIsNext DEF DispatchReplyLost, RequestFails
<1>6. ASSUME NEW w \in Workers, Redeliver(w) \/ WorkerFails(w)
      PROVE  Lifecycle!Next
  BY <1>6, FaultIsNext DEF Redeliver, WorkerFails
<1>7. CASE UNCHANGED <<row, faults>>
  BY <1>7 DEF Status, Mishaps
<1>8. QED
  BY <1>1, <1>2, <1>3, <1>4, <1>5, <1>6, <1>7 DEF Next, RequestStep, TaskStep, vars,
     Dispatch, DispatchRefused, Receive, Load, MarkRunning, Notify

\* Whatever goes wrong, rows go through the promised lifecycle (docs/
\* persistence.md "Background work"): an ended run stays as it is until a reply
\* is lost or a message comes twice, and is never absent or pending again.
THEOREM LifecycleImplemented == Spec => LifecycleSafety
<1> DEFINE I == PlacedInv /\ LoadedLate /\ PendingIsOnItsWay
<1>1. Init => I
  BY InvInit, PlacedInit, RunsAssumption DEF PlacedInv
<1>2. I /\ [Next]_vars => I'
  BY InvStep, OnceStep, PlacedStep, BellStep, OnItsWayStep, RunsAssumption
     DEF PlacedInv, Inv
<1>3. Init => Lifecycle!Init
  BY DEF Init, Lifecycle!Init, Mishaps
<1>4. I /\ [Next]_vars => [Lifecycle!Next]_<<Status, Mishaps>>
  BY LifecycleStep, RunsAssumption
<1>5. QED
  BY <1>1, <1>2, <1>3, <1>4, PTL
     DEF Spec, LifecycleSafety, Lifecycle!Safety, Lifecycle!vars, Status
=============================================================================
