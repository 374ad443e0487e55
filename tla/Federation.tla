----------------------------- MODULE Federation -----------------------------
(***************************************************************************)
(* One federation of backend/app/services/federated/coordinator.py and the *)
(* routes of api/routes/federated.py, as the rows of models/federated.py.  *)
(*                                                                         *)
(* No handler locks a row.  Each one reads the federation row, then its    *)
(* two collections (three statements under READ COMMITTED, hence three     *)
(* steps), computes on what it read, and commits.  The commit writes only  *)
(* the columns whose value differs from the one that was read, so requests *)
(* in flight together overwrite one another column by column.  The two     *)
(* unique constraints, and an UPDATE that finds no row, roll a request     *)
(* back.                                                                   *)
(*                                                                         *)
(* Epsilon is counted in shares: one share is privacy_budget / max_rounds, *)
(* what a submission spends, so the budget is MaxRounds shares.            *)
(***************************************************************************)
EXTENDS Integers, Sequences, FiniteSets

CONSTANTS
    Sites,            \* identifiers a participant or a submission may carry
    Requests,         \* requests that may be in flight together
    Calls,            \* the calls clients make in this instance
    MinParticipants,  \* Federation.min_participants
    MaxRounds,        \* Federation.total_rounds
    SharesReachBudget,\* does the float sum of MaxRounds shares reach the budget?
                      \* TRUE for 1.0 / 2, FALSE for 0.9 / 3 and for 1.0 / 10
    MaxRows,          \* bound: participant rows ever inserted
    MaxCount,         \* bound: a participant's counters
    MaxShares         \* bound: shares a submission may find spent or spend

FederationStatus ==
    {"waiting", "ready", "training", "paused", "completed", "stopped"}
ParticipantStatus == {"connected", "disconnected", "reconnecting", "removed"}
RoundStatus == {"in_progress", "completed"}

\* What POST .../pause, /resume, /stop and coordinator.stop_federation write.
RequestedStatus == {"paused", "training", "completed", "stopped"}

RoundNumbers == 1 .. MaxRounds

\* What a client may ask of a federation.
Call == [op : {"join"}, site : Sites, status : ParticipantStatus]
           \cup [op : {"start", "retrain"}]
           \cup [op : {"submit"}, site : Sites, round : RoundNumbers]
           \cup [op : {"aggregate"}, round : RoundNumbers]
           \cup [op : {"set"}, status : RequestedStatus]
           \cup [op : {"remove", "reconnect"}, site : Sites]

ASSUME FederationAssumption ==
    /\ MinParticipants \in Nat
    /\ MaxRounds \in Nat
    /\ SharesReachBudget \in BOOLEAN
    /\ Calls \subseteq Call
    /\ MaxRows \in Nat
    /\ MaxCount \in Nat
    /\ MaxShares \in Nat
    /\ IsFiniteSet(Sites)

VARIABLES
    federation,    \* the row of table federations
    participants,  \* site -> row of federation_participants; sites are unique
    rounds,        \* round_number -> row of federation_rounds; numbers are unique
    inserted,      \* participant rows inserted so far: the next primary key
    request        \* what each request in flight has read

vars == <<federation, participants, rounds, inserted, request>>

(***************************************************************************)
(* Rows                                                                    *)
(***************************************************************************)

\* global_model: which round's submissions, and whose, were averaged into it.
NoModel == [round |-> 0, from |-> {}]
Models == [round : 0 .. MaxRounds, from : SUBSET Sites]

FederationRows ==
    [status : FederationStatus, current_round : Nat, spent : Nat, model : Models]

ParticipantRows ==
    [id : Nat, status : ParticipantStatus, rounds : Nat, samples : Nat]

\* updates holds the submitters, in the order their submissions were appended.
RoundRows ==
    [status : RoundStatus, updates : Seq(Sites), received : Nat, spent : Nat]

ParticipantTable(t) ==
    DOMAIN t \subseteq Sites /\ t \in [DOMAIN t -> ParticipantRows]
RoundTable(t) ==
    DOMAIN t \subseteq RoundNumbers /\ t \in [DOMAIN t -> RoundRows]

Submitters(rnd) == {rnd.updates[i] : i \in DOMAIN rnd.updates}

(***************************************************************************)
(* Requests                                                                *)
(***************************************************************************)
NoCall == [op |-> "none"]
Start == [op |-> "start"]
NoTable == [x \in {} |-> x]
BlankRow ==
    [status |-> "waiting", current_round |-> 0, spent |-> 0, model |-> NoModel]

\* A request that has read nothing yet.
Fresh(phase, call) ==
    [phase |-> phase, call |-> call, federation |-> BlankRow,
     participants |-> NoTable, rounds |-> NoTable]
Idle == Fresh("idle", NoCall)

RequestOK(r) ==
    /\ r = [phase |-> r.phase, call |-> r.call, federation |-> r.federation,
            participants |-> r.participants, rounds |-> r.rounds]
    /\ r.phase \in {"idle", "accepted", "row", "members", "loaded"}
    /\ r.call \in Call \cup {NoCall}
    /\ r.federation \in FederationRows
    /\ ParticipantTable(r.participants)
    /\ RoundTable(r.rounds)

\* select(Federation): the federation row, seen by the first statement.
ReadFederation(q, call) ==
    request' = [request EXCEPT ![q] =
                   [Fresh("row", call) EXCEPT !.federation = federation]]

Receive(q) ==
    /\ request[q].phase = "idle"
    /\ \E call \in Calls : ReadFederation(q, call)
    /\ UNCHANGED <<federation, participants, rounds, inserted>>

\* start_round loads again after retrain_federation has committed.
Reload(q) ==
    /\ request[q].phase = "accepted"
    /\ ReadFederation(q, request[q].call)
    /\ UNCHANGED <<federation, participants, rounds, inserted>>

\* selectinload(Federation.participants): a later statement than the row's.
ReadParticipants(q) ==
    /\ request[q].phase = "row"
    /\ request' = [request EXCEPT ![q].phase = "members",
                                  ![q].participants = participants]
    /\ UNCHANGED <<federation, participants, rounds, inserted>>

\* selectinload(Federation.rounds): later again.
ReadRounds(q) ==
    /\ request[q].phase = "members"
    /\ request' = [request EXCEPT ![q].phase = "loaded", ![q].rounds = rounds]
    /\ UNCHANGED <<federation, participants, rounds, inserted>>

\* The handler raised, a constraint refused the commit, or the worker died:
\* the session rolls back and nothing is written.
Rollback(q) ==
    /\ request[q].phase # "idle"
    /\ request' = [request EXCEPT ![q] = Idle]
    /\ UNCHANGED <<federation, participants, rounds, inserted>>

(***************************************************************************)
(* Committing.  read is the value the request loaded, new the one it set.  *)
(***************************************************************************)
Committing(q, op) ==
    /\ request[q].phase = "loaded"
    /\ request[q].call.op = op

Done(q) == request' = [request EXCEPT ![q] = Idle]

\* The unit of work leaves a column out of the UPDATE when it did not change.
Column(read, new, stored) == IF new = read THEN stored ELSE new

\* The row s had when it was read is still there: an UPDATE by primary key
\* that matches no row raises StaleDataError.
RowPresent(read, s) ==
    /\ s \in DOMAIN participants
    /\ participants[s].id = read[s].id

(***************************************************************************)
(* The guards and rows of the handlers, each after its mutants.            *)
(***************************************************************************)

\* is_budget_exhausted: float comparison of the sum of shares to the budget.
BudgetExhausted(spent) ==
    \/ spent > MaxRounds
    \/ spent = MaxRounds /\ SharesReachBudget

\* join_federation and add_participant count the row they are about to insert.
ReachesMinimum(joined) == Cardinality(joined) + 1 >= MinParticipants

JoinedStatus(status, joined) ==
    IF status = "waiting" /\ ReachesMinimum(joined) THEN "ready" ELSE status

\* Mutant of RoundsLeft: <= for <.
RoundsLeftInclusive(current) == current <= MaxRounds

RoundsLeft(current) == current < MaxRounds

NewRound == [status |-> "in_progress", updates |-> <<>>, received |-> 0, spent |-> 0]

\* Mutant of AlreadySubmitted: only the latest submission is compared.
SubmittedLast(rnd, s) ==
    rnd.updates # <<>> /\ rnd.updates[Len(rnd.updates)] = s

AlreadySubmitted(rnd, s) == s \in Submitters(rnd)

\* Mutants of WithUpdate: the counter taken from the stored row; the status
\* written back with the rest.
WithStoredCount(stored, read, s) ==
    [status |-> stored.status, updates |-> Append(read.updates, s),
     received |-> stored.received + 1, spent |-> read.spent + 1]
WithReadStatus(stored, read, s) ==
    [status |-> read.status, updates |-> Append(read.updates, s),
     received |-> Len(read.updates) + 1, spent |-> read.spent + 1]

\* submit_update writes the whole JSON list back, with the submission appended
\* to the list in the row it read; the status column is left as stored.
WithUpdate(stored, read, s) ==
    [status |-> stored.status, updates |-> Append(read.updates, s),
     received |-> Len(read.updates) + 1, spent |-> read.spent + 1]

\* Mutant of NothingToAggregate: the check of aggregate_round is dropped.
NeverNothing(rnd) == FALSE

NothingToAggregate(rnd) == rnd.updates = <<>>

\* join_federation, and add_participant with the status its caller chose.
JoinFederation(q) ==
    LET read == request[q]
        s == read.call.site
        joined == DOMAIN read.participants
        status == JoinedStatus(read.federation.status, joined)
        row == [id |-> inserted, status |-> read.call.status,
                rounds |-> 0, samples |-> 0]
    IN  /\ Committing(q, "join")
        /\ s \notin joined
        /\ s \notin DOMAIN participants  \* uq_federation_participant_site
        /\ inserted < MaxRows
        /\ participants' = [p \in DOMAIN participants \cup {s} |->
                               IF p = s THEN row ELSE participants[p]]
        /\ inserted' = inserted + 1
        /\ federation' = [federation EXCEPT !.status =
                             Column(read.federation.status, status, @)]
        /\ Done(q)
        /\ UNCHANGED rounds

StartRound(q) ==
    LET read == request[q]
        n == read.federation.current_round + 1
    IN  /\ Committing(q, "start")
        /\ Cardinality(DOMAIN read.participants) >= MinParticipants
        /\ RoundsLeft(read.federation.current_round)
        /\ ~BudgetExhausted(read.federation.spent)
        /\ n \notin DOMAIN rounds         \* uq_federation_round_number
        /\ rounds' = [m \in DOMAIN rounds \cup {n} |->
                         IF m = n THEN NewRound ELSE rounds[m]]
        /\ federation' = [federation EXCEPT
                             !.current_round = n,
                             !.status = Column(read.federation.status, "training", @)]
        /\ Done(q)
        /\ UNCHANGED <<participants, inserted>>

\* Neither the status of the round or of the federation nor the membership of
\* the site is checked.
SubmitUpdate(q) ==
    LET read == request[q]
        s == read.call.site
        n == read.call.round
        rnd == read.rounds[n]
        member == s \in DOMAIN read.participants
    IN  /\ Committing(q, "submit")
        /\ n \in DOMAIN read.rounds
        /\ ~AlreadySubmitted(rnd, s)
        /\ read.federation.spent < MaxShares
        /\ member => RowPresent(read.participants, s)
        /\ member => read.participants[s].samples < MaxCount
        /\ rounds' = [rounds EXCEPT ![n] = WithUpdate(@, rnd, s)]
        /\ federation' = [federation EXCEPT !.spent = read.federation.spent + 1]
        /\ participants' =
               IF member
               THEN [participants EXCEPT ![s].samples = read.participants[s].samples + 1]
               ELSE participants
        /\ Done(q)
        /\ UNCHANGED inserted

\* Two averages of the same submitters are the same weights unless one of
\* them resubmitted, so the column may or may not count as changed.
AggregateRound(q) ==
    LET read == request[q]
        n == read.call.round
        rnd == read.rounds[n]
        model == [round |-> n, from |-> Submitters(rnd)]
        contributors == Submitters(rnd) \cap DOMAIN read.participants
    IN  /\ Committing(q, "aggregate")
        /\ n \in DOMAIN read.rounds
        /\ ~NothingToAggregate(rnd)
        /\ \A p \in contributors : /\ RowPresent(read.participants, p)
                                   /\ read.participants[p].rounds < MaxCount
        /\ \E m \in {model, Column(read.federation.model, model, federation.model)} :
               federation' = [federation EXCEPT !.model = m]
        /\ rounds' = [rounds EXCEPT ![n].status = "completed"]
        /\ participants' = [p \in DOMAIN participants |->
               IF p \in contributors
               THEN [participants[p] EXCEPT !.rounds = read.participants[p].rounds + 1]
               ELSE participants[p]]
        /\ Done(q)
        /\ UNCHANGED inserted

\* _set_status and stop_federation: no check of the status that was read.
SetStatus(q) ==
    /\ Committing(q, "set")
    /\ federation' = [federation EXCEPT !.status =
           Column(request[q].federation.status, request[q].call.status, @)]
    /\ Done(q)
    /\ UNCHANGED <<participants, rounds, inserted>>

\* retrain_federation: one commit to leave a finished status, then start_round.
Retrain(q) ==
    LET read == request[q].federation.status
        status == IF read \in {"completed", "stopped"} THEN "ready" ELSE read
    IN  /\ Committing(q, "retrain")
        /\ federation' = [federation EXCEPT !.status = Column(read, status, @)]
        /\ request' = [request EXCEPT ![q] = Fresh("accepted", Start)]
        /\ UNCHANGED <<participants, rounds, inserted>>

\* DELETE by primary key; a row already gone is only a warning.
RemoveParticipant(q) ==
    LET read == request[q]
        s == read.call.site
        gone == IF RowPresent(read.participants, s) THEN {s} ELSE {}
    IN  /\ Committing(q, "remove")
        /\ s \in DOMAIN read.participants
        /\ participants' = [p \in DOMAIN participants \ gone |-> participants[p]]
        /\ Done(q)
        /\ UNCHANGED <<federation, rounds, inserted>>

Reconnect(q) ==
    LET read == request[q].participants
        s == request[q].call.site
    IN  /\ Committing(q, "reconnect")
        /\ s \in DOMAIN read
        /\ RowPresent(read, s)
        /\ participants' = [participants EXCEPT ![s].status =
               Column(read[s].status, "reconnecting", @)]
        /\ Done(q)
        /\ UNCHANGED <<federation, rounds, inserted>>

(***************************************************************************)
(* create_federation has just committed.                                   *)
(***************************************************************************)
Init ==
    /\ federation = BlankRow
    /\ participants = NoTable
    /\ rounds = NoTable
    /\ inserted = 0
    /\ request = [q \in Requests |-> Idle]

Next ==
    \E q \in Requests :
        \/ Receive(q) \/ Reload(q) \/ ReadParticipants(q) \/ ReadRounds(q)
        \/ Rollback(q)
        \/ JoinFederation(q) \/ StartRound(q) \/ SubmitUpdate(q)
        \/ AggregateRound(q) \/ SetStatus(q) \/ Retrain(q)
        \/ RemoveParticipant(q) \/ Reconnect(q)

Spec == Init /\ [][Next]_vars

(***************************************************************************)
(* Properties                                                              *)
(***************************************************************************)

\* Every row has the columns and the types of models/federated.py.
TypeOK ==
    /\ federation \in FederationRows
    /\ ParticipantTable(participants)
    /\ RoundTable(rounds)
    /\ inserted \in Nat
    /\ DOMAIN request = Requests
    /\ \A q \in Requests : RequestOK(request[q])

\* However start_round, retrain and every other request interleave, the
\* rounds on record are exactly 1 .. current_round, and never more than
\* max_rounds: no number is skipped, reused or counted without a row
\* (coordinator.start_round, uq_federation_round_number).
RoundsContiguous ==
    /\ DOMAIN rounds = 1 .. federation.current_round
    /\ federation.current_round <= MaxRounds

\* A site is averaged at most once into a round, although the duplicate check
\* of submit_update looks at a list another request may since have replaced.
Distinct(seq) == \A i, j \in DOMAIN seq : seq[i] = seq[j] => i = j
NoDoubleSubmission == \A n \in DOMAIN rounds : Distinct(rounds[n].updates)

\* updates_received and the round's epsilon agree with the submissions the
\* round holds: the three columns of submit_update never come from different
\* requests.
Consistent(rnd) ==
    rnd.received = Len(rnd.updates) /\ rnd.spent = Len(rnd.updates)
RoundRowConsistent == \A n \in DOMAIN rounds : Consistent(rounds[n])

\* The global model is the average of a round on record as completed, and no
\* round is completed without a submission (aggregate_round: "a round with no
\* submissions raises").
Completed(n) == n \in DOMAIN rounds /\ rounds[n].status = "completed"
ModelFromCompletedRound ==
    /\ federation.model # NoModel =>
           Completed(federation.model.round) /\ federation.model.from # {}
    /\ \A n \in DOMAIN rounds : Completed(n) => rounds[n].updates # <<>>

\* The rounds a request may act on implement the ledger an auditor relies on:
\* opened in order, completed for good, the model that of a completed round.
Ledger == INSTANCE RoundLedger WITH
              opened <- federation.current_round,
              completed <- {n \in DOMAIN rounds : Completed(n)},
              published <- federation.model.round
ImplementsLedger == Ledger!Spec

\* The sum of the epsilon recorded round by round.
RoundsSpent ==
    LET sum[n \in 0 .. MaxRounds] ==
            IF n = 0 THEN 0
            ELSE sum[n - 1] + (IF n \in DOMAIN rounds THEN rounds[n].spent ELSE 0)
    IN  sum[MaxRounds]

\* "Spending is cumulative across rounds": the federation's epsilon is the sum
\* of what its rounds spent (models/federated.py, privacy_epsilon_spent).
SpendingIsCumulative == federation.spent = RoundsSpent

\* "Rounds are the audit trail of a federated run: who contributed [...] They
\* are append-only for that reason" (models/federated.py): a submission that
\* was acknowledged stays on its round's record, in its place.
SubmissionsArePermanent ==
    [][\A n \in DOMAIN rounds :
          /\ n \in DOMAIN rounds'
          /\ Len(rounds[n].updates) <= Len(rounds'[n].updates)
          /\ \A i \in DOMAIN rounds[n].updates :
                rounds'[n].updates[i] = rounds[n].updates[i]]_vars

\* "The budget is what stops a federation training indefinitely" (models/
\* federated.py): no round starts once its shares have been spent, counted
\* exactly as each submission adds one of MaxRounds shares (start_round,
\* "Privacy budget exhausted").
NoRoundPastBudget ==
    [][federation'.current_round > federation.current_round =>
          federation.spent < MaxRounds]_vars
=============================================================================
