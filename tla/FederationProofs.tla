-------------------------- MODULE FederationProofs --------------------------
(***************************************************************************)
(* The safety of Federation for any sites, any number of requests in       *)
(* flight and any max_rounds.                                              *)
(*                                                                         *)
(* RoundsContiguous is not inductive: start_round computes the number of   *)
(* the new round from a row read earlier.  The strengthening says that     *)
(* what a request has read can only lag behind what is stored (Lags), and  *)
(* that the rows it has read are themselves well formed.                   *)
(*                                                                         *)
(* The last part is about behaviours whose requests do not overlap         *)
(* (Serial), which nothing in the code enforces: it shows where the epsilon*)
(* that the violation run loses is lost, not that it is safe.              *)
(***************************************************************************)
EXTENDS Federation, TLAPS

RowOK(rnd) ==
    /\ Distinct(rnd.updates)
    /\ Consistent(rnd)
    /\ rnd.status = "completed" => rnd.updates # <<>>

TableOK(t) == \A n \in DOMAIN t : RowOK(t[n])

ModelOK(m) == m # NoModel => Completed(m.round) /\ m.from # {}

Submitted(n) == n \in DOMAIN rounds /\ rounds[n].updates # <<>>

\* What request r has read is no newer than what is stored.
Lags(r) ==
    /\ r.federation.current_round <= federation.current_round
    /\ ModelOK(r.federation.model)
    /\ DOMAIN r.rounds \subseteq DOMAIN rounds
    /\ \A n \in DOMAIN r.rounds : r.rounds[n].updates # <<>> => Submitted(n)
    /\ TableOK(r.rounds)

\* A commit loses no round, reopens none and empties none.
Advances ==
    /\ federation'.current_round \in Nat
    /\ federation.current_round <= federation'.current_round
    /\ DOMAIN rounds \subseteq DOMAIN rounds'
    /\ \A n \in DOMAIN rounds :
           (Completed(n) => Completed(n)') /\ (Submitted(n) => Submitted(n)')

Inv ==
    /\ TypeOK
    /\ RoundsContiguous
    /\ TableOK(rounds)
    /\ ModelOK(federation.model)
    /\ \A q \in Requests : Lags(request[q])

-----------------------------------------------------------------------------
\* A request that has read nothing satisfies its part of the invariant.
LEMMA FreshOK ==
    ASSUME NEW phase \in {"idle", "accepted", "row", "members", "loaded"},
           NEW call \in Call \cup {NoCall},
           federation.current_round \in Nat
    PROVE  RequestOK(Fresh(phase, call)) /\ Lags(Fresh(phase, call))
<1>1. BlankRow \in FederationRows
  BY FederationAssumption
     DEF BlankRow, FederationRows, FederationStatus, Models, NoModel
<1>2. ParticipantTable(NoTable) /\ RoundTable(NoTable) /\ TableOK(NoTable)
  BY DEF ParticipantTable, RoundTable, TableOK, NoTable
<1>3. RequestOK(Fresh(phase, call))
  BY <1>1, <1>2 DEF RequestOK, Fresh
<1>4. Lags(Fresh(phase, call))
  BY <1>2 DEF Lags, Fresh, BlankRow, ModelOK, NoTable, TableOK
<1>5. QED
  BY <1>3, <1>4

\* What a request has read goes on lagging behind when the rounds advance.
LEMMA LagsStable ==
    ASSUME NEW r, Lags(r), TypeOK, RoundTable(r.rounds),
           r.federation \in FederationRows, Advances
    PROVE  /\ r.federation.current_round <= federation'.current_round
           /\ (r.federation.model # NoModel =>
                  /\ r.federation.model.round \in DOMAIN rounds'
                  /\ rounds'[r.federation.model.round].status = "completed"
                  /\ r.federation.model.from # {})
           /\ DOMAIN r.rounds \subseteq DOMAIN rounds'
           /\ \A n \in DOMAIN r.rounds :
                  r.rounds[n].updates # <<>> =>
                     n \in DOMAIN rounds' /\ rounds'[n].updates # <<>>
           /\ TableOK(r.rounds)
<1>1. r.federation.current_round \in Nat /\ federation.current_round \in Nat
  BY DEF TypeOK, FederationRows
<1>2. r.federation.current_round <= federation'.current_round
  BY <1>1 DEF Lags, Advances
<1>3. r.federation.model # NoModel =>
         /\ r.federation.model.round \in DOMAIN rounds'
         /\ rounds'[r.federation.model.round].status = "completed"
         /\ r.federation.model.from # {}
  BY DEF Lags, ModelOK, Completed, Advances
<1>4. \A n \in DOMAIN r.rounds : r.rounds[n].updates # <<>> =>
         n \in DOMAIN rounds' /\ rounds'[n].updates # <<>>
  BY DEF Lags, Submitted, Advances
<1>5. QED
  BY <1>2, <1>3, <1>4 DEF Lags, Advances

\* Appending a new submitter keeps the submitters distinct.
LEMMA AppendDistinct ==
    ASSUME NEW seq \in Seq(Sites), NEW s \in Sites, Distinct(seq),
           s \notin {seq[i] : i \in DOMAIN seq}
    PROVE  /\ Append(seq, s) \in Seq(Sites)
           /\ Distinct(Append(seq, s))
           /\ Len(Append(seq, s)) = Len(seq) + 1
           /\ Append(seq, s) # <<>>
  BY DEF Distinct

\* What makes the row of a round well formed.
LEMMA RowFromColumns ==
    ASSUME NEW status \in RoundStatus, NEW updates \in Seq(Sites), NEW k \in Nat,
           Distinct(updates), Len(updates) = k, updates # <<>>
    PROVE  LET row == [status |-> status, updates |-> updates,
                       received |-> k, spent |-> k]
           IN  row \in RoundRows /\ RowOK(row)
  BY DEF RoundRows, RowOK, Consistent

\* A round with submissions has submitters.
LEMMA NonEmptySubmitters ==
    ASSUME NEW seq \in Seq(Sites), seq # <<>>
    PROVE  /\ {seq[i] : i \in DOMAIN seq} \subseteq Sites
           /\ {seq[i] : i \in DOMAIN seq} # {}
<1>1. Len(seq) \in Nat /\ Len(seq) # 0
  OBVIOUS
<1>2. 1 \in DOMAIN seq
  BY <1>1
<1>3. QED
  BY <1>2

\* The arguments each operation carries.
LEMMA CallArguments ==
    ASSUME NEW call \in Call \cup {NoCall}
    PROVE  /\ call.op = "join" => call.site \in Sites /\ call.status \in ParticipantStatus
           /\ call.op = "submit" => call.site \in Sites /\ call.round \in RoundNumbers
           /\ call.op = "aggregate" => call.round \in RoundNumbers
           /\ call.op = "set" => call.status \in RequestedStatus
           /\ call.op \in {"remove", "reconnect"} => call.site \in Sites
  BY DEF Call, NoCall

\* A commit ends its request, or lets it load again; the other requests keep
\* what they have read.
LEMMA RequestsOK ==
    ASSUME Inv, NEW q \in Requests, Advances,
           NEW phase \in {"idle", "accepted"}, NEW call \in Call \cup {NoCall},
           request' = [request EXCEPT ![q] = Fresh(phase, call)]
    PROVE  /\ DOMAIN request' = Requests
           /\ \A p \in Requests : RequestOK(request'[p])
           /\ \A p \in Requests : Lags(request[p])'
<1>1. DOMAIN request = Requests /\ \A p \in Requests : RequestOK(request[p])
  BY DEF Inv, TypeOK
<1>2. DOMAIN request' = Requests
  BY <1>1
<1>3. ASSUME NEW p \in Requests, p # q
      PROVE  RequestOK(request'[p]) /\ Lags(request[p])'
  <2>1. request'[p] = request[p]
    BY <1>1, <1>3
  <2>2. RequestOK(request[p])
    BY <1>1
  <2>3. Lags(request[p]) /\ TypeOK
    BY DEF Inv
  <2>4. RoundTable(request[p].rounds) /\ request[p].federation \in FederationRows
    BY <2>2 DEF RequestOK
  <2>5. /\ request[p].federation.current_round <= federation'.current_round
        /\ (request[p].federation.model # NoModel =>
               /\ request[p].federation.model.round \in DOMAIN rounds'
               /\ rounds'[request[p].federation.model.round].status = "completed"
               /\ request[p].federation.model.from # {})
        /\ DOMAIN request[p].rounds \subseteq DOMAIN rounds'
        /\ \A n \in DOMAIN request[p].rounds :
               request[p].rounds[n].updates # <<>> =>
                  n \in DOMAIN rounds' /\ rounds'[n].updates # <<>>
        /\ TableOK(request[p].rounds)
    BY <2>3, <2>4, LagsStable
  <2>6. QED
    BY <2>1, <2>2, <2>5 DEF Lags, ModelOK, TableOK, Completed, Submitted
<1>4. RequestOK(request'[q]) /\ Lags(request[q])'
  <2>1. request'[q] = Fresh(phase, call)
    BY <1>1
  <2>2. BlankRow.current_round = 0 /\ BlankRow.model = NoModel
    BY DEF BlankRow
  <2>3. federation.current_round \in Nat
    BY DEF Inv, TypeOK, FederationRows
  <2>4. RequestOK(request'[q])
    BY <2>1, <2>3, FreshOK
  <2>5. Lags(request[q])'
    BY <2>1, <2>2 DEF Lags, Fresh, ModelOK, NoTable, TableOK, Advances
  <2>6. QED
    BY <2>4, <2>5
<1>5. QED
  BY <1>2, <1>3, <1>4

-----------------------------------------------------------------------------
\* create_federation establishes the invariant.
LEMMA InitInv == Init => Inv
<1> SUFFICES ASSUME Init PROVE Inv
  OBVIOUS
<1> USE DEF Init
<1>1. BlankRow.current_round = 0 /\ BlankRow.model = NoModel
  BY DEF BlankRow
<1>2. BlankRow \in FederationRows
  BY FederationAssumption
     DEF BlankRow, FederationRows, FederationStatus, Models, NoModel
<1>3. ParticipantTable(participants) /\ RoundTable(rounds) /\ TableOK(rounds)
  BY DEF ParticipantTable, RoundTable, TableOK, NoTable
<1>4. RoundsContiguous
  BY <1>1, FederationAssumption DEF RoundsContiguous, NoTable
<1>5. \A q \in Requests : RequestOK(request[q]) /\ Lags(request[q])
  BY <1>1, FreshOK DEF Idle, Fresh
<1>6. QED
  BY <1>1, <1>2, <1>3, <1>4, <1>5 DEF Inv, TypeOK, ModelOK

\* Reading the federation row.
LEMMA ReadFederationInv ==
    ASSUME Inv, NEW q \in Requests, NEW call \in Call \cup {NoCall},
           ReadFederation(q, call),
           UNCHANGED <<federation, participants, rounds, inserted>>
    PROVE  Inv'
<1>1. TypeOK /\ RoundsContiguous /\ TableOK(rounds) /\ ModelOK(federation.model)
  BY DEF Inv
<1>2. DOMAIN request' = Requests
  BY <1>1 DEF TypeOK, ReadFederation
<1>3. \A p \in Requests : p # q => request'[p] = request[p]
  BY <1>1 DEF TypeOK, ReadFederation
<1>4. request'[q] = [phase |-> "row", call |-> call, federation |-> federation,
                     participants |-> NoTable, rounds |-> NoTable]
  BY <1>1 DEF TypeOK, ReadFederation, Fresh
<1>5. ParticipantTable(NoTable) /\ RoundTable(NoTable) /\ TableOK(NoTable)
      /\ DOMAIN NoTable = {}
  BY DEF ParticipantTable, RoundTable, TableOK, NoTable
<1>6. RequestOK(request'[q])
  BY <1>1, <1>4, <1>5 DEF RequestOK, TypeOK
<1>7. Lags(request'[q])
  BY <1>1, <1>4, <1>5 DEF Lags, TypeOK, FederationRows
<1>8. \A p \in Requests : RequestOK(request'[p]) /\ Lags(request'[p])
  BY <1>3, <1>6, <1>7 DEF Inv, TypeOK
<1>9. QED
  BY <1>1, <1>2, <1>8
     DEF Inv, TypeOK, RoundsContiguous, TableOK, ModelOK, Lags, Completed,
         Submitted, ParticipantTable, RoundTable

\* Reading the participants.
LEMMA ReadParticipantsInv ==
    ASSUME Inv, NEW q \in Requests, ReadParticipants(q)
    PROVE  Inv'
<1>1. TypeOK /\ RoundsContiguous /\ TableOK(rounds) /\ ModelOK(federation.model)
  BY DEF Inv
<1>2. DOMAIN request' = Requests
  BY <1>1 DEF TypeOK, ReadParticipants
<1>3. \A p \in Requests : p # q => request'[p] = request[p]
  BY <1>1 DEF TypeOK, ReadParticipants
<1>4. RequestOK(request[q]) /\ Lags(request[q])
  BY DEF Inv, TypeOK
<1>5. request'[q] = [phase |-> "members", call |-> request[q].call,
                     federation |-> request[q].federation,
                     participants |-> participants, rounds |-> request[q].rounds]
  BY <1>1, <1>4 DEF TypeOK, ReadParticipants, RequestOK
<1>6. RequestOK(request'[q])
  BY <1>1, <1>4, <1>5 DEF RequestOK, TypeOK
<1>7. Lags(request'[q])
  BY <1>4, <1>5 DEF Lags
<1>8. \A p \in Requests : RequestOK(request'[p]) /\ Lags(request'[p])
  BY <1>3, <1>6, <1>7 DEF Inv, TypeOK
<1>9. QED
  BY <1>1, <1>2, <1>8
     DEF Inv, TypeOK, RoundsContiguous, TableOK, ModelOK, Lags, Completed,
         Submitted, ParticipantTable, RoundTable, ReadParticipants

\* Reading the rounds.
LEMMA ReadRoundsInv ==
    ASSUME Inv, NEW q \in Requests, ReadRounds(q)
    PROVE  Inv'
<1>1. TypeOK /\ RoundsContiguous /\ TableOK(rounds) /\ ModelOK(federation.model)
  BY DEF Inv
<1>2. DOMAIN request' = Requests
  BY <1>1 DEF TypeOK, ReadRounds
<1>3. \A p \in Requests : p # q => request'[p] = request[p]
  BY <1>1 DEF TypeOK, ReadRounds
<1>4. RequestOK(request[q]) /\ Lags(request[q])
  BY DEF Inv, TypeOK
<1>5. request'[q] = [phase |-> "loaded", call |-> request[q].call,
                     federation |-> request[q].federation,
                     participants |-> request[q].participants, rounds |-> rounds]
  BY <1>1, <1>4 DEF TypeOK, ReadRounds, RequestOK
<1>6. RequestOK(request'[q])
  BY <1>1, <1>4, <1>5 DEF RequestOK, TypeOK
<1>7. Lags(request'[q])
  BY <1>1, <1>4, <1>5 DEF Lags, Submitted
<1>8. \A p \in Requests : RequestOK(request'[p]) /\ Lags(request'[p])
  BY <1>3, <1>6, <1>7 DEF Inv, TypeOK
<1>9. QED
  BY <1>1, <1>2, <1>8
     DEF Inv, TypeOK, RoundsContiguous, TableOK, ModelOK, Lags, Completed,
         Submitted, ParticipantTable, RoundTable, ReadRounds

-----------------------------------------------------------------------------
\* What the actions below show: the rows they write are well formed and no
\* round is lost or reopened.
LEMMA CommitInv ==
    ASSUME Inv, NEW q \in Requests, Advances,
           NEW phase \in {"idle", "accepted"}, NEW call \in Call \cup {NoCall},
           request' = [request EXCEPT ![q] = Fresh(phase, call)],
           federation' \in FederationRows, ParticipantTable(participants'),
           RoundTable(rounds'), inserted' \in Nat,
           RoundsContiguous', TableOK(rounds'), ModelOK(federation.model)'
    PROVE  Inv'
<1>1. /\ DOMAIN request' = Requests
      /\ \A p \in Requests : RequestOK(request'[p])
      /\ \A p \in Requests : Lags(request[p])'
  BY RequestsOK
<1>2. TypeOK'
  BY <1>1 DEF TypeOK
<1>3. QED
  BY <1>1, <1>2 DEF Inv, TableOK

\* When no round is touched, only the federation row and the participants are
\* left to show well formed.
LEMMA CommitKeepingRounds ==
    ASSUME Inv, NEW q \in Requests,
           NEW phase \in {"idle", "accepted"}, NEW call \in Call \cup {NoCall},
           request' = [request EXCEPT ![q] = Fresh(phase, call)],
           federation' \in FederationRows, ParticipantTable(participants'),
           inserted' \in Nat, UNCHANGED rounds,
           federation'.current_round = federation.current_round,
           federation'.model = federation.model
    PROVE  Inv'
<1>1. Advances
  BY DEF Advances, Completed, Submitted, Inv, TypeOK, FederationRows
<1>2. RoundTable(rounds') /\ RoundsContiguous' /\ TableOK(rounds')
      /\ ModelOK(federation.model)'
  BY DEF Inv, TypeOK, RoundTable, RoundsContiguous, TableOK, ModelOK, Completed
<1>3. QED
  BY <1>1, <1>2, CommitInv

\* A step that only ends a request.
LEMMA RollbackInv ==
    ASSUME Inv, NEW q \in Requests, Rollback(q)
    PROVE  Inv'
<1>1. request' = [request EXCEPT ![q] = Fresh("idle", NoCall)]
  BY DEF Rollback, Idle
<1>2. federation' \in FederationRows /\ ParticipantTable(participants')
      /\ inserted' \in Nat
  BY DEF Rollback, Inv, TypeOK
<1>3. QED
  BY <1>1, <1>2, CommitKeepingRounds DEF Rollback

\* A column keeps its type whichever of the two values it ends up with.
LEMMA ColumnType ==
    ASSUME NEW T, NEW new \in T, NEW stored \in T, NEW read
    PROVE  Column(read, new, stored) \in T
  BY DEF Column

LEMMA SetStatusInv ==
    ASSUME Inv, NEW q \in Requests, SetStatus(q)
    PROVE  Inv'
<1>1. RequestOK(request[q]) /\ request[q].call.op = "set"
      /\ federation \in FederationRows
  BY DEF Inv, TypeOK, SetStatus, Committing
<1>2. request[q].call.status \in FederationStatus
  BY <1>1, CallArguments DEF RequestOK, RequestedStatus, FederationStatus
<1>3. Column(request[q].federation.status, request[q].call.status,
             federation.status) \in FederationStatus
  BY <1>1, <1>2, ColumnType DEF FederationRows
<1>4. /\ federation' \in FederationRows
      /\ federation'.current_round = federation.current_round
      /\ federation'.model = federation.model
  BY <1>1, <1>3 DEF FederationRows, SetStatus
<1>5. request' = [request EXCEPT ![q] = Fresh("idle", NoCall)]
  BY DEF SetStatus, Done, Idle
<1>6. ParticipantTable(participants') /\ inserted' \in Nat
  BY DEF Inv, TypeOK, SetStatus
<1>7. QED
  BY <1>4, <1>5, <1>6, CommitKeepingRounds DEF SetStatus

LEMMA RetrainInv ==
    ASSUME Inv, NEW q \in Requests, Retrain(q)
    PROVE  Inv'
<1> DEFINE read == request[q].federation.status
           status == IF read \in {"completed", "stopped"} THEN "ready" ELSE read
<1>1. RequestOK(request[q]) /\ federation \in FederationRows
  BY DEF Inv, TypeOK
<1>2. status \in FederationStatus
  BY <1>1 DEF RequestOK, FederationRows, FederationStatus
<1>3. Column(read, status, federation.status) \in FederationStatus
  BY <1>1, <1>2, ColumnType DEF FederationRows
<1>4. federation' = [federation EXCEPT !.status =
                        Column(read, status, federation.status)]
  BY DEF Retrain
<1>5. /\ federation' \in FederationRows
      /\ federation'.current_round = federation.current_round
      /\ federation'.model = federation.model
  BY <1>1, <1>3, <1>4 DEF FederationRows
<1>6. Start \in Call \cup {NoCall}
  BY DEF Start, Call
<1>7. ParticipantTable(participants') /\ inserted' \in Nat
  BY DEF Inv, TypeOK, Retrain
<1>8. QED
  BY <1>5, <1>6, <1>7, CommitKeepingRounds DEF Retrain

LEMMA JoinFederationInv ==
    ASSUME Inv, NEW q \in Requests, JoinFederation(q)
    PROVE  Inv'
<1> DEFINE read == request[q]
           s == read.call.site
           status == JoinedStatus(read.federation.status, DOMAIN read.participants)
           row == [id |-> inserted, status |-> read.call.status,
                   rounds |-> 0, samples |-> 0]
<1>1. RequestOK(read) /\ federation \in FederationRows /\ inserted \in Nat
      /\ ParticipantTable(participants)
  BY DEF Inv, TypeOK
<1>2. s \in Sites /\ read.call.status \in ParticipantStatus
  BY <1>1, CallArguments, FederationAssumption
     DEF RequestOK, JoinFederation, Committing
<1>3. row \in ParticipantRows
  BY <1>1, <1>2 DEF ParticipantRows
<1>4. participants' = [p \in DOMAIN participants \cup {s} |->
                          IF p = s THEN row ELSE participants[p]]
  BY DEF JoinFederation
<1>5. ParticipantTable(participants')
  BY <1>1, <1>2, <1>3, <1>4 DEF ParticipantTable
<1>6. Column(read.federation.status, status, federation.status)
          \in FederationStatus
  <2>1. status \in FederationStatus
    BY <1>1 DEF RequestOK, FederationRows, FederationStatus, JoinedStatus
  <2>2. QED
    BY <1>1, <2>1, ColumnType DEF FederationRows
<1>7. federation' = [federation EXCEPT !.status =
                        Column(read.federation.status, status, federation.status)]
  BY DEF JoinFederation
<1>8. /\ federation' \in FederationRows
      /\ federation'.current_round = federation.current_round
      /\ federation'.model = federation.model
  BY <1>1, <1>6, <1>7 DEF FederationRows
<1>9. request' = [request EXCEPT ![q] = Fresh("idle", NoCall)]
      /\ inserted' \in Nat /\ UNCHANGED rounds
  BY <1>1 DEF JoinFederation, Done, Idle
<1>10. QED
  BY <1>5, <1>8, <1>9, CommitKeepingRounds

LEMMA RemoveParticipantInv ==
    ASSUME Inv, NEW q \in Requests, RemoveParticipant(q)
    PROVE  Inv'
<1>1. ParticipantTable(participants')
  BY DEF Inv, TypeOK, ParticipantTable, RemoveParticipant
<1>2. request' = [request EXCEPT ![q] = Fresh("idle", NoCall)]
  BY DEF RemoveParticipant, Done, Idle
<1>3. federation' \in FederationRows /\ inserted' \in Nat
  BY DEF Inv, TypeOK, RemoveParticipant
<1>4. QED
  BY <1>1, <1>2, <1>3, CommitKeepingRounds DEF RemoveParticipant

LEMMA ReconnectInv ==
    ASSUME Inv, NEW q \in Requests, Reconnect(q)
    PROVE  Inv'
<1> DEFINE read == request[q].participants
           s == request[q].call.site
           status == Column(read[s].status, "reconnecting", participants[s].status)
<1>1. ParticipantTable(participants) /\ s \in DOMAIN participants
  BY DEF Inv, TypeOK, Reconnect, RowPresent
<1>2. participants[s] \in ParticipantRows
  BY <1>1 DEF ParticipantTable
<1>3. status \in ParticipantStatus
  <2>1. "reconnecting" \in ParticipantStatus
        /\ participants[s].status \in ParticipantStatus
    BY <1>2 DEF ParticipantRows, ParticipantStatus
  <2>2. QED
    BY <2>1, ColumnType
<1>4. participants' = [participants EXCEPT ![s].status = status]
  BY DEF Reconnect
<1>5. ParticipantTable(participants')
  BY <1>1, <1>2, <1>3, <1>4 DEF ParticipantTable, ParticipantRows
<1>6. request' = [request EXCEPT ![q] = Fresh("idle", NoCall)]
  BY DEF Reconnect, Done, Idle
<1>7. federation' \in FederationRows /\ inserted' \in Nat
  BY DEF Inv, TypeOK, Reconnect
<1>8. QED
  BY <1>5, <1>6, <1>7, CommitKeepingRounds DEF Reconnect

\* start_round: the row it read lags behind, so the number it inserts is
\* either taken, and the constraint refuses it, or the next one.
LEMMA StartRoundInv ==
    ASSUME Inv, NEW q \in Requests, StartRound(q)
    PROVE  Inv'
<1> DEFINE read == request[q]
           n == read.federation.current_round + 1
<1>1. /\ RequestOK(read) /\ Lags(read)
      /\ federation \in FederationRows /\ RoundTable(rounds)
      /\ RoundsContiguous /\ TableOK(rounds)
  BY DEF Inv, TypeOK
<1>2. /\ read.federation.current_round \in Nat
      /\ federation.current_round \in Nat
      /\ MaxRounds \in Nat
  BY <1>1, FederationAssumption DEF RequestOK, FederationRows
<1>3. n = federation.current_round + 1 /\ n <= MaxRounds
  BY <1>1, <1>2 DEF Lags, RoundsContiguous, StartRound, RoundsLeft
<1>4. rounds' = [m \in DOMAIN rounds \cup {n} |->
                    IF m = n THEN NewRound ELSE rounds[m]]
  BY DEF StartRound
<1>5. n \notin DOMAIN rounds
  BY DEF StartRound
<1>6. federation' = [federation EXCEPT
             !.current_round = n,
             !.status = Column(read.federation.status, "training", federation.status)]
  BY DEF StartRound
<1>7. Column(read.federation.status, "training", federation.status)
          \in FederationStatus
  BY <1>1, ColumnType DEF FederationRows, FederationStatus
<1>8. federation' \in FederationRows /\ federation'.current_round = n
      /\ federation'.model = federation.model
  <2> DEFINE opened == [federation EXCEPT !.current_round = n]
             status == Column(read.federation.status, "training", federation.status)
  <2>1. opened \in FederationRows /\ opened.current_round = n
        /\ opened.model = federation.model
    BY <1>1, <1>2 DEF FederationRows
  <2>2. federation' = [opened EXCEPT !.status = status]
    BY <1>6
  <2>3. status \in FederationStatus
    BY <1>7
  <2> HIDE DEF opened, status
  <2>4. QED
    BY <2>1, <2>2, <2>3 DEF FederationRows
<1>9. NewRound \in RoundRows /\ RowOK(NewRound)
  BY DEF NewRound, RoundRows, RoundStatus, RowOK, Distinct, Consistent
<1>10. RoundTable(rounds')
  BY <1>1, <1>2, <1>3, <1>4, <1>9 DEF RoundTable, RoundNumbers
<1>11. RoundsContiguous'
  BY <1>1, <1>2, <1>3, <1>4, <1>8 DEF RoundsContiguous
<1>12. TableOK(rounds')
  BY <1>1, <1>4, <1>9 DEF TableOK
<1>13. \A m \in DOMAIN rounds : Completed(m) => Completed(m)'
  BY <1>4, <1>5 DEF Completed
<1>14. ModelOK(federation.model)'
  BY <1>8, <1>13 DEF ModelOK, Inv, Completed
<1>15. request' = [request EXCEPT ![q] = Fresh("idle", NoCall)]
       /\ ParticipantTable(participants') /\ inserted' \in Nat
  BY DEF StartRound, Done, Idle, Inv, TypeOK
<1>16. Advances
  BY <1>2, <1>3, <1>4, <1>5, <1>8, <1>13 DEF Advances, Submitted
<1>17. QED
  BY <1>8, <1>10, <1>11, <1>12, <1>14, <1>15, <1>16, CommitInv

\* submit_update: the list it writes back is the one it read with one more
\* submitter, whatever the stored list has become.
LEMMA SubmitUpdateInv ==
    ASSUME Inv, NEW q \in Requests, SubmitUpdate(q)
    PROVE  Inv'
<1> DEFINE read == request[q]
           s == read.call.site
           n == read.call.round
           rnd == read.rounds[n]
           new == WithUpdate(rounds[n], rnd, s)
<1>1. /\ RequestOK(read) /\ Lags(read)
      /\ federation \in FederationRows /\ RoundTable(rounds)
      /\ ParticipantTable(participants) /\ inserted \in Nat
      /\ RoundsContiguous /\ TableOK(rounds) /\ ModelOK(federation.model)
  BY DEF Inv, TypeOK
<1>2. s \in Sites /\ n \in DOMAIN read.rounds /\ n \in DOMAIN rounds
      /\ s \notin Submitters(rnd)
  BY <1>1, CallArguments DEF RequestOK, SubmitUpdate, Committing, Lags, AlreadySubmitted
<1>3. rnd \in RoundRows /\ RowOK(rnd) /\ rounds[n] \in RoundRows
  BY <1>1, <1>2 DEF RequestOK, RoundTable, Lags, TableOK
<1>4. /\ Append(rnd.updates, s) \in Seq(Sites)
      /\ Distinct(Append(rnd.updates, s))
      /\ Len(Append(rnd.updates, s)) = Len(rnd.updates) + 1
      /\ Append(rnd.updates, s) # <<>>
  BY <1>2, <1>3, AppendDistinct DEF RoundRows, RowOK, Submitters
<1>5. new \in RoundRows /\ RowOK(new)
  <2>1. Len(rnd.updates) \in Nat /\ rnd.spent \in Nat /\ rnd.spent = Len(rnd.updates)
    BY <1>3 DEF RoundRows, RowOK, Consistent
  <2>2. rounds[n].status \in RoundStatus /\ Len(rnd.updates) + 1 \in Nat
    BY <1>3, <2>1 DEF RoundRows
  <2>3. QED
    BY <1>4, <2>1, <2>2, RowFromColumns DEF WithUpdate
<1>6. rounds' = [rounds EXCEPT ![n] = new]
  BY DEF SubmitUpdate
<1> HIDE DEF new
<1>7. new.status = rounds[n].status /\ new.updates # <<>>
  BY <1>4 DEF new, WithUpdate
<1>8. RoundTable(rounds') /\ TableOK(rounds') /\ DOMAIN rounds' = DOMAIN rounds
  BY <1>1, <1>2, <1>5, <1>6 DEF RoundTable, TableOK
<1>9. \A m \in DOMAIN rounds : Completed(m) => Completed(m)'
  BY <1>1, <1>6, <1>7 DEF Completed, RoundTable
<1>10. /\ federation' \in FederationRows
       /\ federation'.current_round = federation.current_round
       /\ federation'.model = federation.model
  <2>1. read.federation.spent + 1 \in Nat
    BY <1>1 DEF RequestOK, FederationRows
  <2>2. federation' = [federation EXCEPT !.spent = read.federation.spent + 1]
    BY DEF SubmitUpdate
  <2>3. QED
    BY <1>1, <2>1, <2>2 DEF FederationRows
<1>11. ParticipantTable(participants')
  <2>1. CASE s \in DOMAIN read.participants
    <3>1. s \in DOMAIN participants
      BY <2>1 DEF SubmitUpdate, RowPresent
    <3>2. read.participants[s].samples + 1 \in Nat
      BY <1>1, <2>1 DEF RequestOK, ParticipantTable, ParticipantRows
    <3>3. participants' = [participants EXCEPT ![s].samples =
                              read.participants[s].samples + 1]
      BY <2>1 DEF SubmitUpdate
    <3>4. QED
      BY <1>1, <3>1, <3>2, <3>3 DEF ParticipantTable, ParticipantRows
  <2>2. CASE s \notin DOMAIN read.participants
    BY <1>1, <2>2 DEF SubmitUpdate
  <2>3. QED
    BY <2>1, <2>2
<1>12. RoundsContiguous' /\ ModelOK(federation.model)'
  BY <1>1, <1>8, <1>9, <1>10 DEF RoundsContiguous, ModelOK, Completed
<1>13. request' = [request EXCEPT ![q] = Fresh("idle", NoCall)]
       /\ inserted' \in Nat
  BY <1>1 DEF SubmitUpdate, Done, Idle
<1>14. Advances
  BY <1>1, <1>6, <1>7, <1>8, <1>9, <1>10
     DEF Advances, Submitted, FederationRows, RoundTable
<1>15. QED
  BY <1>8, <1>10, <1>11, <1>12, <1>13, <1>14, CommitInv

\* aggregate_round completes a round that has submissions and averages them.
LEMMA AggregateRoundInv ==
    ASSUME Inv, NEW q \in Requests, AggregateRound(q)
    PROVE  Inv'
<1> DEFINE read == request[q]
           n == read.call.round
           rnd == read.rounds[n]
           model == [round |-> n, from |-> Submitters(rnd)]
           contributors == Submitters(rnd) \cap DOMAIN read.participants
<1>1. /\ RequestOK(read) /\ Lags(read)
      /\ federation \in FederationRows /\ RoundTable(rounds)
      /\ ParticipantTable(participants) /\ inserted \in Nat
      /\ RoundsContiguous /\ TableOK(rounds) /\ ModelOK(federation.model)
  BY DEF Inv, TypeOK
<1>2. n \in DOMAIN read.rounds /\ n \in DOMAIN rounds /\ n \in RoundNumbers
      /\ rnd.updates # <<>>
  BY <1>1 DEF AggregateRound, Lags, RoundTable, NothingToAggregate
<1>3. rnd \in RoundRows /\ rounds[n] \in RoundRows
  BY <1>1, <1>2 DEF RequestOK, RoundTable
<1>4. Submitters(rnd) \subseteq Sites /\ Submitters(rnd) # {}
  BY <1>2, <1>3, NonEmptySubmitters DEF Submitters, RoundRows
<1>5. model \in Models
  BY <1>2, <1>4 DEF Models, RoundNumbers
<1>6. rounds' = [rounds EXCEPT ![n].status = "completed"]
  BY DEF AggregateRound
<1>7. RoundTable(rounds') /\ DOMAIN rounds' = DOMAIN rounds
  BY <1>1, <1>2, <1>3, <1>6 DEF RoundTable, RoundRows, RoundStatus
<1>8. /\ \A m \in DOMAIN rounds :
            (Completed(m) => Completed(m)') /\ (Submitted(m) => Submitted(m)')
      /\ n \in DOMAIN rounds' /\ rounds'[n].status = "completed"
  <2>1. /\ \A m \in DOMAIN rounds : m # n => rounds'[m] = rounds[m]
        /\ rounds'[n].status = "completed"
        /\ rounds'[n].updates = rounds[n].updates
    BY <1>2, <1>3, <1>6 DEF RoundRows
  <2>2. QED
    BY <1>2, <1>7, <2>1 DEF Completed, Submitted
<1>9. Submitted(n)
  BY <1>1, <1>2 DEF Lags
<1>10. TableOK(rounds')
  BY <1>1, <1>2, <1>3, <1>6, <1>7, <1>9
     DEF TableOK, RowOK, Consistent, Submitted, RoundRows, RoundTable
<1>11. PICK m \in {model, Column(read.federation.model, model, federation.model)} :
           federation' = [federation EXCEPT !.model = m]
  BY DEF AggregateRound
<1>12. m = model \/ m = federation.model
  BY <1>11 DEF Column
<1>13. /\ federation' \in FederationRows
       /\ federation'.current_round = federation.current_round
       /\ federation'.model = m
  BY <1>1, <1>5, <1>11, <1>12 DEF FederationRows
<1>14. ModelOK(federation.model)'
  <2>1. CASE m = model
    BY <1>4, <1>8, <1>13, <2>1 DEF ModelOK, Completed
  <2>2. CASE m = federation.model
    BY <1>1, <1>8, <1>13, <2>2 DEF ModelOK, Completed
  <2>3. QED
    BY <1>12, <2>1, <2>2
<1>15. participants' = [p \in DOMAIN participants |->
           IF p \in contributors
           THEN [participants[p] EXCEPT !.rounds = read.participants[p].rounds + 1]
           ELSE participants[p]]
  BY DEF AggregateRound
<1>16. ParticipantTable(participants')
  <2>1. ParticipantTable(read.participants)
    BY <1>1 DEF RequestOK
  <2>2. \A p \in contributors : read.participants[p].rounds + 1 \in Nat
    BY <2>1 DEF ParticipantTable, ParticipantRows
  <2>3. QED
    BY <1>1, <1>15, <2>2 DEF ParticipantTable, ParticipantRows
<1>17. request' = [request EXCEPT ![q] = Fresh("idle", NoCall)]
       /\ inserted' \in Nat
  BY <1>1 DEF AggregateRound, Done, Idle
<1>18. Advances /\ RoundsContiguous'
  BY <1>1, <1>7, <1>8, <1>13 DEF Advances, FederationRows, RoundsContiguous
<1>19. QED
  BY <1>7, <1>10, <1>13, <1>14, <1>16, <1>17, <1>18, CommitInv

-----------------------------------------------------------------------------
\* Every step keeps the invariant.
LEMMA NextInv == Inv /\ [Next]_vars => Inv'
<1> SUFFICES ASSUME Inv, [Next]_vars PROVE Inv'
  OBVIOUS
<1>1. CASE UNCHANGED vars
  BY <1>1 DEF vars, Inv, TypeOK, RoundsContiguous, TableOK, ModelOK, Lags,
              Completed, Submitted, ParticipantTable, RoundTable
<1>2. ASSUME NEW q \in Requests, Receive(q) PROVE Inv'
  <2>1. PICK call \in Calls : ReadFederation(q, call)
    BY <1>2 DEF Receive
  <2>2. call \in Call \cup {NoCall}
    BY FederationAssumption
  <2>3. QED
    BY <1>2, <2>1, <2>2, ReadFederationInv DEF Receive
<1>3. ASSUME NEW q \in Requests, Reload(q) PROVE Inv'
  <2>1. request[q].call \in Call \cup {NoCall}
    BY DEF Inv, TypeOK, RequestOK
  <2>2. QED
    BY <1>3, <2>1, ReadFederationInv DEF Reload
<1>4. QED
  BY <1>1, <1>2, <1>3, ReadParticipantsInv, ReadRoundsInv, RollbackInv,
     JoinFederationInv, StartRoundInv, SubmitUpdateInv, AggregateRoundInv, SetStatusInv, RetrainInv,
     RemoveParticipantInv, ReconnectInv DEF Next

\* The invariant holds of every reachable state.
THEOREM Invariance == Spec => []Inv
<1>1. Init => Inv
  BY InitInv
<1>2. Inv /\ [Next]_vars => Inv'
  BY NextInv
<1>3. QED
  BY <1>1, <1>2, PTL DEF Spec

\* Every row keeps the columns and types of models/federated.py.
THEOREM TypeCorrect == Spec => []TypeOK
<1>1. Inv => TypeOK
  BY DEF Inv
<1>2. QED
  BY <1>1, Invariance, PTL

\* For any number of concurrent start_round and retrain requests the rounds on
\* record are 1 .. current_round and never exceed max_rounds.
THEOREM RoundsStayContiguous == Spec => []RoundsContiguous
<1>1. Inv => RoundsContiguous
  BY DEF Inv
<1>2. QED
  BY <1>1, Invariance, PTL

\* However many submissions race, a round never counts a site twice, and its
\* counters agree with the list it holds.
THEOREM RoundRecords == Spec => [](NoDoubleSubmission /\ RoundRowConsistent)
<1>1. Inv => NoDoubleSubmission /\ RoundRowConsistent
  BY DEF Inv, TableOK, RowOK, NoDoubleSubmission, RoundRowConsistent
<1>2. QED
  BY <1>1, Invariance, PTL

\* The counters of a round row agree with the list of sites it holds.
THEOREM RowsConsistent == Spec => []RoundRowConsistent
  BY RoundRecords, PTL

\* The global model always comes from a completed round with submissions.
THEOREM ModelIsRecorded == Spec => []ModelFromCompletedRound
<1>1. Inv => ModelFromCompletedRound
  BY DEF Inv, TableOK, RowOK, ModelOK, ModelFromCompletedRound, Completed
<1>2. QED
  BY <1>1, Invariance, PTL

\* The rounds that have an outcome, as the ledger sees them.
CompletedRounds == {n \in DOMAIN rounds : Completed(n)}

\* Every step of a request is a step of the ledger, or invisible in it.
LEMMA LedgerStep ==
    ASSUME Inv, [Next]_vars
    PROVE  [Ledger!Next]_<<federation.current_round, CompletedRounds,
                           federation.model.round>>
<1> DEFINE ledger == <<federation.current_round, CompletedRounds,
                       federation.model.round>>
<1>1. federation \in FederationRows /\ RoundTable(rounds) /\ RoundsContiguous
  BY DEF Inv, TypeOK
<1>2. CASE /\ federation'.current_round = federation.current_round
           /\ federation'.model = federation.model
           /\ UNCHANGED rounds
  BY <1>2 DEF CompletedRounds, Completed
<1>3. ASSUME NEW q \in Requests, StartRound(q)
      PROVE  Ledger!Open
  <2> DEFINE n == request[q].federation.current_round + 1
  <2>1. /\ n = federation.current_round + 1
        /\ federation.current_round < MaxRounds
    <3>1. Lags(request[q]) /\ RequestOK(request[q])
      BY DEF Inv, TypeOK
    <3>2. /\ request[q].federation.current_round \in Nat
          /\ federation.current_round \in Nat /\ MaxRounds \in Nat
      BY <1>1, <3>1, FederationAssumption DEF RequestOK, FederationRows
    <3>3. QED
      BY <1>1, <1>3, <3>1, <3>2 DEF Lags, RoundsContiguous, StartRound, RoundsLeft
  <2>2. federation'.current_round = n /\ federation'.model = federation.model
    BY <1>1, <1>3 DEF StartRound, FederationRows
  <2>3. /\ rounds' = [m \in DOMAIN rounds \cup {n} |->
                         IF m = n THEN NewRound ELSE rounds[m]]
        /\ n \notin DOMAIN rounds
    BY <1>3 DEF StartRound
  <2>4. CompletedRounds' = CompletedRounds
    BY <2>3 DEF CompletedRounds, Completed, NewRound
  <2>5. QED
    BY <2>1, <2>2, <2>4 DEF Ledger!Open, CompletedRounds
<1>4. ASSUME NEW q \in Requests, SubmitUpdate(q)
      PROVE  UNCHANGED ledger
  <2> DEFINE n == request[q].call.round
  <2>1. Lags(request[q]) /\ n \in DOMAIN rounds
    BY <1>4 DEF Inv, SubmitUpdate, Lags
  <2>2. /\ DOMAIN rounds' = DOMAIN rounds
        /\ \A m \in DOMAIN rounds : rounds'[m].status = rounds[m].status
    BY <1>1, <1>4, <2>1 DEF SubmitUpdate, RoundTable, WithUpdate
  <2>3. CompletedRounds' = CompletedRounds
    BY <2>2 DEF CompletedRounds, Completed
  <2>4. /\ federation'.current_round = federation.current_round
        /\ federation'.model = federation.model
    BY <1>1, <1>4 DEF SubmitUpdate, FederationRows
  <2>5. QED
    BY <2>3, <2>4
<1>5. ASSUME NEW q \in Requests, AggregateRound(q)
      PROVE  Ledger!Complete \/ UNCHANGED ledger
  <2> DEFINE read == request[q]
             n == read.call.round
             model == [round |-> n, from |-> Submitters(read.rounds[n])]
  <2>1. Lags(read) /\ n \in DOMAIN rounds
    BY <1>5 DEF Inv, AggregateRound, Lags
  <2>2. /\ DOMAIN rounds' = DOMAIN rounds
        /\ \A m \in DOMAIN rounds : m # n => rounds'[m] = rounds[m]
        /\ rounds'[n].status = "completed"
    BY <1>1, <1>5, <2>1 DEF AggregateRound, RoundTable, RoundRows
  <2>3. CompletedRounds' = CompletedRounds \cup {n}
    BY <2>1, <2>2 DEF CompletedRounds, Completed
  <2>4. PICK m \in {model, Column(read.federation.model, model, federation.model)} :
            federation' = [federation EXCEPT !.model = m]
    BY <1>5 DEF AggregateRound
  <2>5. /\ federation'.current_round = federation.current_round
        /\ federation'.model = m
    BY <1>1, <2>4 DEF FederationRows
  <2>6. n \in 1 .. federation.current_round /\ n # 0
    BY <1>1, <2>1 DEF RoundsContiguous, RoundTable, RoundNumbers
  <2>7. CASE m = model
    BY <2>3, <2>5, <2>6, <2>7 DEF Ledger!Complete, CompletedRounds
  <2>8. CASE m # model
    <3>1. read.federation.model = model /\ m = federation.model
      BY <2>4, <2>8 DEF Column
    <3>2. n \in CompletedRounds
      BY <2>1, <2>6, <3>1 DEF Lags, ModelOK, NoModel, CompletedRounds, Completed
    <3>3. QED
      BY <2>3, <2>5, <3>1, <3>2
  <2>9. QED
    BY <2>7, <2>8
<1>6. ASSUME NEW q \in Requests, SetStatus(q) \/ Retrain(q) \/ JoinFederation(q)
      PROVE  UNCHANGED ledger
  <2>1. /\ federation'.current_round = federation.current_round
        /\ federation'.model = federation.model
        /\ UNCHANGED rounds
    <3>1. ASSUME NEW status, federation' = [federation EXCEPT !.status = status]
          PROVE  /\ federation'.current_round = federation.current_round
                 /\ federation'.model = federation.model
      BY <1>1, <3>1 DEF FederationRows
    <3>2. QED
      BY <1>6, <3>1 DEF SetStatus, Retrain, JoinFederation
  <2>2. QED
    BY <2>1 DEF CompletedRounds, Completed
<1>7. QED
  BY <1>2, <1>3, <1>4, <1>5, <1>6
     DEF Next, vars, Receive, Reload, ReadParticipants, ReadRounds, Rollback,
         RemoveParticipant, Reconnect, Ledger!Next

\* The rounds implement the ledger an auditor relies on: opened one after the
\* other within max_rounds, completed for good, and the global model that of a
\* completed round.
THEOREM LedgerImplemented == Spec => ImplementsLedger
<1>1. Init => Ledger!Init
  BY DEF Init, Ledger!Init, BlankRow, NoModel, NoTable
<1>2. Inv /\ [Next]_vars =>
         [Ledger!Next]_<<federation.current_round,
                         {n \in DOMAIN rounds : Completed(n)},
                         federation.model.round>>
  BY LedgerStep DEF CompletedRounds
<1>3. QED
  BY <1>1, <1>2, Invariance, PTL DEF Spec, ImplementsLedger, Ledger!Spec
-----------------------------------------------------------------------------
(***************************************************************************)
(* Requests that do not overlap.  Any number of clients may call, one      *)
(* after the other: a request starts when the one before it has ended.     *)
(* What a request has read is then what is stored when it commits          *)
(* (Current).                                                              *)
(***************************************************************************)
Serial ==
    \A p, q \in Requests :
        request[p].phase # "idle" /\ request[q].phase # "idle" => p = q

Current ==
    \A q \in Requests :
        /\ request[q].phase \in {"row", "members", "loaded"} =>
               request[q].federation = federation
        /\ request[q].phase \in {"members", "loaded"} =>
               request[q].participants = participants
        /\ request[q].phase = "loaded" => request[q].rounds = rounds

\* A request that is alone in flight finds the others idle and leaves itself
\* without a reading, or with an exact one.
LEMMA CurrentStep ==
    ASSUME Inv, Serial, Current, [Next]_vars
    PROVE  Current'
<1>1. DOMAIN request = Requests
  BY DEF Inv, TypeOK
<1>2. ASSUME NEW q \in Requests, request[q].phase # "idle",
             NEW phase \in {"idle", "accepted"}, NEW call,
             request' = [request EXCEPT ![q] = Fresh(phase, call)]
      PROVE  Current'
  <2>1. request'[q].phase = phase
    BY <1>1, <1>2 DEF Fresh
  <2>2. \A p \in Requests : p # q => request'[p].phase = "idle"
    BY <1>1, <1>2 DEF Serial
  <2>3. \A p \in Requests : request'[p].phase \notin {"row", "members", "loaded"}
    BY <1>2, <2>1, <2>2
  <2>4. QED
    BY <2>3 DEF Current
<1>3. ASSUME NEW q \in Requests, NEW call, ReadFederation(q, call),
             UNCHANGED <<federation, participants, rounds>>
      PROVE  Current'
  <2>1. request'[q].phase = "row" /\ request'[q].federation = federation
    BY <1>1, <1>3 DEF ReadFederation, Fresh
  <2>2. \A p \in Requests : p # q => request'[p] = request[p]
    BY <1>1, <1>3 DEF ReadFederation
  <2>3. QED
    BY <1>3, <2>1, <2>2 DEF Current
<1>4. CASE UNCHANGED vars
  BY <1>4 DEF vars, Current
<1>5. ASSUME NEW q \in Requests, Receive(q) \/ Reload(q) PROVE Current'
  BY <1>3, <1>5 DEF Receive, Reload
<1>6. ASSUME NEW q \in Requests, ReadParticipants(q) \/ ReadRounds(q) PROVE Current'
  <2>1. RequestOK(request[q])
    BY DEF Inv, TypeOK
  <2>2. UNCHANGED <<federation, participants, rounds>>
    BY <1>6 DEF ReadParticipants, ReadRounds
  <2>3. \A p \in Requests : p # q => request'[p] = request[p]
    BY <1>1, <1>6 DEF ReadParticipants, ReadRounds
  <2>4. request[q].federation = federation
    BY <1>6 DEF Current, ReadParticipants, ReadRounds
  <2>5. CASE ReadParticipants(q)
    <3>1. request'[q] = [phase |-> "members", call |-> request[q].call,
                         federation |-> request[q].federation,
                         participants |-> participants, rounds |-> request[q].rounds]
      BY <1>1, <2>1, <2>5 DEF ReadParticipants, RequestOK
    <3>2. QED
      BY <2>2, <2>3, <2>4, <3>1 DEF Current
  <2>6. CASE ReadRounds(q)
    <3>1. request'[q] = [phase |-> "loaded", call |-> request[q].call,
                         federation |-> request[q].federation,
                         participants |-> request[q].participants, rounds |-> rounds]
      BY <1>1, <2>1, <2>6 DEF ReadRounds, RequestOK
    <3>2. request[q].participants = participants
      BY <2>6 DEF Current, ReadRounds
    <3>3. QED
      BY <2>2, <2>3, <2>4, <3>1, <3>2 DEF Current
  <2>7. QED
    BY <1>6, <2>5, <2>6
<1>7. ASSUME NEW q \in Requests, Retrain(q) PROVE Current'
  BY <1>2, <1>7 DEF Retrain, Committing
<1>8. ASSUME NEW q \in Requests,
             \/ Rollback(q) \/ JoinFederation(q) \/ StartRound(q)
             \/ SubmitUpdate(q) \/ AggregateRound(q) \/ SetStatus(q)
             \/ RemoveParticipant(q) \/ Reconnect(q)
      PROVE  Current'
  <2>1. request[q].phase # "idle"
    BY <1>8 DEF Rollback, JoinFederation, StartRound, SubmitUpdate, AggregateRound,
                SetStatus, RemoveParticipant, Reconnect, Committing
  <2>2. request' = [request EXCEPT ![q] = Fresh("idle", NoCall)]
    BY <1>8 DEF Rollback, JoinFederation, StartRound, SubmitUpdate, AggregateRound,
                SetStatus, RemoveParticipant, Reconnect, Done, Idle
  <2>3. QED
    BY <1>2, <2>1, <2>2
<1>9. QED
  BY <1>4, <1>5, <1>6, <1>7, <1>8 DEF Next

\* While requests do not overlap, what each has read is what is stored.
THEOREM ReadingsCurrent == Spec /\ []Serial => []Current
<1>1. Init => Current
  BY DEF Init, Current, Idle, Fresh
<1>2. Inv /\ Serial /\ Current /\ [Next]_vars => Current'
  BY CurrentStep
<1>3. QED
  BY <1>1, <1>2, Invariance, PTL DEF Spec

\* The epsilon a step spends: none, or one share on one round and on the total.
SpendsTogether ==
    /\ DOMAIN rounds \subseteq DOMAIN rounds'
    /\ \A n \in DOMAIN rounds' \ DOMAIN rounds : rounds'[n].spent = 0
    /\ \/ /\ federation'.spent = federation.spent
          /\ \A n \in DOMAIN rounds : rounds'[n].spent = rounds[n].spent
       \/ \E n \in DOMAIN rounds :
             /\ federation'.spent = federation.spent + 1
             /\ rounds'[n].spent = rounds[n].spent + 1
             /\ \A m \in DOMAIN rounds \ {n} : rounds'[m].spent = rounds[m].spent

\* While requests do not overlap, the total of the federation moves with the
\* rounds it sums up: the spending that concurrent submissions lose
\* (SpendingIsCumulative) is lost to their overlap and to nothing else.
THEOREM SerialSpendingAddsUp == Spec /\ []Serial => [][SpendsTogether]_vars
<1>1. ASSUME Inv, Current, Next
      PROVE  SpendsTogether
  <2>1. /\ federation \in FederationRows /\ RoundTable(rounds) /\ TableOK(rounds)
        /\ \A n \in DOMAIN rounds : rounds[n] \in RoundRows
    BY <1>1 DEF Inv, TypeOK, RoundTable
  <2>2. CASE UNCHANGED <<federation, rounds>>
    BY <2>2 DEF SpendsTogether
  <2>3. ASSUME NEW q \in Requests,
               JoinFederation(q) \/ SetStatus(q) \/ Retrain(q)
        PROVE  SpendsTogether
    <3>1. federation'.spent = federation.spent /\ UNCHANGED rounds
      BY <2>1, <2>3 DEF JoinFederation, SetStatus, Retrain, FederationRows
    <3>2. QED
      BY <3>1 DEF SpendsTogether
  <2>4. ASSUME NEW q \in Requests, StartRound(q)
        PROVE  SpendsTogether
    <3> DEFINE n == request[q].federation.current_round + 1
    <3>1. /\ rounds' = [m \in DOMAIN rounds \cup {n} |->
                           IF m = n THEN NewRound ELSE rounds[m]]
          /\ n \notin DOMAIN rounds
      BY <2>4 DEF StartRound
    <3>2. federation'.spent = federation.spent
      BY <2>1, <2>4 DEF StartRound, FederationRows
    <3>3. \A m \in DOMAIN rounds : rounds'[m].spent = rounds[m].spent
      BY <3>1
    <3>4. DOMAIN rounds' \ DOMAIN rounds = {n} /\ rounds'[n].spent = 0
      BY <3>1 DEF NewRound
    <3>5. DOMAIN rounds \subseteq DOMAIN rounds'
      BY <3>1
    <3> HIDE DEF n
    <3>6. QED
      BY <3>2, <3>3, <3>4, <3>5 DEF SpendsTogether
  <2>5. ASSUME NEW q \in Requests, SubmitUpdate(q)
        PROVE  SpendsTogether
    <3> DEFINE n == request[q].call.round
               s == request[q].call.site
    <3>1. request[q].rounds = rounds /\ request[q].federation = federation
      BY <1>1, <2>5 DEF Current, SubmitUpdate, Committing
    <3>2. n \in DOMAIN rounds
      BY <2>5, <3>1 DEF SubmitUpdate
    <3>3. rounds' = [rounds EXCEPT ![n] = WithUpdate(rounds[n], rounds[n], s)]
      BY <2>5, <3>1 DEF SubmitUpdate
    <3>4. rounds'[n].spent = rounds[n].spent + 1
      BY <3>2, <3>3 DEF WithUpdate
    <3>5. \A m \in DOMAIN rounds \ {n} : rounds'[m].spent = rounds[m].spent
      BY <3>3
    <3>6. federation'.spent = federation.spent + 1
      BY <2>1, <2>5, <3>1 DEF SubmitUpdate, FederationRows
    <3>7. DOMAIN rounds' = DOMAIN rounds
      BY <3>3
    <3> HIDE DEF n
    <3>8. QED
      BY <3>2, <3>4, <3>5, <3>6, <3>7 DEF SpendsTogether
  <2>6. ASSUME NEW q \in Requests, AggregateRound(q)
        PROVE  SpendsTogether
    <3> DEFINE n == request[q].call.round
    <3>1. rounds' = [rounds EXCEPT ![n].status = "completed"]
      BY <2>6 DEF AggregateRound
    <3>2. \A m \in DOMAIN rounds : rounds'[m].spent = rounds[m].spent
      BY <2>1, <3>1 DEF RoundRows
    <3>3. federation'.spent = federation.spent
      BY <2>1, <2>6 DEF AggregateRound, FederationRows
    <3>4. DOMAIN rounds' = DOMAIN rounds
      BY <3>1
    <3>5. QED
      BY <3>2, <3>3, <3>4 DEF SpendsTogether
  <2>7. QED
    BY <1>1, <2>2, <2>3, <2>4, <2>5, <2>6
       DEF Next, Receive, Reload, ReadParticipants, ReadRounds, Rollback, RemoveParticipant,
           Reconnect
<1>2. Inv /\ Current /\ [Next]_vars => [SpendsTogether]_vars
  BY <1>1
<1>3. QED
  BY <1>2, ReadingsCurrent, Invariance, PTL DEF Spec
=============================================================================
