------------------------------- MODULE Alerts -------------------------------
(***************************************************************************)
(* The alerts of one workspace: the rows of the table alerts under         *)
(* evaluate_rule with its deduplication, the status transitions and the    *)
(* escalation policy of backend/app/services/alerts/alert_service.py.      *)
(*                                                                         *)
(* Rules themselves are given.  No row is locked: a request reads, and     *)
(* commits the columns it changed.  The payload, which holds both the      *)
(* duplicate count and the escalation level, is one column.                *)
(***************************************************************************)
EXTENDS RuleEngine

CONSTANTS
    Requests,     \* requests in flight
    DedupWindow,  \* five minutes
    Levels,       \* levels of the escalation policy
    MaxRequests   \* bound: requests that are made

ASSUME AlertsAssumption ==
    DedupWindow \in Nat /\ Levels \in Nat /\ MaxRequests \in Nat

VARIABLES
    alerts,   \* the rows, numbered as they are inserted
    request,  \* what each request is doing, with the row it read
    made,     \* how many requests have been made
    story     \* history: per alert, what happened to it

alertVars == <<alerts, request, made, story>>

Severities == <<"low", "medium", "high", "critical">>
Statuses == {"new", "acknowledged", "resolved", "dismissed"}
Closed == {"resolved", "dismissed"}

AlertRows ==
    [rule : Rules, severity : Range(Severities), status : Statuses,
     payload : [duplicates : Nat \ {0}, level : Int], born : Times]

\* saw: the alerts the evaluation's SELECT could see; stirred: once closed
\* or escalated; torn: a request wrote its payload from an old reading.
Stories ==
    [saw : Nat, joined : Nat, raised : Nat, stirred : BOOLEAN, torn : BOOLEAN]

NoRow == [status |-> "none"]
NoRule == <<>>

Session(phase, op, rule, severity, id, row, status) ==
    [phase |-> phase, op |-> op, rule |-> rule, severity |-> severity,
     id |-> id, row |-> row, status |-> status]

Sessions ==
    [phase : {"idle", "fired", "ready"},
     op : {"none", "evaluate", "trigger", "join", "transition", "escalate", "resolve"},
     rule : Rules \cup {NoRule}, severity : Range(Severities) \cup {"none"},
     id : Nat, row : AlertRows \cup {NoRow},
     status : Statuses \cup {"none", "accept_server", "force_local", "dismiss"}]

Idle == Session("idle", "none", NoRule, "none", 0, NoRow, "none")

Column(read, new, stored) == IF new = read THEN stored ELSE new

\* One level up, capped.
Above(severity) ==
    LET i == CHOOSE i \in DOMAIN Severities : Severities[i] = severity
    IN  IF i = Len(Severities) THEN severity ELSE Severities[i + 1]

\* auto_severity_scoring.
Scored(conditions, base) == IF conditions <= 1 THEN base ELSE Above(base)

Begin(q, session) ==
    /\ request[q].phase = "idle"
    /\ made < MaxRequests
    /\ made' = made + 1
    /\ request' = [request EXCEPT ![q] = session]

(***************************************************************************)
(* Evaluation                                                              *)
(***************************************************************************)
\* "type" of the whole condition.
Kind(rule) == rule[Len(rule)].type

\* The engine runs; a rule that does not fire ends the request.
EvaluateByEngine(q) ==
    \E rule \in Rules, holds \in SUBSET Bases :
        /\ Kind(rule) # "threshold"
        /\ Begin(q, IF Triggered(rule, holds)
                    THEN Session("fired", "evaluate", rule,
                                 Scored(Matched(rule, holds), "medium"), 0, NoRow, "none")
                    ELSE Idle)
        /\ Feed(rule, holds)
        /\ UNCHANGED <<alerts, story>>

\* A threshold rule that fires has a severity by how far the value is off.
EvaluateThreshold(q) ==
    \E rule \in Rules, severity \in Range(Severities) :
        /\ Kind(rule) = "threshold"
        /\ Begin(q, Session("fired", "evaluate", rule, severity, 0, NoRow, "none"))
        /\ UNCHANGED <<engineVars, alerts, story>>

\* test_rule takes any condition and runs on the same engine.
TestRule ==
    /\ made < MaxRequests
    /\ made' = made + 1
    /\ \E c \in Tested, holds \in SUBSET Bases : Feed(c, holds)
    /\ UNCHANGED <<alerts, request, story>>

\* Mutant of Open: acknowledged alerts are no duplicates.
OnlyNew(status) == status = "new"

Open(status) == status \in {"new", "acknowledged"}

Duplicates(rule, severity) ==
    {a \in DOMAIN alerts :
        /\ alerts[a].rule = rule
        /\ alerts[a].severity = severity
        /\ alerts[a].born >= clock - DedupWindow
        /\ Open(alerts[a].status)}

\* deduplicate_alert's SELECT: the newest, any of those as new.
Deduplicate(q) ==
    LET r == request[q]
        found == Duplicates(r.rule, r.severity)
    IN  /\ r.phase = "fired"
        /\ \/ /\ found = {}
              /\ request' = [request EXCEPT ![q] =
                     Session("ready", "trigger", r.rule, r.severity, Len(alerts), NoRow, "none")]
           \/ \E a \in found :
                  /\ \A b \in found : alerts[b].born <= alerts[a].born
                  /\ request' = [request EXCEPT ![q] =
                         Session("ready", "join", r.rule, r.severity, a, alerts[a], "none")]
        /\ UNCHANGED <<engineVars, alerts, made, story>>

Fresh(rule, severity) ==
    [rule |-> rule, severity |-> severity, status |-> "new",
     payload |-> [duplicates |-> 1, level |-> -1], born |-> clock]

Untouched(saw) ==
    [saw |-> saw, joined |-> 0, raised |-> 0, stirred |-> FALSE, torn |-> FALSE]

\* The story goes on.
Told(s, joined, raised, stirred, torn) ==
    [saw |-> s.saw, joined |-> s.joined + joined, raised |-> s.raised + raised,
     stirred |-> s.stirred \/ stirred, torn |-> s.torn \/ torn]

\* Insert of a new alert.
Insert(rule, severity, saw) ==
    /\ alerts' = Append(alerts, Fresh(rule, severity))
    /\ story' = Append(story, Untouched(saw))

Ready(q, op) == request[q].phase = "ready" /\ request[q].op = op

Done(q) ==
    /\ request' = [request EXCEPT ![q] = Idle]
    /\ UNCHANGED <<engineVars, made>>

TriggerAlert(q) ==
    /\ Ready(q, "trigger")
    /\ Insert(request[q].rule, request[q].severity, request[q].id)
    /\ Done(q)

\* The route /alerts/test triggers without deduplication.
TestAlert ==
    /\ made < MaxRequests
    /\ made' = made + 1
    /\ \E rule \in Rules : Insert(rule, "medium", 0)
    /\ UNCHANGED <<engineVars, request>>

\* The counters a request writes are those it read, and one more.
Counted(payload) == [payload EXCEPT !.duplicates = @ + 1]

\* Mutant of Raised: the count of duplicates starts again.
RaisedAlone(payload) == [duplicates |-> 1, level |-> payload.level + 1]

Raised(payload) == [payload EXCEPT !.level = @ + 1]

JoinDuplicate(q) ==
    LET a == request[q].id
        read == request[q].row
    IN  /\ Ready(q, "join")
        /\ alerts' = [alerts EXCEPT ![a].payload = Counted(read.payload)]
        /\ story' = [story EXCEPT
               ![a] = Told(@, 1, 0, FALSE, read.payload # alerts[a].payload)]
        /\ Done(q)

(***************************************************************************)
(* Transitions and escalation                                              *)
(***************************************************************************)
LoadAlert(q) ==
    \E a \in DOMAIN alerts :
        /\ \/ \E status \in Statuses :
                  Begin(q, Session("ready", "transition", NoRule, "none", a, alerts[a], status))
           \/ Begin(q, Session("ready", "escalate", NoRule, "none", a, alerts[a], "none"))
        /\ UNCHANGED <<engineVars, alerts, story>>

\* _transition_alert looks at no status.
Transition(q) ==
    LET a == request[q].id
        read == request[q].row
        status == request[q].status
    IN  /\ Ready(q, "transition")
        /\ alerts' = [alerts EXCEPT ![a].status = Column(read.status, status, @)]
        /\ story' = [story EXCEPT
               ![a] = Told(@, 0, 0, status \in Closed, FALSE)]
        /\ Done(q)

\* The first level leaves the severity alone.
EscalatedSeverity(severity, level) ==
    IF level >= 2 THEN "critical"
    ELSE IF level = 1 THEN Scored(2, severity)
    ELSE severity

\* escalate looks at no status either; on the last level it only reads.
Escalate(q) ==
    LET a == request[q].id
        read == request[q].row
        level == read.payload.level + 1
        severity == EscalatedSeverity(read.severity, level)
    IN  /\ Ready(q, "escalate")
        /\ level < Levels
        /\ alerts' = [alerts EXCEPT
               ![a] = [rule |-> @.rule, severity |-> Column(read.severity, severity, @.severity),
                       status |-> @.status, payload |-> Raised(read.payload), born |-> @.born]]
        /\ story' = [story EXCEPT
               ![a] = Told(@, 0, 1, TRUE, read.payload # alerts[a].payload)]
        /\ Done(q)

\* The handler returned early or raised, the commit was refused, the worker died.
Rollback(q) ==
    /\ request[q].phase # "idle"
    /\ Done(q)
    /\ UNCHANGED <<alerts, story>>

-----------------------------------------------------------------------------
\* At first there is no alert, or one that was escalated once.
AlertsInit ==
    /\ EngineInit
    /\ \/ alerts = <<>> /\ story = <<>>
       \/ \E rule \in Rules :
              /\ alerts = <<[Fresh(rule, "medium") EXCEPT !.payload.level = 0]>>
              /\ story = <<[Untouched(0) EXCEPT !.raised = 1, !.stirred = TRUE]>>
    /\ request = [q \in Requests |-> Idle]
    /\ made = 0

AlertsNext ==
    \/ Tick /\ UNCHANGED alertVars
    \/ TestRule
    \/ TestAlert
    \/ \E q \in Requests :
           \/ EvaluateByEngine(q) \/ EvaluateThreshold(q) \/ Deduplicate(q)
           \/ TriggerAlert(q) \/ JoinDuplicate(q)
           \/ LoadAlert(q) \/ Transition(q) \/ Escalate(q) \/ Rollback(q)

(***************************************************************************)
(* Properties                                                              *)
(***************************************************************************)
AlertsTypeOK ==
    /\ EngineTypeOK
    /\ alerts \in Seq(AlertRows)
    /\ story \in Seq(Stories)
    /\ Len(story) = Len(alerts)
    /\ request \in [Requests -> Sessions]
    /\ made \in 0 .. MaxRequests

\* One incident, one alert: of two alerts a rule raised with one severity in
\* one window, the later evaluation could not see the earlier alert, unless
\* either was closed or escalated meanwhile (deduplicate_alert).
OneIncidentOneAlert ==
    \A a, b \in DOMAIN alerts :
        /\ a < b
        /\ alerts[a].rule = alerts[b].rule /\ alerts[a].severity = alerts[b].severity
        /\ alerts[b].born - alerts[a].born <= DedupWindow
        /\ ~story[a].stirred /\ ~story[b].stirred
        => a > story[b].saw

\* Racing requests lose counts and levels but never invent one; unless they
\* wrote the payload of an alert from old readings of it, the alert counts every
\* duplicate and stands at the level it was raised to (deduplicate_alert,
\* escalate).
CountersExact ==
    \A a \in DOMAIN alerts :
        LET payload == alerts[a].payload
            counted == 1 + story[a].joined
            raised == story[a].raised - 1
        IN  /\ payload.duplicates <= counted /\ payload.level <= raised
            /\ ~story[a].torn => payload.duplicates = counted /\ payload.level = raised
=============================================================================
