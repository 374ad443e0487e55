----------------------------- MODULE RuleEngine -----------------------------
(***************************************************************************)
(* The rule engine of backend/app/services/alerts/alert_service.py: one    *)
(* object per process, whose event history serves every temporal condition *)
(* of every rule.  Conditions that watch the same metric, operator and     *)
(* value share one list of events; temporal conditions over compound ones  *)
(* have none of the three and all share the same list.                     *)
(*                                                                         *)
(* An evaluation runs without awaiting, so it is one step.  A list of      *)
(* timestamps is modelled by how many events it holds for each time.       *)
(***************************************************************************)
EXTENDS Integers, FiniteSets, Sequences, Functions

CONSTANTS
    Rules,     \* conditions of the rules that are evaluated
    Tested,    \* conditions that are tested (test_rule)
    Bases,     \* base conditions, true or false of the metrics of the moment
    Keys,      \* history keys
    MaxClock   \* bound: times that pass

\* A condition with all those inside it, in the order in which their evaluations
\* end: each names the positions of the ones directly in it, the last is the
\* whole.  all: AND of a compound one, require_both of a cross-modal one.
Nodes == [type : {"threshold", "temporal", "compound", "cross_modal"}, all : BOOLEAN,
          subs : SUBSET Nat, base : Bases, key : Keys, window : Nat, min : Nat]

Conditions == Rules \cup Tested

ASSUME EngineAssumption ==
    /\ MaxClock \in Nat
    /\ \A c \in Conditions :
           /\ c \in Seq(Nodes) /\ c # <<>>
           /\ \A i \in DOMAIN c : c[i].subs \subseteq 1 .. i - 1

VARIABLES
    clock,    \* the time
    history,  \* _event_history: per key, how many events of each time it holds
    fired     \* history: per key, how often a condition held at each time

engineVars == <<clock, history, fired>>

Times == 0 .. MaxClock

\* Mutant of Recent: an event on the edge of a window is dropped.
RecentOnly(events, windows) ==
    [t \in Times |-> IF \A w \in windows : t > clock - w THEN events[t] ELSE 0]

\* The events that pruning keeps: those in all the windows.
Recent(events, windows) ==
    [t \in Times |-> IF \A w \in windows : t >= clock - w THEN events[t] ELSE 0]

\* n more events now.
Plus(events, n) == [events EXCEPT ![clock] = @ + n]

Count(events) == FoldFunction(+, 0, events)

\* The temporal conditions among the first i of c that use a key.  They are
\* evaluated in order, none is skipped, and each appends first and then prunes
\* by its window.
Users(c, i, k) == {j \in 1 .. i : c[j].type = "temporal" /\ c[j].key = k}

\* The history of k after the first i of c, of which those in met hold.
After(c, i, k, met) ==
    LET users == Users(c, i, k)
    IN  Plus(Recent(history[k], {c[j].window : j \in users}),
             Cardinality({j \in users : c[j].subs \cap met # {}}))

\* _dispatch: the positions in c of the conditions that hold.
Met(c, holds) ==
    LET met[i \in DOMAIN c] ==
            LET before == {m \in 1 .. i - 1 : met[m]}
                within == c[i].subs \cap before
            IN  CASE c[i].type = "threshold" -> c[i].base \in holds
                  [] c[i].type = "temporal" ->
                         Count(After(c, i, c[i].key, before)) >= c[i].min
                  [] OTHER -> within # {} /\ (c[i].all => within = c[i].subs)
    IN  {i \in DOMAIN c : met[i]}

\* evaluate's "triggered".
Triggered(c, holds) == Len(c) \in Met(c, holds)

\* The length of "matched_conditions".  A compound condition hands on what is
\* matched inside it even when it fails itself; the others add a line of their
\* own when they hold, and drop everything when not.
Matched(c, holds) ==
    LET met == Met(c, holds)
        lines[i \in DOMAIN c] ==
            LET of == IF c[i].type = "cross_modal" THEN c[i].subs \cap met ELSE c[i].subs
                within == UNION {lines[m] : m \in of}
            IN  IF c[i].type = "compound" THEN within
                ELSE IF i \in met THEN {i} \cup within
                ELSE {}
    IN  Cardinality(lines[Len(c)])

\* The engine evaluates c on metrics for which exactly the base conditions in
\* holds are true.
Feed(c, holds) ==
    LET met == Met(c, holds)
    IN  /\ history' = [k \in Keys |-> After(c, Len(c), k, met)]
        /\ fired' = [k \in Keys |->
               Plus(fired[k], Cardinality({j \in Users(c, Len(c), k) :
                                              c[j].subs \cap met # {}}))]
        /\ UNCHANGED clock

Tick ==
    /\ clock < MaxClock
    /\ clock' = clock + 1
    /\ UNCHANGED <<history, fired>>

EngineInit ==
    /\ clock = 0
    /\ history = [k \in Keys |-> [t \in Times |-> 0]]
    /\ fired = [k \in Keys |-> [t \in Times |-> 0]]

EngineTypeOK ==
    /\ clock \in Times
    /\ history \in [Keys -> [Times -> Nat]]
    /\ fired \in [Keys -> [Times -> Nat]]

\* A key's history invents no event, and holds every event that the narrowest
\* window of the conditions sharing the key still covers, those that are only
\* tested included: a condition with a wider window loses events to its
\* neighbours and to tests, the narrowest one never does (_evaluate_temporal).
Windows(k) ==
    UNION {{c[i].window : i \in Users(c, Len(c), k)} : c \in Conditions}

HistoryExact ==
    \A k \in Keys, t \in Times :
        /\ history[k][t] <= fired[k][t]
        /\ (\A w \in Windows(k) : t >= clock - w) => history[k][t] = fired[k][t]
=============================================================================
