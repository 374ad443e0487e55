------------------------- MODULE OfflineSyncProofs -------------------------
(***************************************************************************)
(* Proofs about OfflineSync, for any rules, requests, devices and bounds.  *)
(***************************************************************************)
EXTENDS OfflineSync, FiniteSetTheorems, SequenceTheorems, TLAPS

-----------------------------------------------------------------------------
(***************************************************************************)
(* The rule engine                                                         *)
(***************************************************************************)
LEMMA EngineInitially == EngineInit => EngineTypeOK /\ HistoryExact
<1> SUFFICES ASSUME EngineInit PROVE EngineTypeOK /\ HistoryExact
  OBVIOUS
<1>1. 0 \in Times
  BY EngineAssumption DEF Times
<1> QED BY <1>1 DEF EngineInit, EngineTypeOK, HistoryExact

LEMMA PlusCounts ==
  ASSUME EngineTypeOK, NEW events \in [Times -> Nat], NEW n \in Nat
  PROVE  /\ Plus(events, n) \in [Times -> Nat]
         /\ Plus(events, n)[clock] = events[clock] + n
         /\ \A t \in Times : t # clock => Plus(events, n)[t] = events[t]
  BY DEF Plus, EngineTypeOK

\* The history of a key after an evaluation, and all its events.
Now(c, met, k) == After(c, Len(c), k, met)
All(c, met, k) ==
    Plus(fired[k], Cardinality({j \in Users(c, Len(c), k) : c[j].subs \cap met # {}}))

LEMMA AfterPart ==
  ASSUME EngineTypeOK, HistoryExact, NEW c \in Conditions, NEW met, NEW k \in Keys
  PROVE  /\ Now(c, met, k) \in [Times -> Nat]
         /\ All(c, met, k) \in [Times -> Nat]
         /\ \A t \in Times : Now(c, met, k)[t] <= All(c, met, k)[t]
         /\ \A t \in Times : (\A w \in Windows(k) : t >= clock - w) =>
                Now(c, met, k)[t] = All(c, met, k)[t]
<1> DEFINE users == Users(c, Len(c), k)
           hits == {j \in users : c[j].subs \cap met # {}}
           n == Cardinality(hits)
           windows == {c[j].window : j \in users}
           kept == Recent(history[k], windows)
<1>1. c \in Seq(Nodes) /\ Len(c) \in Nat /\ DOMAIN c = 1 .. Len(c)
  BY EngineAssumption, LenProperties
<1>2. \A j \in 1 .. Len(c) : c[j] \in Nodes
  BY <1>1, ElementOfSeq
<1>3. users \subseteq 1 .. Len(c) /\ \A j \in users : c[j].type = "temporal" /\ c[j].key = k
  BY DEF Users
<1>4. n \in Nat
  <2>1. IsFiniteSet(1 .. Len(c))
    BY <1>1, FS_Interval
  <2>2. hits \subseteq 1 .. Len(c)
    BY <1>3
  <2> HIDE DEF hits
  <2> QED BY <2>1, <2>2, FS_Subset, FS_CardinalityType
<1>5. windows \subseteq Nat /\ windows \subseteq Windows(k)
  <2>1. windows \subseteq Nat
    BY <1>2, <1>3 DEF Nodes
  <2>2. ASSUME NEW j \in users PROVE c[j].window \in Windows(k)
    <3>1. c[j].window \in {c[i].window : i \in Users(c, Len(c), k)}
      OBVIOUS
    <3> QED BY <3>1 DEF Windows
  <2> QED BY <2>1, <2>2
<1>6. history[k] \in [Times -> Nat] /\ fired[k] \in [Times -> Nat] /\ clock \in Nat
  BY DEF EngineTypeOK, Times
<1>7. /\ kept \in [Times -> Nat]
      /\ \A t \in Times : kept[t] \in {0, history[k][t]}
      /\ \A t \in Times : (\A w \in windows : t >= clock - w) => kept[t] = history[k][t]
  BY <1>6 DEF Recent
<1>8. \A w \in windows : clock >= clock - w
  <2> HIDE DEF windows
  <2> QED BY <1>5, <1>6
<1>9. kept[clock] = history[k][clock] /\ clock \in Times
  BY <1>7, <1>8 DEF EngineTypeOK
<1>10. /\ Plus(kept, n) \in [Times -> Nat]
       /\ Plus(kept, n)[clock] = kept[clock] + n
       /\ \A t \in Times : t # clock => Plus(kept, n)[t] = kept[t]
  BY <1>4, <1>7, PlusCounts
<1>11. /\ Plus(fired[k], n) \in [Times -> Nat]
       /\ Plus(fired[k], n)[clock] = fired[k][clock] + n
       /\ \A t \in Times : t # clock => Plus(fired[k], n)[t] = fired[k][t]
  BY <1>4, <1>6, PlusCounts
<1>12. Now(c, met, k) = Plus(kept, n) /\ All(c, met, k) = Plus(fired[k], n)
  BY DEF Now, All, After
<1>13. \A t \in Times : history[k][t] <= fired[k][t]
  BY DEF HistoryExact
<1>14. \A t \in Times : (\A w \in Windows(k) : t >= clock - w) =>
           history[k][t] = fired[k][t] /\ kept[t] = history[k][t]
  BY <1>5, <1>7 DEF HistoryExact
<1> HIDE DEF kept, windows, n
<1>15. \A t \in Times : Plus(kept, n)[t] <= Plus(fired[k], n)[t]
  <2> SUFFICES ASSUME NEW t \in Times PROVE Plus(kept, n)[t] <= Plus(fired[k], n)[t]
    OBVIOUS
  <2>1. kept[t] \in Nat /\ fired[k][t] \in Nat
    BY <1>6, <1>7
  <2>2. kept[t] <= fired[k][t]
    <3>1. kept[t] = 0 \/ kept[t] = history[k][t]
      BY <1>7
    <3> QED BY <3>1, <2>1, <1>13
  <2> QED BY <2>1, <2>2, <1>4, <1>10, <1>11
<1>16. \A t \in Times : (\A w \in Windows(k) : t >= clock - w) =>
           Plus(kept, n)[t] = Plus(fired[k], n)[t]
  <2> SUFFICES ASSUME NEW t \in Times, \A w \in Windows(k) : t >= clock - w
               PROVE  Plus(kept, n)[t] = Plus(fired[k], n)[t]
    OBVIOUS
  <2>1. kept[t] = fired[k][t]
    BY <1>14
  <2> QED BY <2>1, <1>10, <1>11
<1> QED BY <1>10, <1>11, <1>12, <1>15, <1>16

LEMMA FeedStep ==
  ASSUME EngineTypeOK, HistoryExact, NEW c \in Conditions, NEW holds, Feed(c, holds)
  PROVE  EngineTypeOK' /\ HistoryExact'
<1> DEFINE met == Met(c, holds)
<1>1. /\ history' = [k \in Keys |-> Now(c, met, k)]
      /\ fired' = [k \in Keys |-> All(c, met, k)]
      /\ clock' = clock
  BY DEF Feed, Now, All
<1> HIDE DEF met
<1>2. EngineTypeOK'
  BY <1>1, AfterPart DEF EngineTypeOK
<1>3. HistoryExact'
  BY <1>1, AfterPart DEF HistoryExact
<1> QED BY <1>2, <1>3

LEMMA TickStep ==
  ASSUME EngineTypeOK, HistoryExact, Tick
  PROVE  EngineTypeOK' /\ HistoryExact'
<1>1. EngineTypeOK'
  BY EngineAssumption DEF Tick, EngineTypeOK, Times
<1>2. ASSUME NEW k \in Keys, NEW w \in Windows(k), NEW t \in Times, t >= clock' - w
      PROVE  t >= clock - w
  <2>1. w \in Nat
    <3>1. PICK c \in Conditions : \E i \in Users(c, Len(c), k) : w = c[i].window
      BY <1>2 DEF Windows
    <3>2. c \in Seq(Nodes)
      BY EngineAssumption
    <3>3. \A i \in 1 .. Len(c) : c[i] \in Nodes
      BY <3>2, ElementOfSeq
    <3> QED BY <3>1, <3>3 DEF Users, Nodes
  <2> QED BY <2>1, <1>2 DEF Tick, EngineTypeOK, Times
<1>3. HistoryExact'
  BY <1>2 DEF Tick, HistoryExact
<1> QED BY <1>1, <1>3

-----------------------------------------------------------------------------
(***************************************************************************)
(* The rows of alerts                                                      *)
(***************************************************************************)
ClosedIsStirred ==
    \A a \in DOMAIN alerts : alerts[a].status \in Closed => story[a].stirred

Rows ==
    /\ alerts \in Seq(AlertRows)
    /\ story \in Seq(Stories)
    /\ Len(story) = Len(alerts)
    /\ clock \in Times
    /\ CountersExact
    /\ ClosedIsStirred
    /\ OneIncidentOneAlert

\* What a step may do to an alert: j duplicates joined it, n levels were
\* raised; only one that is stirred changes its severity or is closed.
RowStep(a) ==
    \E j \in Nat, n \in Nat, stirred \in BOOLEAN, torn \in BOOLEAN :
        /\ story'[a] = Told(story[a], j, n, stirred, torn)
        /\ alerts'[a].rule = alerts[a].rule /\ alerts'[a].born = alerts[a].born
        /\ alerts'[a].severity = alerts[a].severity \/ stirred
        /\ alerts'[a].status \in Closed => alerts[a].status \in Closed \/ stirred
        /\ alerts'[a].payload.duplicates <= 1 + story[a].joined + j
        /\ alerts'[a].payload.level <= story[a].raised + n - 1
        /\ torn \/ (/\ alerts'[a].payload.duplicates = alerts[a].payload.duplicates + j
                    /\ alerts'[a].payload.level = alerts[a].payload.level + n)

\* What every step does.
Grows ==
    /\ Len(alerts) <= Len(alerts') /\ clock <= clock'
    /\ \A a \in DOMAIN alerts :
           /\ alerts'[a].rule = alerts[a].rule /\ alerts'[a].born = alerts[a].born
           /\ alerts'[a].severity = alerts[a].severity \/ story'[a].stirred
           /\ story[a].stirred => story'[a].stirred
           /\ story'[a].saw = story[a].saw
           /\ story[a].joined <= story'[a].joined /\ story[a].raised <= story'[a].raised

LEMMA Domains ==
  ASSUME Rows
  PROVE  /\ Len(alerts) \in Nat
         /\ DOMAIN alerts = 1 .. Len(alerts) /\ DOMAIN story = 1 .. Len(alerts)
         /\ \A a \in DOMAIN alerts : alerts[a] \in AlertRows /\ story[a] \in Stories
  BY LenProperties, ElementOfSeq DEF Rows

\* The counters never run ahead of the story.
Within(payload, tale) ==
    payload.duplicates <= 1 + tale.joined /\ payload.level <= tale.raised - 1

LEMMA CountersWithin ==
  ASSUME Rows, NEW a \in DOMAIN alerts
  PROVE  Within(alerts[a].payload, story[a])
  BY DEF Rows, CountersExact, Within

LEMMA ToldStories ==
  ASSUME NEW s \in Stories, NEW j \in Nat, NEW n \in Nat,
         NEW stirred \in BOOLEAN, NEW torn \in BOOLEAN
  PROVE  /\ Told(s, j, n, stirred, torn) \in Stories
         /\ Told(s, j, n, stirred, torn).saw = s.saw
         /\ Told(s, j, n, stirred, torn).joined = s.joined + j
         /\ Told(s, j, n, stirred, torn).raised = s.raised + n
         /\ s.stirred \/ stirred <=> Told(s, j, n, stirred, torn).stirred
         /\ s.torn \/ torn <=> Told(s, j, n, stirred, torn).torn
  BY DEF Told, Stories

LEMMA NothingTold ==
  ASSUME NEW s \in Stories
  PROVE  s = Told(s, 0, 0, FALSE, FALSE)
  BY DEF Told, Stories

LEMMA RowSteps ==
  ASSUME Rows, alerts' \in Seq(AlertRows), story' \in Seq(Stories),
         Len(alerts') = Len(alerts), Len(story') = Len(story), clock' \in Times,
         clock <= clock', \A a \in DOMAIN alerts : RowStep(a)
  PROVE  Rows' /\ Grows
<1>1. /\ Len(alerts) \in Nat
      /\ DOMAIN alerts = 1 .. Len(alerts) /\ DOMAIN alerts' = 1 .. Len(alerts)
      /\ \A a \in DOMAIN alerts :
             /\ alerts[a] \in AlertRows /\ story[a] \in Stories
             /\ alerts'[a] \in AlertRows /\ story'[a] \in Stories
  BY Domains, LenProperties, ElementOfSeq DEF Rows
<1>2. \A a \in DOMAIN alerts :
         /\ alerts'[a].rule = alerts[a].rule /\ alerts'[a].born = alerts[a].born
         /\ alerts'[a].severity = alerts[a].severity \/ story'[a].stirred
         /\ story[a].stirred => story'[a].stirred
         /\ story'[a].saw = story[a].saw
         /\ alerts'[a].status \in Closed => alerts[a].status \in Closed \/ story'[a].stirred
  <2> SUFFICES ASSUME NEW a \in DOMAIN alerts
               PROVE  /\ alerts'[a].rule = alerts[a].rule /\ alerts'[a].born = alerts[a].born
                      /\ alerts'[a].severity = alerts[a].severity \/ story'[a].stirred
                      /\ story[a].stirred => story'[a].stirred
                      /\ story'[a].saw = story[a].saw
                      /\ alerts'[a].status \in Closed =>
                             alerts[a].status \in Closed \/ story'[a].stirred
    OBVIOUS
  <2>1. PICK j \in Nat, n \in Nat, stirred \in BOOLEAN, torn \in BOOLEAN :
            /\ story'[a] = Told(story[a], j, n, stirred, torn)
            /\ alerts'[a].rule = alerts[a].rule /\ alerts'[a].born = alerts[a].born
            /\ alerts'[a].severity = alerts[a].severity \/ stirred
            /\ alerts'[a].status \in Closed => alerts[a].status \in Closed \/ stirred
    BY DEF RowStep
  <2>2. /\ Told(story[a], j, n, stirred, torn).saw = story[a].saw
        /\ story[a].stirred \/ stirred <=> Told(story[a], j, n, stirred, torn).stirred
    BY DEF Told
  <2> QED BY <2>1, <2>2
<1>7. \A a \in DOMAIN alerts :
         story[a].joined <= story'[a].joined /\ story[a].raised <= story'[a].raised
  <2> SUFFICES ASSUME NEW a \in DOMAIN alerts
               PROVE  story[a].joined <= story'[a].joined /\ story[a].raised <= story'[a].raised
    OBVIOUS
  <2>1. PICK j \in Nat, n \in Nat, stirred \in BOOLEAN, torn \in BOOLEAN :
            story'[a] = Told(story[a], j, n, stirred, torn)
    BY DEF RowStep
  <2>2. story'[a].joined = story[a].joined + j /\ story'[a].raised = story[a].raised + n
    BY <2>1 DEF Told
  <2>3. story[a].joined \in Nat /\ story[a].raised \in Nat
    BY <1>1 DEF Stories
  <2> QED BY <2>2, <2>3
<1>3. Grows
  BY <1>1, <1>2, <1>7 DEF Grows, Rows
<1>4. CountersExact'
  <2> SUFFICES ASSUME NEW a \in DOMAIN alerts
               PROVE  /\ alerts'[a].payload.duplicates <= 1 + story'[a].joined
                      /\ alerts'[a].payload.level <= story'[a].raised - 1
                      /\ ~story'[a].torn =>
                             /\ alerts'[a].payload.duplicates = 1 + story'[a].joined
                             /\ alerts'[a].payload.level = story'[a].raised - 1
    BY <1>1 DEF CountersExact
  <2>1. PICK j \in Nat, n \in Nat, stirred \in BOOLEAN, torn \in BOOLEAN :
            /\ story'[a] = Told(story[a], j, n, stirred, torn)
            /\ alerts'[a].payload.duplicates <= 1 + story[a].joined + j
            /\ alerts'[a].payload.level <= story[a].raised + n - 1
            /\ torn \/ (/\ alerts'[a].payload.duplicates = alerts[a].payload.duplicates + j
                        /\ alerts'[a].payload.level = alerts[a].payload.level + n)
    BY DEF RowStep
  <2>2. story'[a].joined = story[a].joined + j /\ story'[a].raised = story[a].raised + n
    BY <2>1 DEF Told
  <2>3. ~story[a].torn => /\ alerts[a].payload.duplicates = 1 + story[a].joined
                         /\ alerts[a].payload.level = story[a].raised - 1
    BY DEF Rows, CountersExact
  <2>4. story[a].joined \in Nat /\ story[a].raised \in Nat
    BY <1>1 DEF Stories
  <2>5. /\ alerts'[a].payload.duplicates <= 1 + story'[a].joined
        /\ alerts'[a].payload.level <= story'[a].raised - 1
    <3>1. PICK joined \in Nat, raised \in Nat :
              joined = story[a].joined /\ raised = story[a].raised
      BY <2>4
    <3>2. story'[a].joined = joined + j /\ story'[a].raised = raised + n
      BY <2>2, <3>1
    <3>3. 1 + joined + j = 1 + (joined + j) /\ raised + n - 1 = (raised + n) - 1
      OBVIOUS
    <3> QED BY <2>1, <3>1, <3>2, <3>3
  <2>6. ASSUME ~story'[a].torn
        PROVE  /\ alerts'[a].payload.duplicates = 1 + story'[a].joined
               /\ alerts'[a].payload.level = story'[a].raised - 1
    <3>1. ~story[a].torn /\ ~torn
      <4>1. story[a].torn \/ torn <=> Told(story[a], j, n, stirred, torn).torn
        BY DEF Told
      <4> QED BY <2>1, <2>6, <4>1
    <3>2. PICK joined \in Nat, raised \in Nat :
              joined = story[a].joined /\ raised = story[a].raised
      BY <2>4
    <3>3. story'[a].joined = joined + j /\ story'[a].raised = raised + n
      BY <2>2, <3>2
    <3>4. /\ alerts'[a].payload.duplicates = (1 + joined) + j
          /\ alerts'[a].payload.level = (raised - 1) + n
      BY <3>1, <3>2, <2>1, <2>3
    <3>5. (1 + joined) + j = 1 + (joined + j) /\ (raised - 1) + n = (raised + n) - 1
      OBVIOUS
    <3> QED BY <3>3, <3>4, <3>5
  <2> QED BY <2>5, <2>6
<1>5. ClosedIsStirred'
  BY <1>1, <1>2 DEF Rows, ClosedIsStirred
<1>6. OneIncidentOneAlert'
  BY <1>1, <1>2 DEF Rows, OneIncidentOneAlert
<1> QED BY <1>3, <1>4, <1>5, <1>6 DEF Rows

\* A step that leaves the alerts alone.
LEMMA RowsKept ==
  ASSUME Rows, UNCHANGED <<alerts, story>>, clock' \in Times, clock <= clock'
  PROVE  Rows' /\ Grows
<1>1. CountersExact' /\ ClosedIsStirred' /\ OneIncidentOneAlert'
  BY DEF Rows, CountersExact, ClosedIsStirred, OneIncidentOneAlert
<1>2. Rows'
  BY <1>1 DEF Rows
<1>3. Grows
  BY Domains DEF Grows, Stories
<1> QED BY <1>2, <1>3

\* One alert is written.
LEMMA OneRow ==
  ASSUME Rows, NEW a \in DOMAIN alerts, NEW row \in AlertRows,
         alerts' = [alerts EXCEPT ![a] = row],
         NEW j \in Nat, NEW n \in Nat, NEW stirred \in BOOLEAN, NEW torn \in BOOLEAN,
         story' = [story EXCEPT ![a] = Told(@, j, n, stirred, torn)],
         row.rule = alerts[a].rule, row.born = alerts[a].born,
         row.severity = alerts[a].severity \/ stirred,
         row.status \in Closed => alerts[a].status \in Closed \/ stirred,
         row.payload.duplicates <= 1 + story[a].joined + j,
         row.payload.level <= story[a].raised + n - 1,
         torn \/ (/\ row.payload.duplicates = alerts[a].payload.duplicates + j
                 /\ row.payload.level = alerts[a].payload.level + n),
         clock' = clock
  PROVE  Rows' /\ Grows
<1>1. /\ Len(alerts) \in Nat
      /\ DOMAIN alerts = 1 .. Len(alerts) /\ DOMAIN story = 1 .. Len(alerts)
      /\ \A b \in DOMAIN alerts : alerts[b] \in AlertRows /\ story[b] \in Stories
  BY Domains
<1>2. Told(story[a], j, n, stirred, torn) \in Stories
  BY <1>1, ToldStories
<1>3. /\ alerts' \in Seq(AlertRows) /\ Len(alerts') = Len(alerts)
      /\ alerts'[a] = row /\ \A b \in DOMAIN alerts : b # a => alerts'[b] = alerts[b]
  BY <1>1, ExceptSeq DEF Rows
<1>4. /\ story' \in Seq(Stories) /\ Len(story') = Len(story)
      /\ story'[a] = Told(story[a], j, n, stirred, torn)
      /\ \A b \in DOMAIN alerts : b # a => story'[b] = story[b]
  BY <1>1, <1>2, ExceptSeq DEF Rows
<1>5. RowStep(a)
  BY <1>3, <1>4 DEF RowStep
<1>6. ASSUME NEW b \in DOMAIN alerts, b # a PROVE RowStep(b)
  <2>1. story[b] = Told(story[b], 0, 0, FALSE, FALSE)
    BY <1>1, NothingTold
  <2>2. /\ alerts[b].payload.duplicates = alerts[b].payload.duplicates + 0
        /\ alerts[b].payload.level = alerts[b].payload.level + 0
        /\ alerts[b].payload.duplicates <= 1 + story[b].joined + 0
        /\ alerts[b].payload.level <= story[b].raised + 0 - 1
    <3>1. alerts[b] \in AlertRows /\ story[b] \in Stories
      BY <1>1
    <3>2. Within(alerts[b].payload, story[b])
      BY CountersWithin
    <3> QED BY <3>1, <3>2 DEF AlertRows, Stories, Within
  <2>3. alerts'[b] = alerts[b] /\ story'[b] = Told(story[b], 0, 0, FALSE, FALSE)
    BY <2>1, <1>3, <1>4, <1>6
  <2> QED BY <2>2, <2>3 DEF RowStep
<1>7. \A b \in DOMAIN alerts : RowStep(b)
  BY <1>5, <1>6
<1>8. clock' \in Times /\ clock <= clock'
  BY EngineAssumption DEF Rows, Times
<1> QED BY <1>3, <1>4, <1>7, <1>8, RowSteps

\* An alert is new to an evaluation that saw the first n alerts.
Fresher(rule, severity, n, rows, tale, now) ==
    \A a \in 1 .. n :
        /\ rows[a].rule = rule /\ rows[a].severity = severity
        /\ ~tale[a].stirred
        => now - rows[a].born > DedupWindow

LEMMA InsertStep ==
  ASSUME Rows, NEW rule \in Rules, NEW severity \in Range(Severities),
         NEW saw \in 0 .. Len(alerts), Insert(rule, severity, saw), clock' = clock,
         Fresher(rule, severity, saw, alerts, story, clock)
  PROVE  Rows' /\ Grows
<1> DEFINE new == Fresh(rule, severity)
           b == Len(alerts) + 1
<1>1. /\ Len(alerts) \in Nat /\ clock \in Nat
      /\ DOMAIN alerts = 1 .. Len(alerts) /\ DOMAIN story = 1 .. Len(alerts)
      /\ \A a \in DOMAIN alerts : alerts[a] \in AlertRows /\ story[a] \in Stories
  BY Domains DEF Rows, Times
<1>2. new \in AlertRows
  BY DEF Fresh, AlertRows, Statuses, Rows
<1>3. Untouched(saw) \in Stories
  BY <1>1 DEF Untouched, Stories
<1>4. /\ alerts' \in Seq(AlertRows) /\ Len(alerts') = b /\ alerts'[b] = new
      /\ \A a \in DOMAIN alerts : alerts'[a] = alerts[a]
  BY <1>1, <1>2, AppendProperties DEF Insert, Rows
<1>5. /\ story' \in Seq(Stories) /\ Len(story') = b /\ story'[b] = Untouched(saw)
      /\ \A a \in DOMAIN alerts : story'[a] = story[a]
  BY <1>1, <1>3, AppendProperties DEF Insert, Rows
<1>6. DOMAIN alerts' = 1 .. b /\ b \notin DOMAIN alerts
  BY <1>1, <1>4, LenProperties
<1>7. \A a \in DOMAIN alerts' : a = b \/ a \in DOMAIN alerts
  BY <1>1, <1>6
<1>8. /\ new.status = "new" /\ new.born = clock /\ new.payload.duplicates = 1
      /\ new.payload.level = -1 /\ new.rule = rule /\ new.severity = severity
  BY DEF Fresh
<1>9. /\ Untouched(saw).saw = saw /\ Untouched(saw).joined = 0 /\ Untouched(saw).raised = 0
  BY DEF Untouched
<1> HIDE DEF new
<1>10. CountersExact'
  BY <1>4, <1>5, <1>7, <1>8, <1>9 DEF CountersExact, Rows
<1>11. ClosedIsStirred'
  BY <1>4, <1>5, <1>7, <1>8 DEF ClosedIsStirred, Rows, Closed
<1>12. OneIncidentOneAlert'
  <2> SUFFICES ASSUME NEW c \in DOMAIN alerts', NEW d \in DOMAIN alerts', c < d,
                      alerts'[c].rule = alerts'[d].rule,
                      alerts'[c].severity = alerts'[d].severity,
                      alerts'[d].born - alerts'[c].born <= DedupWindow,
                      ~story'[c].stirred, ~story'[d].stirred
               PROVE  c > story'[d].saw
    BY DEF OneIncidentOneAlert
  <2>1. CASE d \in DOMAIN alerts
    <3>1. c \in DOMAIN alerts
      BY <2>1, <1>1, <1>6
    <3> QED BY <2>1, <3>1, <1>4, <1>5 DEF Rows, OneIncidentOneAlert
  <2>2. CASE d = b
    <3>1. c \in DOMAIN alerts /\ c \in Nat
      BY <2>2, <1>1, <1>6
    <3>2. /\ alerts[c].rule = rule /\ alerts[c].severity = severity
          /\ clock - alerts[c].born <= DedupWindow /\ ~story[c].stirred
      BY <2>2, <3>1, <1>4, <1>5, <1>8
    <3>3. alerts[c].born \in Nat
      BY <3>1, <1>1 DEF AlertRows, Times
    <3>4. c \notin 1 .. saw
      BY <3>2, <3>3, <1>1, AlertsAssumption DEF Fresher
    <3>5. story'[d].saw = saw
      BY <2>2, <1>5, <1>9
    <3> QED BY <3>1, <3>4, <3>5, <1>1
  <2> QED BY <2>1, <2>2, <1>7
<1>13. Rows'
  BY <1>4, <1>5, <1>10, <1>11, <1>12 DEF Rows
<1>14. Grows
  <2>1. \A a \in DOMAIN alerts :
           story[a].joined <= story[a].joined /\ story[a].raised <= story[a].raised
    BY <1>1 DEF Stories
  <2>2. Len(alerts) <= Len(alerts') /\ clock <= clock'
    BY <1>1, <1>4
  <2> QED BY <2>1, <2>2, <1>4, <1>5 DEF Grows
<1> QED BY <1>13, <1>14

-----------------------------------------------------------------------------
(***************************************************************************)
(* Sessions                                                                *)
(***************************************************************************)
\* What a session holds in each of its phases.
Sound(r, rows, tale, now, disputes) ==
    /\ r.phase = "fired" \/ (r.phase = "ready" /\ r.op = "trigger") =>
           r.rule \in Rules /\ r.severity \in Range(Severities)
    /\ r.phase = "ready" /\ r.op = "trigger" =>
           /\ r.id \in 0 .. Len(rows)
           /\ Fresher(r.rule, r.severity, r.id, rows, tale, now)
    /\ r.phase = "ready" /\ r.op \in {"join", "transition", "escalate"} =>
           /\ r.id \in DOMAIN rows /\ r.row \in AlertRows
           /\ Within(r.row.payload, tale[r.id])
    /\ r.phase = "ready" /\ r.op = "transition" => r.status \in Statuses
    /\ r.phase = "ready" /\ r.op = "resolve" =>
           r.id \in DOMAIN disputes /\ r.status \in Resolutions

AllSound ==
    /\ request \in [Requests -> Sessions]
    /\ \A q \in Requests : Sound(request[q], alerts, story, clock, conflicts)

LEMMA StaysSound ==
  ASSUME Rows, Rows', Grows, NEW r \in Sessions,
         Sound(r, alerts, story, clock, conflicts), DOMAIN conflicts \subseteq DOMAIN conflicts'
  PROVE  Sound(r, alerts', story', clock', conflicts')
<1>1. /\ Len(alerts) \in Nat /\ Len(alerts') \in Nat
      /\ DOMAIN alerts = 1 .. Len(alerts) /\ DOMAIN alerts' = 1 .. Len(alerts')
      /\ \A a \in DOMAIN alerts : alerts[a] \in AlertRows
  BY Domains, LenProperties DEF Rows
<1>2. ASSUME r.phase = "ready", r.op = "trigger"
      PROVE  /\ r.id \in 0 .. Len(alerts')
             /\ Fresher(r.rule, r.severity, r.id, alerts', story', clock')
  <2>1. r.id \in 0 .. Len(alerts) /\ Fresher(r.rule, r.severity, r.id, alerts, story, clock)
    BY <1>2 DEF Sound
  <2> SUFFICES ASSUME NEW a \in 1 .. r.id, alerts'[a].rule = r.rule,
                      alerts'[a].severity = r.severity, ~story'[a].stirred
               PROVE  clock' - alerts'[a].born > DedupWindow
    BY <2>1, <1>1 DEF Fresher, Grows
  <2>2. a \in DOMAIN alerts
    BY <2>1, <1>1
  <2>3. /\ alerts[a].rule = r.rule /\ alerts[a].severity = r.severity
        /\ ~story[a].stirred /\ alerts'[a].born = alerts[a].born
    BY <2>2 DEF Grows
  <2>4. clock - alerts[a].born > DedupWindow
    BY <2>1, <2>3 DEF Fresher
  <2>5. clock <= clock'
    BY DEF Grows
  <2>6. clock \in Nat /\ clock' \in Nat
    BY DEF Rows, Times
  <2>7. alerts[a].born \in Nat
    BY <2>2, <1>1 DEF AlertRows, Times
  <2> QED BY <2>3, <2>4, <2>5, <2>6, <2>7, AlertsAssumption
<1>3. DOMAIN alerts \subseteq DOMAIN alerts'
  BY <1>1 DEF Grows
<1>4. ASSUME r.phase = "ready", r.op \in {"join", "transition", "escalate"}
      PROVE  Within(r.row.payload, story'[r.id])
  <2>1. /\ r.id \in DOMAIN alerts /\ r.row \in AlertRows
        /\ Within(r.row.payload, story[r.id])
    BY <1>4 DEF Sound
  <2>2. /\ story[r.id].joined <= story'[r.id].joined
        /\ story[r.id].raised <= story'[r.id].raised
    BY <2>1 DEF Grows
  <2>3. story[r.id] \in Stories /\ story'[r.id] \in Stories
    BY <2>1, <1>3, Domains, ElementOfSeq, LenProperties DEF Rows
  <2> QED BY <2>1, <2>2, <2>3 DEF Within, Stories, AlertRows
<1> QED BY <1>2, <1>3, <1>4 DEF Sound

LEMMA SessionFields ==
  ASSUME NEW phase \in {"idle", "fired", "ready"},
         NEW op \in {"none", "evaluate", "trigger", "join", "transition", "escalate", "resolve"},
         NEW rule \in Rules \cup {NoRule}, NEW severity \in Range(Severities) \cup {"none"},
         NEW id \in Nat, NEW row \in AlertRows \cup {NoRow},
         NEW status \in Statuses \cup {"none", "accept_server", "force_local", "dismiss"}
  PROVE  /\ Session(phase, op, rule, severity, id, row, status) \in Sessions
         /\ Session(phase, op, rule, severity, id, row, status).phase = phase
         /\ Session(phase, op, rule, severity, id, row, status).op = op
         /\ Session(phase, op, rule, severity, id, row, status).rule = rule
         /\ Session(phase, op, rule, severity, id, row, status).severity = severity
         /\ Session(phase, op, rule, severity, id, row, status).id = id
         /\ Session(phase, op, rule, severity, id, row, status).row = row
         /\ Session(phase, op, rule, severity, id, row, status).status = status
  BY DEF Session, Sessions

LEMMA IdleIsSound ==
  /\ Idle \in Sessions /\ Idle.phase = "idle"
  /\ \A rows, tale, now, disputes : Sound(Idle, rows, tale, now, disputes)
<1>1. Idle \in Sessions /\ Idle.phase = "idle"
  BY DEF Idle, Session, Sessions
<1> QED BY <1>1 DEF Sound

LEMMA OneRequest ==
  ASSUME AllSound, Rows, Rows', Grows, DOMAIN conflicts \subseteq DOMAIN conflicts',
         NEW q \in Requests, NEW s \in Sessions, request' = [request EXCEPT ![q] = s],
         Sound(s, alerts', story', clock', conflicts')
  PROVE  AllSound'
<1>1. /\ request' \in [Requests -> Sessions] /\ request'[q] = s
      /\ \A p \in Requests : p # q => request'[p] = request[p]
  BY DEF AllSound
<1>2. \A p \in Requests : Sound(request[p], alerts', story', clock', conflicts')
  BY StaysSound DEF AllSound
<1>3. \A p \in Requests : Sound(request'[p], alerts', story', clock', conflicts')
  BY <1>1, <1>2
<1> QED BY <1>1, <1>3 DEF AllSound

LEMMA NoRequest ==
  ASSUME AllSound, Rows, Rows', Grows, DOMAIN conflicts \subseteq DOMAIN conflicts',
         request' = request
  PROVE  AllSound'
<1>1. \A p \in Requests : Sound(request[p], alerts', story', clock', conflicts')
  BY StaysSound DEF AllSound
<1> QED BY <1>1 DEF AllSound

Heart ==
    /\ EngineTypeOK /\ HistoryExact
    /\ Rows /\ AllSound
    /\ made \in 0 .. MaxRequests

LEMMA EngineKept ==
  ASSUME EngineTypeOK, HistoryExact, UNCHANGED engineVars
  PROVE  EngineTypeOK' /\ HistoryExact'
  BY DEF engineVars, EngineTypeOK, HistoryExact

LEMMA AboveIsASeverity ==
  \A s \in Range(Severities) : Above(s) \in Range(Severities)
<1>1. DOMAIN Severities = 1 .. 4 /\ Len(Severities) = 4
  BY DEF Severities
<1> SUFFICES ASSUME NEW s \in Range(Severities) PROVE Above(s) \in Range(Severities)
  OBVIOUS
<1> DEFINE i == CHOOSE i \in DOMAIN Severities : Severities[i] = s
<1>2. i \in DOMAIN Severities
  BY DEF Range
<1>3. Above(s) = s \/ (i + 1 \in DOMAIN Severities /\ Above(s) = Severities[i + 1])
  <2>1. Above(s) = IF i = Len(Severities) THEN s ELSE Severities[i + 1]
    BY DEF Above
  <2> HIDE DEF i
  <2>2. CASE i = Len(Severities)
    BY <2>1, <2>2
  <2>3. CASE i # Len(Severities)
    <3>1. i + 1 \in 1 .. 4
      BY <2>3, <1>1, <1>2
    <3> QED BY <2>1, <2>3, <3>1, <1>1
  <2> QED BY <2>2, <2>3
<1> QED BY <1>3 DEF Range

LEMMA MediumScored ==
  /\ "medium" \in Range(Severities)
  /\ \A n : \A s \in Range(Severities) : Scored(n, s) \in Range(Severities)
<1>1. "medium" \in Range(Severities)
  <2>1. 2 \in DOMAIN Severities /\ Severities[2] = "medium"
    BY DEF Severities
  <2> QED BY <2>1 DEF Range
<1> QED BY <1>1, AboveIsASeverity DEF Scored

\* A step that only begins a request, or goes on with one.
LEMMA SessionStep ==
  ASSUME Heart, EngineTypeOK', HistoryExact', clock <= clock', UNCHANGED <<alerts, story>>,
         DOMAIN conflicts \subseteq DOMAIN conflicts', made' \in 0 .. MaxRequests,
         NEW q \in Requests, NEW s \in Sessions, request' = [request EXCEPT ![q] = s],
         Sound(s, alerts, story, clock, conflicts)
  PROVE  Heart' /\ Grows
<1>1. Rows' /\ Grows
  BY RowsKept DEF Heart, EngineTypeOK
<1>2. Sound(s, alerts', story', clock', conflicts')
  BY <1>1, StaysSound DEF Heart
<1>3. AllSound'
  BY <1>1, <1>2, OneRequest DEF Heart
<1> QED BY <1>1, <1>3 DEF Heart

\* A step that writes alerts and ends its request.
LEMMA EndStep ==
  ASSUME Heart, Rows', Grows, NEW q \in Requests, Done(q),
         DOMAIN conflicts \subseteq DOMAIN conflicts'
  PROVE  Heart'
<1>1. EngineTypeOK' /\ HistoryExact'
  BY EngineKept DEF Done, Heart
<1>2. AllSound'
  BY IdleIsSound, OneRequest DEF Done, Heart
<1> QED BY <1>1, <1>2 DEF Heart, Done

LEMMA MadeOne ==
  ASSUME Heart, made < MaxRequests, made' = made + 1
  PROVE  made' \in 0 .. MaxRequests
  BY AlertsAssumption DEF Heart

-----------------------------------------------------------------------------
(***************************************************************************)
(* The steps of Alerts                                                     *)
(***************************************************************************)
LEMMA EvaluateByEngineStep ==
  ASSUME Heart, conflicts' = conflicts, NEW q \in Requests, EvaluateByEngine(q)
  PROVE  Heart' /\ Grows
<1>1. PICK rule \in Rules, holds \in SUBSET Bases :
         /\ Feed(rule, holds)
         /\ Begin(q, IF Triggered(rule, holds)
                     THEN Session("fired", "evaluate", rule,
                                  Scored(Matched(rule, holds), "medium"), 0, NoRow, "none")
                     ELSE Idle)
         /\ UNCHANGED <<alerts, story>>
  BY DEF EvaluateByEngine
<1>7. rule \in Conditions
  BY DEF Conditions
<1>2. EngineTypeOK' /\ HistoryExact' /\ clock' = clock
  BY <1>1, <1>7, FeedStep DEF Heart, Feed
<1>3. made' \in 0 .. MaxRequests
  BY <1>1, MadeOne DEF Begin
<1>4. clock <= clock'
  BY <1>2 DEF Heart, EngineTypeOK, Times
<1>5. CASE Triggered(rule, holds)
  <2> DEFINE severity == Scored(Matched(rule, holds), "medium")
             s == Session("fired", "evaluate", rule, severity, 0, NoRow, "none")
  <2>1. severity \in Range(Severities)
    BY MediumScored
  <2> HIDE DEF severity
  <2>2. /\ s \in Sessions /\ s.phase = "fired" /\ s.rule = rule /\ s.severity = severity
    BY <2>1, SessionFields
  <2>3. request' = [request EXCEPT ![q] = s]
    BY <1>1, <1>5 DEF Begin, severity
  <2> HIDE DEF s
  <2>4. Sound(s, alerts, story, clock, conflicts)
    BY <2>1, <2>2 DEF Sound
  <2> QED BY <1>1, <1>2, <1>3, <1>4, <2>2, <2>3, <2>4, SessionStep
<1>6. CASE ~Triggered(rule, holds)
  <2>1. request' = [request EXCEPT ![q] = Idle]
    BY <1>1, <1>6 DEF Begin
  <2> QED BY <1>1, <1>2, <1>3, <1>4, <2>1, IdleIsSound, SessionStep
<1> QED BY <1>5, <1>6

LEMMA EvaluateThresholdStep ==
  ASSUME Heart, conflicts' = conflicts, NEW q \in Requests, EvaluateThreshold(q)
  PROVE  Heart' /\ Grows
<1>1. PICK rule \in Rules, severity \in Range(Severities) :
         /\ Begin(q, Session("fired", "evaluate", rule, severity, 0, NoRow, "none"))
         /\ UNCHANGED <<engineVars, alerts, story>>
  BY DEF EvaluateThreshold
<1> DEFINE s == Session("fired", "evaluate", rule, severity, 0, NoRow, "none")
<1>2. s \in Sessions /\ s.phase = "fired" /\ s.rule = rule /\ s.severity = severity
  BY <1>1, SessionFields
<1>3. request' = [request EXCEPT ![q] = s] /\ made' \in 0 .. MaxRequests
  BY <1>1, MadeOne DEF Begin
<1> HIDE DEF s
<1>4. Sound(s, alerts, story, clock, conflicts)
  BY <1>1, <1>2 DEF Sound
<1>5. EngineTypeOK' /\ HistoryExact' /\ clock <= clock'
  BY <1>1, EngineKept DEF Heart, engineVars, EngineTypeOK, Times
<1> QED BY <1>1, <1>2, <1>3, <1>4, <1>5, SessionStep

LEMMA TestRuleStep ==
  ASSUME Heart, conflicts' = conflicts, TestRule
  PROVE  Heart' /\ Grows
<1>4. PICK c \in Conditions, holds \in SUBSET Bases : Feed(c, holds)
  BY DEF TestRule, Conditions
<1>1. EngineTypeOK' /\ HistoryExact' /\ clock' = clock
  BY <1>4, FeedStep DEF Heart, Feed
<1>2. Rows' /\ Grows
  BY <1>1, RowsKept DEF TestRule, Heart, EngineTypeOK, Times
<1>3. AllSound'
  BY <1>2, NoRequest DEF TestRule, Heart
<1> QED BY <1>1, <1>2, <1>3, MadeOne DEF TestRule, Heart

LEMMA DeduplicateStep ==
  ASSUME Heart, conflicts' = conflicts, NEW q \in Requests, Deduplicate(q)
  PROVE  Heart' /\ Grows
<1> DEFINE r == request[q]
           found == Duplicates(r.rule, r.severity)
<1>1. r \in Sessions /\ Sound(r, alerts, story, clock, conflicts) /\ r.phase = "fired"
  BY DEF Heart, AllSound, Deduplicate
<1>2. r.rule \in Rules /\ r.severity \in Range(Severities)
  BY <1>1 DEF Sound
<1>3. EngineTypeOK' /\ HistoryExact' /\ clock <= clock' /\ made' \in 0 .. MaxRequests
  BY EngineKept DEF Deduplicate, Heart, engineVars, EngineTypeOK, Times
<1>4. /\ Len(alerts) \in Nat /\ DOMAIN alerts = 1 .. Len(alerts)
      /\ \A a \in DOMAIN alerts : alerts[a] \in AlertRows
  BY Domains DEF Heart
<1>5. CASE /\ found = {}
           /\ request' = [request EXCEPT ![q] =
                  Session("ready", "trigger", r.rule, r.severity, Len(alerts), NoRow, "none")]
  <2> DEFINE s == Session("ready", "trigger", r.rule, r.severity, Len(alerts), NoRow, "none")
  <2>1. /\ s \in Sessions /\ s.phase = "ready" /\ s.op = "trigger" /\ s.rule = r.rule
        /\ s.severity = r.severity /\ s.id = Len(alerts)
    <3>1. PICK n \in Nat : n = Len(alerts)
      BY <1>4
    <3>2. PICK rule \in Rules, severity \in Range(Severities) :
              rule = r.rule /\ severity = r.severity
      BY <1>2
    <3> DEFINE t == Session("ready", "trigger", rule, severity, n, NoRow, "none")
    <3>3. /\ t \in Sessions /\ t.phase = "ready" /\ t.op = "trigger" /\ t.rule = rule
          /\ t.severity = severity /\ t.id = n
      BY SessionFields
    <3>4. t = s
      BY <3>1, <3>2
    <3> HIDE DEF s, t, r
    <3> QED BY <3>1, <3>2, <3>3, <3>4
  <2>2. Fresher(r.rule, r.severity, Len(alerts), alerts, story, clock)
    <3> SUFFICES ASSUME NEW a \in 1 .. Len(alerts), alerts[a].rule = r.rule,
                        alerts[a].severity = r.severity, ~story[a].stirred
                 PROVE  clock - alerts[a].born > DedupWindow
      BY DEF Fresher
    <3>1. a \in DOMAIN alerts
      BY <1>4
    <3>2. alerts[a].status \notin Closed
      BY <3>1 DEF Heart, Rows, ClosedIsStirred
    <3>3. Open(alerts[a].status)
      BY <3>1, <3>2, <1>4 DEF Open, Closed, AlertRows, Statuses
    <3>4. ~(alerts[a].born >= clock - DedupWindow)
      BY <3>1, <3>3, <1>5 DEF Duplicates
    <3>5. alerts[a].born \in Nat /\ clock \in Nat
      BY <3>1, <1>4 DEF AlertRows, Times, Heart, Rows
    <3> QED BY <3>4, <3>5, AlertsAssumption
  <2>3. request' = [request EXCEPT ![q] = s]
    BY <1>5
  <2> HIDE DEF s
  <2>4. Sound(s, alerts, story, clock, conflicts)
    BY <2>1, <2>2, <1>2, <1>4 DEF Sound
  <2> QED BY <1>3, <2>1, <2>3, <2>4, SessionStep DEF Deduplicate
<1>6. CASE \E a \in found :
             request' = [request EXCEPT ![q] =
                 Session("ready", "join", r.rule, r.severity, a, alerts[a], "none")]
  <2>1. PICK a \in found :
            request' = [request EXCEPT ![q] =
                Session("ready", "join", r.rule, r.severity, a, alerts[a], "none")]
    BY <1>6
  <2> DEFINE s == Session("ready", "join", r.rule, r.severity, a, alerts[a], "none")
  <2>2. a \in DOMAIN alerts /\ a \in Nat /\ alerts[a] \in AlertRows
    BY <2>1, <1>4 DEF Duplicates
  <2>3. /\ s \in Sessions /\ s.phase = "ready" /\ s.op = "join" /\ s.id = a
        /\ s.row = alerts[a]
    BY <2>2, <1>2, SessionFields
  <2>4. request' = [request EXCEPT ![q] = s]
    BY <2>1
  <2> HIDE DEF s
  <2>5. Sound(s, alerts, story, clock, conflicts)
    BY <2>2, <2>3, CountersWithin DEF Sound, Heart
  <2> QED BY <1>3, <2>3, <2>4, <2>5, SessionStep DEF Deduplicate
<1> QED BY <1>5, <1>6 DEF Deduplicate

LEMMA TriggerAlertStep ==
  ASSUME Heart, conflicts' = conflicts, NEW q \in Requests, TriggerAlert(q)
  PROVE  Heart' /\ Grows
<1>1. /\ request[q].rule \in Rules /\ request[q].severity \in Range(Severities)
      /\ request[q].id \in 0 .. Len(alerts)
      /\ Fresher(request[q].rule, request[q].severity, request[q].id, alerts, story, clock)
  BY DEF Heart, AllSound, TriggerAlert, Ready, Sound
<1>2. Rows' /\ Grows
  BY <1>1, InsertStep DEF Heart, TriggerAlert, Done, engineVars
<1> QED BY <1>2, EndStep DEF TriggerAlert

LEMMA TestAlertStep ==
  ASSUME Heart, conflicts' = conflicts, TestAlert
  PROVE  Heart' /\ Grows
<1>1. PICK rule \in Rules : Insert(rule, "medium", 0)
  BY DEF TestAlert
<1>2. Fresher(rule, "medium", 0, alerts, story, clock)
  BY DEF Fresher
<1>3. 0 \in 0 .. Len(alerts)
  BY Domains DEF Heart
<1>4. Rows' /\ Grows
  BY <1>1, <1>2, <1>3, InsertStep, MediumScored DEF Heart, TestAlert, engineVars
<1>5. EngineTypeOK' /\ HistoryExact' /\ AllSound'
  BY <1>4, EngineKept, NoRequest DEF TestAlert, Heart
<1> QED BY <1>4, <1>5, MadeOne DEF TestAlert, Heart

LEMMA JoinDuplicateStep ==
  ASSUME Heart, conflicts' = conflicts, NEW q \in Requests, JoinDuplicate(q)
  PROVE  Heart' /\ Grows
<1>1. PICK a \in DOMAIN alerts, read \in AlertRows :
          /\ a = request[q].id /\ read = request[q].row
          /\ Within(read.payload, story[a])
  BY DEF Heart, AllSound, JoinDuplicate, Ready, Sound
<1>2. alerts[a] \in AlertRows /\ story[a] \in Stories
  BY <1>1, Domains DEF Heart
<1>3. /\ Counted(read.payload) \in [duplicates : Nat \ {0}, level : Int]
      /\ Counted(read.payload).duplicates = read.payload.duplicates + 1
      /\ Counted(read.payload).level = read.payload.level + 0
  BY <1>1 DEF Counted, AlertRows
<1>4. PICK row \in AlertRows :
          /\ row = [alerts[a] EXCEPT !.payload = Counted(read.payload)]
          /\ row.payload = Counted(read.payload)
          /\ row.rule = alerts[a].rule /\ row.born = alerts[a].born
          /\ row.severity = alerts[a].severity /\ row.status = alerts[a].status
  <2> DEFINE new == [alerts[a] EXCEPT !.payload = Counted(read.payload)]
  <2>1. /\ new \in AlertRows /\ new.payload = Counted(read.payload)
        /\ new.rule = alerts[a].rule /\ new.born = alerts[a].born
        /\ new.severity = alerts[a].severity /\ new.status = alerts[a].status
    BY <1>2, <1>3 DEF AlertRows
  <2> QED BY <2>1
<1>5. PICK torn \in BOOLEAN : torn = (read.payload # alerts[a].payload)
  OBVIOUS
<1>6. /\ alerts' = [alerts EXCEPT ![a] = row]
      /\ story' = [story EXCEPT ![a] = Told(@, 1, 0, FALSE, torn)]
      /\ clock' = clock
  BY <1>1, <1>4, <1>5 DEF JoinDuplicate, Done, engineVars
<1>7. torn \/ (/\ row.payload.duplicates = alerts[a].payload.duplicates + 1
              /\ row.payload.level = alerts[a].payload.level + 0)
  BY <1>3, <1>4, <1>5
<1>8. Rows' /\ Grows
  <2>1. 1 \in Nat /\ 0 \in Nat /\ FALSE \in BOOLEAN
    OBVIOUS
  <2>2. /\ row.severity = alerts[a].severity \/ FALSE
        /\ row.status \in Closed => alerts[a].status \in Closed \/ FALSE
    BY <1>4
  <2>3. /\ row.payload.duplicates <= 1 + story[a].joined + 1
        /\ row.payload.level <= story[a].raised + 0 - 1
    BY <1>1, <1>2, <1>3, <1>4 DEF Within, AlertRows, Stories
  <2> QED BY <2>1, <2>2, <2>3, <1>1, <1>4, <1>6, <1>7, OneRow, ZenonT(40) DEF Heart
<1> QED BY <1>8, EndStep DEF JoinDuplicate

LEMMA LoadAlertStep ==
  ASSUME Heart, conflicts' = conflicts, NEW q \in Requests, LoadAlert(q)
  PROVE  Heart' /\ Grows
<1>1. PICK a \in DOMAIN alerts, op \in {"transition", "escalate"},
           status \in Statuses \cup {"none"} :
          /\ Begin(q, Session("ready", op, NoRule, "none", a, alerts[a], status))
          /\ op = "transition" => status \in Statuses
          /\ UNCHANGED <<engineVars, alerts, story>>
  BY DEF LoadAlert
<1>2. a \in Nat /\ alerts[a] \in AlertRows
  BY Domains DEF Heart
<1>3. PICK row \in AlertRows : row = alerts[a]
  BY <1>2
<1> DEFINE s == Session("ready", op, NoRule, "none", a, row, status)
<1>4. /\ s \in Sessions /\ s.phase = "ready" /\ s.op = op /\ s.id = a
      /\ s.row = row /\ s.status = status
  BY <1>2, SessionFields
<1>5. request' = [request EXCEPT ![q] = s] /\ made' \in 0 .. MaxRequests
  BY <1>1, <1>3, MadeOne DEF Begin
<1> HIDE DEF s
<1>6. Sound(s, alerts, story, clock, conflicts)
  BY <1>1, <1>3, <1>4, CountersWithin DEF Sound, Heart
<1>7. EngineTypeOK' /\ HistoryExact' /\ clock <= clock'
  BY <1>1, EngineKept DEF Heart, engineVars, EngineTypeOK, Times
<1> QED BY <1>1, <1>4, <1>5, <1>6, <1>7, SessionStep

LEMMA TransitionStep ==
  ASSUME Heart, conflicts' = conflicts, NEW q \in Requests, Transition(q)
  PROVE  Heart' /\ Grows
<1>1. PICK a \in DOMAIN alerts, read \in AlertRows, status \in Statuses :
          a = request[q].id /\ read = request[q].row /\ status = request[q].status
  BY DEF Heart, AllSound, Transition, Ready, Sound
<1>2. alerts[a] \in AlertRows /\ story[a] \in Stories
  BY <1>1, Domains DEF Heart
<1>3. PICK row \in AlertRows :
          /\ row = [alerts[a] EXCEPT !.status = Column(read.status, status, @)]
          /\ row.status = status \/ row.status = alerts[a].status
          /\ row.rule = alerts[a].rule /\ row.born = alerts[a].born
          /\ row.severity = alerts[a].severity /\ row.payload = alerts[a].payload
  <2> DEFINE new == [alerts[a] EXCEPT !.status = Column(read.status, status, @)]
  <2>1. Column(read.status, status, alerts[a].status) \in {status, alerts[a].status}
    BY DEF Column
  <2>2. alerts[a].status \in Statuses
    BY <1>2 DEF AlertRows
  <2>3. /\ new \in AlertRows
        /\ new.status = status \/ new.status = alerts[a].status
        /\ new.rule = alerts[a].rule /\ new.born = alerts[a].born
        /\ new.severity = alerts[a].severity /\ new.payload = alerts[a].payload
    BY <1>2, <2>1, <2>2 DEF AlertRows
  <2> QED BY <2>3
<1>5. PICK stirred \in BOOLEAN : stirred = (status \in Closed)
  <2>1. (status \in Closed) \in BOOLEAN
    OBVIOUS
  <2> QED BY <2>1, Zenon
<1>6. /\ alerts' = [alerts EXCEPT ![a] = row]
      /\ story' = [story EXCEPT ![a] = Told(@, 0, 0, stirred, FALSE)]
      /\ clock' = clock
  BY <1>1, <1>3, <1>5 DEF Transition, Done, engineVars
<1>7. Rows' /\ Grows
  <2>1. /\ alerts[a].payload.duplicates = alerts[a].payload.duplicates + 0
        /\ alerts[a].payload.level = alerts[a].payload.level + 0
    BY <1>2 DEF AlertRows
  <2>2. /\ row.payload.duplicates = alerts[a].payload.duplicates + 0
        /\ row.payload.level = alerts[a].payload.level + 0
    BY <1>3, <2>1
  <2>6. /\ row.payload.duplicates <= 1 + story[a].joined + 0
        /\ row.payload.level <= story[a].raised + 0 - 1
    BY <1>2, <1>3, CountersWithin DEF Within, AlertRows, Stories, Heart
  <2>3. /\ row.severity = alerts[a].severity \/ stirred
        /\ row.status \in Closed => alerts[a].status \in Closed \/ stirred
    BY <1>3, <1>5
  <2>4. 0 \in Nat /\ FALSE \in BOOLEAN /\ Rows
    BY DEF Heart
  <2>5. row.rule = alerts[a].rule /\ row.born = alerts[a].born
    BY <1>3
  <2> QED BY <2>2, <2>3, <2>4, <2>5, <2>6, <1>6, OneRow
<1> QED BY <1>7, EndStep DEF Transition

LEMMA EscalateStep ==
  ASSUME Heart, conflicts' = conflicts, NEW q \in Requests, Escalate(q)
  PROVE  Heart' /\ Grows
<1>1. PICK a \in DOMAIN alerts, read \in AlertRows :
          /\ a = request[q].id /\ read = request[q].row
          /\ Within(read.payload, story[a])
  BY DEF Heart, AllSound, Escalate, Ready, Sound
<1>2. alerts[a] \in AlertRows /\ story[a] \in Stories
  BY <1>1, Domains DEF Heart
<1>3. /\ Raised(read.payload) \in [duplicates : Nat \ {0}, level : Int]
      /\ Raised(read.payload).duplicates = read.payload.duplicates + 0
      /\ Raised(read.payload).level = read.payload.level + 1
  BY <1>1 DEF Raised, AlertRows
<1> DEFINE raised == EscalatedSeverity(read.severity, read.payload.level + 1)
<1>4. raised \in Range(Severities)
  <2>1. read.severity \in Range(Severities)
    BY <1>1 DEF AlertRows
  <2>2. "critical" \in Range(Severities)
    <3>1. 4 \in DOMAIN Severities /\ Severities[4] = "critical"
      BY DEF Severities
    <3> QED BY <3>1 DEF Range
  <2> QED BY <2>1, <2>2, MediumScored DEF EscalatedSeverity
<1> DEFINE severity == Column(read.severity, raised, alerts[a].severity)
<1>5. severity \in Range(Severities)
  BY <1>2, <1>4 DEF Column, AlertRows
<1> HIDE DEF raised
<1>6. PICK row \in AlertRows :
          /\ row = [rule |-> alerts[a].rule, severity |-> severity, status |-> alerts[a].status,
                    payload |-> Raised(read.payload), born |-> alerts[a].born]
          /\ row.payload = Raised(read.payload) /\ row.status = alerts[a].status
          /\ row.rule = alerts[a].rule /\ row.born = alerts[a].born
  <2> HIDE DEF severity
  <2>1. [rule |-> alerts[a].rule, severity |-> severity, status |-> alerts[a].status,
         payload |-> Raised(read.payload), born |-> alerts[a].born] \in AlertRows
    BY <1>2, <1>3, <1>5 DEF AlertRows
  <2> QED BY <2>1
<1>7. PICK torn \in BOOLEAN : torn = (read.payload # alerts[a].payload)
  OBVIOUS
<1>8. /\ alerts' = [alerts EXCEPT ![a] = row]
      /\ story' = [story EXCEPT ![a] = Told(@, 0, 1, TRUE, torn)]
      /\ clock' = clock
  BY <1>1, <1>6, <1>7 DEF Escalate, Done, engineVars, raised
<1>9. Rows' /\ Grows
  <2>1. torn \/ (/\ row.payload.duplicates = alerts[a].payload.duplicates + 0
                /\ row.payload.level = alerts[a].payload.level + 1)
    BY <1>3, <1>6, <1>7
  <2>2. /\ row.severity = alerts[a].severity \/ TRUE
        /\ row.status \in Closed => alerts[a].status \in Closed \/ TRUE
    OBVIOUS
  <2>3. 1 \in Nat /\ 0 \in Nat /\ TRUE \in BOOLEAN
    OBVIOUS
  <2>4. /\ row.payload.duplicates <= 1 + story[a].joined + 0
        /\ row.payload.level <= story[a].raised + 1 - 1
    BY <1>1, <1>2, <1>3, <1>6 DEF Within, AlertRows, Stories
  <2> QED BY <2>1, <2>2, <2>3, <2>4, <1>1, <1>6, <1>8, OneRow DEF Heart
<1> QED BY <1>9, EndStep DEF Escalate

LEMMA RollbackStep ==
  ASSUME Heart, conflicts' = conflicts, NEW q \in Requests, Rollback(q)
  PROVE  Heart' /\ Grows
<1>1. Rows' /\ Grows
  BY RowsKept DEF Rollback, Done, engineVars, Heart, Rows, Times
<1> QED BY <1>1, EndStep DEF Rollback

LEMMA TimePasses ==
  ASSUME Heart, conflicts' = conflicts, Tick, UNCHANGED alertVars
  PROVE  Heart' /\ Grows
<1>1. EngineTypeOK' /\ HistoryExact'
  BY TickStep DEF Heart
<1>2. Rows' /\ Grows
  BY <1>1, RowsKept DEF Tick, Heart, EngineTypeOK, Times, alertVars
<1>3. AllSound'
  BY <1>2, NoRequest DEF Heart, alertVars
<1> QED BY <1>1, <1>2, <1>3 DEF Heart, alertVars

LEMMA AlertsStep ==
  ASSUME Heart, conflicts' = conflicts, AlertsNext
  PROVE  Heart' /\ Grows
<1>1. CASE Tick /\ UNCHANGED alertVars
  BY <1>1, TimePasses
<1>2. CASE TestRule
  BY <1>2, TestRuleStep
<1>3. CASE TestAlert
  BY <1>3, TestAlertStep
<1>4. ASSUME NEW q \in Requests,
             \/ EvaluateByEngine(q) \/ EvaluateThreshold(q) \/ Deduplicate(q)
             \/ TriggerAlert(q) \/ JoinDuplicate(q)
             \/ LoadAlert(q) \/ Transition(q) \/ Escalate(q) \/ Rollback(q)
      PROVE  Heart' /\ Grows
  BY <1>4, EvaluateByEngineStep, EvaluateThresholdStep, DeduplicateStep, TriggerAlertStep,
     JoinDuplicateStep, LoadAlertStep, TransitionStep, EscalateStep, RollbackStep
<1> QED BY <1>1, <1>2, <1>3, <1>4 DEF AlertsNext

-----------------------------------------------------------------------------
(***************************************************************************)
(* Batches                                                                 *)
(***************************************************************************)
\* How far a batch has come: what is left of its actions, and the notes so far.
Progress(b) ==
    LET n == Len(b.all) - Len(b.rest)
    IN  /\ n \in Nat
        /\ \A i \in 1 .. Len(b.rest) : b.rest[i] = b.all[n + i]
        /\ b.notes = Cardinality({i \in 1 .. n : b.all[i] = Note})

\* What a batch read is acknowledged, will be, or is a conflict.
Handled(b) ==
    \A s \in b.saw :
        \/ s.status = "acknowledged"
        \/ s.id \in b.acked
        \/ \E i \in DOMAIN b.found : b.found[i].alert = s.id

BatchSound(b, rows) ==
    /\ b \in Batches
    /\ b.dirty \cup b.held \subseteq DOMAIN rows
    /\ b.last.id = 0 \/ b.last.status \in Statuses
    /\ \A s \in b.saw : s.id \in DOMAIN rows
    /\ Progress(b)
    /\ Handled(b)

Sync ==
    /\ batch \in [Devices -> Batches]
    /\ \A d \in Devices : BatchSound(batch[d], alerts)
    /\ sent \in 0 .. MaxBatches
    /\ notes \in Nat
    /\ conflicts \in Seq(ConflictRows)

Inv == Heart /\ Sync

LEMMA InvIsEnough == Inv => TypeOK /\ HistoryExact /\ OneIncidentOneAlert /\ CountersExact
  BY DEF Inv, Heart, Sync, Rows, AllSound, BatchSound, TypeOK, AlertsTypeOK

\* A batch has dealt with its next action.
LEMMA NextAction ==
  ASSUME NEW b \in Batches, Progress(b), b.rest # <<>>,
         NEW c, c.all = b.all, c.rest = Tail(b.rest),
         c.notes = IF Head(b.rest) = Note THEN b.notes + 1 ELSE b.notes
  PROVE  c.rest \in Seq(Nat) /\ Head(b.rest) \in Nat /\ Progress(c)
<1>n. PICK n \in Nat : n = Len(b.all) - Len(b.rest)
  BY DEF Progress
<1> DEFINE before == {i \in 1 .. n : b.all[i] = Note}
<1>1. b.all \in Seq(Nat) /\ b.rest \in Seq(Nat) /\ b.notes \in Nat
  BY DEF Batches
<1>2. /\ Len(b.rest) \in Nat \ {0} /\ Head(b.rest) = b.rest[1]
      /\ c.rest \in Seq(Nat) /\ Len(c.rest) = Len(b.rest) - 1
      /\ \A i \in 1 .. Len(b.rest) - 1 : c.rest[i] = b.rest[i + 1]
  BY <1>1, HeadTailProperties, EmptySeq, LenProperties
<1>3. Head(b.rest) \in Nat
  BY <1>1, <1>2, ElementOfSeq
<1>4. Len(b.all) \in Nat
  BY <1>1, LenProperties
<1>5. /\ b.notes = Cardinality(before)
      /\ \A i \in 1 .. Len(b.rest) : b.rest[i] = b.all[n + i]
  BY <1>n DEF Progress
<1>6. Len(c.all) - Len(c.rest) = n + 1
  <2>1. PICK l \in Nat, r \in Nat : l = Len(b.all) /\ r = Len(b.rest)
    BY <1>2, <1>4
  <2>2. Len(c.all) = l /\ Len(c.rest) = r - 1 /\ n = l - r
    BY <2>1, <1>n, <1>2
  <2>3. l - (r - 1) = n + 1
    BY <2>2
  <2> QED BY <2>2, <2>3
<1>7. \A i \in 1 .. Len(c.rest) : c.rest[i] = c.all[(n + 1) + i]
  <2> SUFFICES ASSUME NEW i \in 1 .. Len(c.rest) PROVE c.rest[i] = b.all[(n + 1) + i]
    OBVIOUS
  <2>1. c.rest[i] = b.rest[i + 1] /\ i + 1 \in 1 .. Len(b.rest)
    BY <1>2
  <2>2. b.rest[i + 1] = b.all[n + (i + 1)] /\ n + (i + 1) = (n + 1) + i
    <3>1. n + (i + 1) = (n + 1) + i /\ i \in Nat
      BY <1>2
    <3> QED BY <2>1, <3>1, <1>5
  <2> QED BY <2>1, <2>2
<1>8. b.all[n + 1] = Head(b.rest)
  <2>1. 1 \in 1 .. Len(b.rest)
    BY <1>2
  <2> QED BY <2>1, <1>2, <1>5
<1>9. IsFiniteSet(before)
  <2>1. IsFiniteSet(1 .. n) /\ before \subseteq 1 .. n
    BY FS_Interval
  <2> HIDE DEF before
  <2> QED BY <2>1, FS_Subset
<1>10. c.notes = Cardinality({i \in 1 .. n + 1 : c.all[i] = Note})
  <2>1. CASE Head(b.rest) = Note
    <3>1. {i \in 1 .. n + 1 : b.all[i] = Note} = before \cup {n + 1} /\ n + 1 \notin before
      BY <2>1, <1>5, <1>8
    <3> HIDE DEF before
    <3>2. Cardinality(before \cup {n + 1}) = Cardinality(before) + 1
      BY <3>1, <1>9, FS_AddElement
    <3> QED BY <2>1, <3>1, <3>2, <1>5
  <2>2. CASE Head(b.rest) # Note
    <3>1. {i \in 1 .. n + 1 : b.all[i] = Note} = before
      BY <2>2, <1>5, <1>8
    <3> QED BY <2>2, <3>1, <1>5
  <2> QED BY <2>1, <2>2
<1>11. n + 1 \in Nat
  BY <1>5
<1> HIDE DEF before
<1> QED BY <1>2, <1>3, <1>6, <1>7, <1>10, <1>11 DEF Progress

LEMMA NoBatchIsSound ==
  ASSUME NEW rows
  PROVE  /\ BatchSound(NoBatch, rows) /\ NoBatch.phase = "idle"
         /\ BatchSound(Answered, rows) /\ Answered.phase = "answered"
<1>1. <<>> \in Seq(Nat) /\ <<>> \in Seq(ConflictRows) /\ Len(<<>>) = 0
  BY EmptySeq
<1>2. Unloaded \in Readings /\ Unloaded.id = 0
  BY DEF Unloaded, Readings
<1>3. /\ NoBatch \in Batches /\ NoBatch.phase = "idle" /\ NoBatch.all = <<>>
      /\ NoBatch.rest = <<>> /\ NoBatch.dirty = {} /\ NoBatch.held = {}
      /\ NoBatch.last = Unloaded /\ NoBatch.saw = {} /\ NoBatch.notes = 0
  BY <1>1, <1>2 DEF NoBatch, Batches
<1>4. /\ Answered \in Batches /\ Answered.phase = "answered" /\ Answered.all = <<>>
      /\ Answered.rest = <<>> /\ Answered.dirty = {} /\ Answered.held = {}
      /\ Answered.last = Unloaded /\ Answered.saw = {} /\ Answered.notes = 0
  BY <1>3 DEF Answered, Batches
<1>5. Cardinality({i \in 1 .. 0 : <<>>[i] = Note}) = 0
  <2>1. {i \in 1 .. 0 : <<>>[i] = Note} = {}
    OBVIOUS
  <2> QED BY <2>1, FS_EmptySet
<1>6. Progress(NoBatch) /\ Progress(Answered)
  BY <1>1, <1>3, <1>4, <1>5 DEF Progress
<1> QED BY <1>1, <1>2, <1>3, <1>4, <1>6 DEF BatchSound, Handled

\* A step of one batch, which leaves the alerts alone.
LEMMA BatchStep ==
  ASSUME Inv, NEW d \in Devices, NEW b, BatchSound(b, alerts),
         batch' = [batch EXCEPT ![d] = b], UNCHANGED <<engineVars, alertVars, notes, conflicts>>,
         sent' \in 0 .. MaxBatches
  PROVE  Inv'
<1>1. b \in Batches
  BY DEF BatchSound
<1>2. /\ batch' \in [Devices -> Batches] /\ batch'[d] = b
      /\ \A e \in Devices : e # d => batch'[e] = batch[e]
  BY <1>1 DEF Inv, Sync
<1>3. Sync'
  BY <1>2 DEF Inv, Sync, alertVars
<1>4. EngineTypeOK' /\ HistoryExact'
  BY EngineKept DEF Inv, Heart
<1>5. Rows' /\ Grows
  BY RowsKept DEF Inv, Heart, Rows, Times, engineVars, alertVars
<1>6. AllSound'
  BY <1>5, NoRequest DEF Inv, Heart, alertVars
<1> QED BY <1>3, <1>4, <1>5, <1>6 DEF Inv, Heart, alertVars

LEMMA ReceiveStep ==
  ASSUME Inv, NEW d \in Devices, ReceiveBatch(d)
  PROVE  Inv'
<1>1. PICK n \in 1 .. MaxActions : \E actions \in [1 .. n -> 0 .. Len(alerts) + 1] :
           batch' = [batch EXCEPT ![d] =
               [NoBatch EXCEPT !.phase = "busy", !.all = actions, !.rest = actions]]
  BY DEF ReceiveBatch
<1>2. PICK actions \in [1 .. n -> 0 .. Len(alerts) + 1] :
           batch' = [batch EXCEPT ![d] =
               [NoBatch EXCEPT !.phase = "busy", !.all = actions, !.rest = actions]]
  BY <1>1
<1>3. actions \in Seq(Nat)
  <2>1. n \in Nat /\ Len(alerts) \in Nat
    BY SyncAssumption, Domains DEF Inv, Heart
  <2>2. \A i \in 1 .. n : actions[i] \in Nat
    BY <2>1
  <2> QED BY <2>1, <2>2, SeqDef
<1> DEFINE b == [NoBatch EXCEPT !.phase = "busy", !.all = actions, !.rest = actions]
<1>4. /\ NoBatch \in Batches /\ NoBatch.dirty = {} /\ NoBatch.held = {} /\ NoBatch.saw = {}
      /\ NoBatch.last = Unloaded /\ Unloaded.id = 0 /\ NoBatch.notes = 0
  <2>1. NoBatch \in Batches
    BY NoBatchIsSound DEF BatchSound
  <2> QED BY <2>1 DEF NoBatch, Unloaded
<1>5. /\ b \in Batches /\ b.all = actions /\ b.rest = actions /\ b.dirty = {}
      /\ b.held = {} /\ b.last = Unloaded /\ b.saw = {} /\ b.notes = 0
  BY <1>3, <1>4 DEF Batches
<1>6. batch' = [batch EXCEPT ![d] = b]
  BY <1>2
<1> HIDE DEF b
<1>9. Progress(b)
  <2>1. Len(actions) \in Nat /\ Len(actions) - Len(actions) = 0
    BY <1>3, LenProperties
  <2>2. {i \in 1 .. 0 : actions[i] = Note} = {}
    OBVIOUS
  <2>3. \A i \in 1 .. Len(actions) : actions[i] = actions[0 + i]
    BY <2>1
  <2> QED BY <1>5, <2>1, <2>2, <2>3, FS_EmptySet DEF Progress
<1>7. BatchSound(b, alerts)
  BY <1>4, <1>5, <1>9 DEF BatchSound, Handled
<1>8. sent' \in 0 .. MaxBatches
  BY SyncAssumption DEF ReceiveBatch, Inv, Sync
<1> QED BY <1>6, <1>7, <1>8, BatchStep DEF ReceiveBatch

LEMMA AcknowledgeStep ==
  ASSUME Inv, NEW d \in Devices, Acknowledge(d)
  PROVE  Inv'
<1>1. PICK b \in Batches : b = batch[d]
  BY DEF Inv, Sync
<1>2. BatchSound(b, alerts)
  BY <1>1 DEF Inv, Sync
<1>3. PICK a \in DOMAIN alerts : a = Head(b.rest)
  BY <1>1 DEF Acknowledge
<1>4. /\ Len(alerts) \in Nat /\ DOMAIN alerts = 1 .. Len(alerts) /\ a \in Nat \ {0}
      /\ alerts[a].status \in Statuses
  BY Domains DEF Inv, Heart, AlertRows
<1>5. b.rest # <<>>
  BY <1>1 DEF Acknowledge
<1>6. PICK status \in Statuses : status = Loaded(b, a)
  BY <1>2, <1>4 DEF Loaded, BatchSound, Statuses
<1>7. PICK by \in BOOLEAN :
         batch' = [batch EXCEPT ![d] =
             [phase |-> "busy", all |-> b.all, rest |-> Tail(b.rest),
              held |-> b.held \cup b.dirty, saw |-> Noted(b, a, status),
              dirty |-> IF (~Settled(status) /\ status # "acknowledged")
                                \/ (~Settled(status) /\ by) THEN {a} ELSE {},
              acked |-> IF ~Settled(status) /\ status # "acknowledged"
                        THEN b.acked \cup {a} ELSE b.acked,
              last |-> [id |-> a, status |-> IF Settled(status) THEN status
                                                                ELSE "acknowledged"],
              found |-> IF Settled(status) THEN Conflicting(b.found, a, status) ELSE b.found,
              notes |-> b.notes]]
  BY <1>1, <1>3, <1>6 DEF Acknowledge
<1> DEFINE dirty == IF (~Settled(status) /\ status # "acknowledged")
                             \/ (~Settled(status) /\ by) THEN {a} ELSE {}
           acked == IF ~Settled(status) /\ status # "acknowledged"
                    THEN b.acked \cup {a} ELSE b.acked
           reading == [id |-> a, status |-> IF Settled(status) THEN status
                                                               ELSE "acknowledged"]
           found == IF Settled(status) THEN Conflicting(b.found, a, status) ELSE b.found
           saw == Noted(b, a, status)
           c == [phase |-> "busy", all |-> b.all, rest |-> Tail(b.rest),
                 held |-> b.held \cup b.dirty, saw |-> saw, dirty |-> dirty,
                 acked |-> acked, last |-> reading, found |-> found, notes |-> b.notes]
<1>8. batch' = [batch EXCEPT ![d] = c]
  BY <1>7
<1>9. dirty \subseteq {a} /\ b.acked \subseteq acked /\ acked \subseteq Nat
  BY <1>4 DEF Batches
<1>10. reading \in Readings /\ reading.status \in Statuses
  BY <1>4 DEF Readings, Statuses
<1>11. /\ found \in Seq(ConflictRows)
       /\ \A i \in DOMAIN b.found : \E j \in DOMAIN found : found[j].alert = b.found[i].alert
       /\ Settled(status) => \E j \in DOMAIN found : found[j].alert = a
  <2>1. b.found \in Seq(ConflictRows)
    BY DEF Batches
  <2>2. CASE Settled(status)
    <3> DEFINE row == [alert |-> a, server |-> status, resolution |-> "none"]
    <3>1. row \in ConflictRows /\ row.alert = a
      BY <1>4, <2>2 DEF ConflictRows, Settled, Closed
    <3> HIDE DEF row
    <3>2. found = Append(b.found, row)
      BY <2>2 DEF Conflicting, row
    <3> HIDE DEF found
    <3>3. /\ found \in Seq(ConflictRows) /\ Len(found) = Len(b.found) + 1
          /\ found[Len(found)] = row /\ \A i \in 1 .. Len(b.found) : found[i] = b.found[i]
      BY <2>1, <3>1, <3>2, AppendProperties
    <3>4. /\ Len(b.found) \in Nat /\ DOMAIN b.found = 1 .. Len(b.found)
          /\ DOMAIN found = 1 .. Len(found)
      BY <2>1, <3>3, LenProperties
    <3> QED BY <3>1, <3>3, <3>4
  <2>3. CASE ~Settled(status)
    BY <2>1, <2>3
  <2> QED BY <2>2, <2>3
<1>12. /\ saw \subseteq Readings
       /\ \A s \in saw : s \in b.saw \/ (s.id = a /\ s.status = status)
  <2>1. [id |-> a, status |-> status] \in Readings
    BY <1>4 DEF Readings
  <2>2. b.saw \subseteq Readings
    BY DEF Batches
  <2> QED BY <2>1, <2>2 DEF Noted
<1>13. \/ status = "acknowledged" \/ Settled(status) \/ a \in acked
  OBVIOUS
<1> HIDE DEF dirty, acked, reading, found, saw
<1>14. c.rest \in Seq(Nat) /\ Progress(c)
  <2>1. /\ c.all = b.all /\ c.rest = Tail(b.rest) /\ c.notes = b.notes
        /\ Head(b.rest) # Note
    BY <1>3, <1>4 DEF Note
  <2> HIDE DEF c
  <2> QED BY <2>1, <1>2, <1>5, NextAction DEF BatchSound
<1>15. /\ c \in Batches /\ c.dirty = dirty /\ c.acked = acked
       /\ c.held = b.held \cup b.dirty /\ c.saw = saw /\ c.found = found /\ c.last = reading
  <2>1. dirty \in SUBSET Nat
    BY <1>4, <1>9
  <2> QED BY <1>9, <1>10, <1>11, <1>12, <1>14, <2>1 DEF Batches
<1> HIDE DEF c
<1>16. c.dirty \cup c.held \subseteq DOMAIN alerts
  BY <1>2, <1>9, <1>15 DEF BatchSound
<1>17. Handled(c)
  <2> SUFFICES ASSUME NEW s \in saw
               PROVE  \/ s.status = "acknowledged" \/ s.id \in acked
                      \/ \E i \in DOMAIN found : found[i].alert = s.id
    BY <1>15 DEF Handled
  <2>1. CASE s.id = a /\ s.status = status
    BY <2>1, <1>11, <1>13
  <2>2. CASE s \in b.saw
    BY <2>2, <1>2, <1>9, <1>11 DEF BatchSound, Handled
  <2> QED BY <2>1, <2>2, <1>12
<1>18. \A s \in c.saw : s.id \in DOMAIN alerts
  BY <1>2, <1>12, <1>15 DEF BatchSound
<1>19. BatchSound(c, alerts)
  BY <1>10, <1>14, <1>15, <1>16, <1>17, <1>18 DEF BatchSound
<1> QED BY <1>8, <1>19, BatchStep DEF Acknowledge, Inv, Sync

LEMMA UnknownStep ==
  ASSUME Inv, NEW d \in Devices, AcknowledgeUnknown(d)
  PROVE  Inv'
<1>1. PICK b \in Batches : b = batch[d]
  BY DEF Inv, Sync
<1>2. BatchSound(b, alerts)
  BY <1>1 DEF Inv, Sync
<1>3. b.rest # <<>> /\ Head(b.rest) > Len(alerts) /\ Len(alerts) \in Nat
  BY <1>1, Domains DEF AcknowledgeUnknown, Inv, Heart
<1> DEFINE c == [b EXCEPT !.rest = Tail(@), !.dirty = {}, !.held = @ \cup b.dirty,
                          !.last = Unloaded]
<1>4. batch' = [batch EXCEPT ![d] = c]
  BY <1>1 DEF AcknowledgeUnknown
<1>5. /\ c.all = b.all /\ c.rest = Tail(b.rest) /\ c.dirty = {} /\ c.acked = b.acked
      /\ c.held = b.held \cup b.dirty /\ c.saw = b.saw /\ c.found = b.found
      /\ c.last = Unloaded /\ c.notes = b.notes
  BY DEF Batches
<1>6. c.rest \in Seq(Nat) /\ Progress(c)
  <2>1. Head(b.rest) # Note
    BY <1>3 DEF Note
  <2> HIDE DEF c
  <2> QED BY <2>1, <1>2, <1>3, <1>5, NextAction DEF BatchSound
<1>7. Unloaded \in Readings /\ Unloaded.id = 0
  BY DEF Unloaded, Readings
<1>8. c \in Batches
  <2>1. PICK rest \in Seq(Nat) : rest = Tail(b.rest)
    BY <1>5, <1>6
  <2>2. c = [b EXCEPT !.rest = rest, !.dirty = {}, !.held = @ \cup b.dirty, !.last = Unloaded]
    BY <2>1
  <2>3. [b EXCEPT !.rest = rest, !.dirty = {}, !.held = @ \cup b.dirty, !.last = Unloaded]
            \in Batches
    BY <1>7 DEF Batches
  <2> QED BY <2>2, <2>3
<1> HIDE DEF c
<1>9. BatchSound(c, alerts)
  BY <1>2, <1>5, <1>6, <1>7, <1>8 DEF BatchSound, Handled
<1> QED BY <1>4, <1>9, BatchStep DEF AcknowledgeUnknown, Inv, Sync

LEMMA NoteStep ==
  ASSUME Inv, NEW d \in Devices, AddNote(d)
  PROVE  Inv'
<1>1. PICK b \in Batches : b = batch[d]
  BY DEF Inv, Sync
<1>2. BatchSound(b, alerts)
  BY <1>1 DEF Inv, Sync
<1>3. b.rest # <<>> /\ Head(b.rest) = Note /\ b.notes \in Nat
  BY <1>1 DEF AddNote, Batches
<1> DEFINE c == [b EXCEPT !.rest = Tail(@), !.notes = @ + 1]
<1>4. batch' = [batch EXCEPT ![d] = c]
  BY <1>1 DEF AddNote
<1>5. /\ c.all = b.all /\ c.rest = Tail(b.rest) /\ c.dirty = b.dirty /\ c.acked = b.acked
      /\ c.held = b.held /\ c.saw = b.saw /\ c.found = b.found /\ c.last = b.last
      /\ c.notes = b.notes + 1
  BY DEF Batches
<1>6. c.rest \in Seq(Nat) /\ Progress(c)
  <2> HIDE DEF c
  <2> QED BY <1>2, <1>3, <1>5, NextAction DEF BatchSound
<1>7. c \in Batches
  <2>1. PICK rest \in Seq(Nat) : rest = Tail(b.rest)
    BY <1>5, <1>6
  <2>4. PICK n \in Nat : n = b.notes + 1
    BY <1>3
  <2>2. c = [b EXCEPT !.rest = rest, !.notes = n]
    BY <2>1, <2>4
  <2>3. [b EXCEPT !.rest = rest, !.notes = n] \in Batches
    BY DEF Batches
  <2> QED BY <2>2, <2>3
<1> HIDE DEF c
<1>8. BatchSound(c, alerts)
  BY <1>2, <1>5, <1>6, <1>7 DEF BatchSound, Handled
<1> QED BY <1>4, <1>8, BatchStep DEF AddNote, Inv, Sync

LEMMA AbortStep ==
  ASSUME Inv, NEW d \in Devices, AbortBatch(d)
  PROVE  Inv'
<1>1. BatchSound(NoBatch, alerts) /\ batch' = [batch EXCEPT ![d] = NoBatch]
  BY NoBatchIsSound DEF AbortBatch
<1> QED BY <1>1, BatchStep DEF AbortBatch, Inv, Sync

\* A commit acknowledges alerts and leaves the rest of their rows alone.
LEMMA CommitStep ==
  ASSUME Inv, NEW d \in Devices, CommitBatch(d)
  PROVE  Inv'
<1>1. PICK b \in Batches : b = batch[d]
  BY DEF Inv, Sync
<1>2. /\ Len(alerts) \in Nat /\ DOMAIN alerts = 1 .. Len(alerts)
      /\ DOMAIN story = 1 .. Len(alerts)
      /\ \A a \in DOMAIN alerts : alerts[a] \in AlertRows /\ story[a] \in Stories
  BY Domains DEF Inv, Heart
<1>3. /\ alerts' = [a \in DOMAIN alerts |->
              IF a \in b.acked THEN [alerts[a] EXCEPT !.status = "acknowledged"] ELSE alerts[a]]
      /\ notes' = notes + b.notes /\ conflicts' = conflicts \o b.found
      /\ batch' = [batch EXCEPT ![d] = Answered]
  BY <1>1 DEF CommitBatch
<1>4. UNCHANGED <<engineVars, request, made, story, sent>>
  BY DEF CommitBatch
<1>5. ASSUME NEW a \in DOMAIN alerts
      PROVE  RowStep(a) /\ alerts'[a] \in AlertRows
  <2>1. story'[a] = Told(story[a], 0, 0, FALSE, FALSE)
    BY <1>2, <1>4 DEF Told, Stories
  <2>2. /\ alerts'[a] \in AlertRows /\ alerts'[a].payload = alerts[a].payload
        /\ alerts'[a].rule = alerts[a].rule /\ alerts'[a].born = alerts[a].born
        /\ alerts'[a].severity = alerts[a].severity
        /\ alerts'[a].status = alerts[a].status \/ alerts'[a].status = "acknowledged"
    <3>1. CASE a \in b.acked
      <4>1. alerts'[a] = [alerts[a] EXCEPT !.status = "acknowledged"]
        BY <3>1, <1>3
      <4> QED BY <4>1, <1>2 DEF AlertRows, Statuses
    <3>2. CASE a \notin b.acked
      BY <3>2, <1>2, <1>3
    <3> QED BY <3>1, <3>2
  <2>3. /\ alerts'[a].payload.duplicates = alerts[a].payload.duplicates + 0
        /\ alerts'[a].payload.level = alerts[a].payload.level + 0
    BY <2>2, <1>2 DEF AlertRows
  <2>4. /\ alerts'[a].payload.duplicates <= 1 + story[a].joined + 0
        /\ alerts'[a].payload.level <= story[a].raised + 0 - 1
    BY <2>2, <1>2, CountersWithin DEF Within, AlertRows, Stories, Inv, Heart
  <2>5. alerts'[a].status \in Closed => alerts[a].status \in Closed
    BY <2>2 DEF Closed
  <2> QED BY <2>1, <2>2, <2>3, <2>4, <2>5 DEF RowStep
<1>6. /\ alerts' \in Seq(AlertRows) /\ Len(alerts') = Len(alerts)
      /\ story' \in Seq(Stories) /\ Len(story') = Len(story)
  <2>1. DOMAIN alerts' = 1 .. Len(alerts)
    BY <1>2, <1>3
  <2>2. alerts' \in [1 .. Len(alerts) -> AlertRows]
    BY <2>1, <1>2, <1>3, <1>5
  <2>3. alerts' \in Seq(AlertRows)
    BY <2>2, <1>2, SeqDef
  <2>4. Len(alerts') = Len(alerts)
    BY <2>1, <2>3, <1>2, LenProperties
  <2> QED BY <2>3, <2>4, <1>4 DEF Inv, Heart, Rows
<1>7. Rows' /\ Grows
  <2>1. clock' \in Times /\ clock <= clock'
    BY <1>4 DEF Inv, Heart, Rows, Times, engineVars
  <2> QED BY <2>1, <1>5, <1>6, RowSteps DEF Inv, Heart
<1>8. /\ conflicts' \in Seq(ConflictRows) /\ DOMAIN conflicts \subseteq DOMAIN conflicts'
  <2>1. conflicts \in Seq(ConflictRows) /\ b.found \in Seq(ConflictRows)
    BY DEF Inv, Sync, Batches
  <2>2. conflicts' \in Seq(ConflictRows) /\ Len(conflicts') = Len(conflicts) + Len(b.found)
    BY <2>1, <1>3, ConcatProperties
  <2> QED BY <2>1, <2>2, LenProperties
<1>9. AllSound'
  BY <1>4, <1>7, <1>8, NoRequest DEF Inv, Heart
<1>10. EngineTypeOK' /\ HistoryExact' /\ made' \in 0 .. MaxRequests
  BY <1>4, EngineKept DEF Inv, Heart
<1>11. DOMAIN alerts' = DOMAIN alerts
  BY <1>3
<1>12. Sync'
  <2>1. Answered \in Batches /\ BatchSound(Answered, alerts')
    BY NoBatchIsSound DEF BatchSound
  <2>2. batch' \in [Devices -> Batches]
    BY <2>1, <1>3 DEF Inv, Sync
  <2>3. \A e \in Devices : BatchSound(batch'[e], alerts')
    BY <2>1, <1>3, <1>11 DEF Inv, Sync, BatchSound
  <2>4. notes' \in Nat /\ sent' \in 0 .. MaxBatches
    BY <1>3, <1>4 DEF Inv, Sync, Batches
  <2> QED BY <2>2, <2>3, <2>4, <1>8 DEF Sync
<1> QED BY <1>7, <1>9, <1>10, <1>12 DEF Inv, Heart

-----------------------------------------------------------------------------
(***************************************************************************)
(* Resolving conflicts, and the whole                                      *)
(***************************************************************************)
LEMMA LoadConflictStep ==
  ASSUME Inv, NEW q \in Requests, LoadConflict(q)
  PROVE  Inv'
<1>1. PICK c \in DOMAIN conflicts, resolution \in Resolutions :
          /\ Begin(q, Session("ready", "resolve", NoRule, "none", c, NoRow, resolution))
          /\ UNCHANGED <<engineVars, alerts, story, syncVars>>
  BY DEF LoadConflict
<1> DEFINE s == Session("ready", "resolve", NoRule, "none", c, NoRow, resolution)
<1>2. c \in Nat
  BY LenProperties DEF Inv, Sync
<1>3. s \in Sessions /\ s.phase = "ready" /\ s.op = "resolve" /\ s.id = c /\ s.status = resolution
  <2>1. resolution \in {"accept_server", "force_local", "dismiss"}
    BY SyncAssumption
  <2> QED BY <1>2, <2>1, SessionFields, SMTT(30)
<1>4. request' = [request EXCEPT ![q] = s] /\ made' \in 0 .. MaxRequests
  BY <1>1, MadeOne DEF Begin, Inv
<1> HIDE DEF s
<1>5. Sound(s, alerts, story, clock, conflicts)
  BY <1>1, <1>3 DEF Sound
<1>6. EngineTypeOK' /\ HistoryExact' /\ clock <= clock'
  BY <1>1, EngineKept DEF Inv, Heart, engineVars, EngineTypeOK, Times
<1>7. Heart'
  BY <1>1, <1>3, <1>4, <1>5, <1>6, SessionStep DEF Inv, syncVars
<1>8. Sync'
  BY <1>1 DEF Inv, Sync, syncVars
<1> QED BY <1>7, <1>8 DEF Inv

LEMMA ResolveConflictStep ==
  ASSUME Inv, NEW q \in Requests, ResolveConflict(q)
  PROVE  Inv'
<1>1. PICK c \in DOMAIN conflicts, resolution \in Resolutions :
          c = request[q].id /\ resolution = request[q].status
  BY DEF ResolveConflict, Ready, Inv, Heart, AllSound, Sound
<1>2. conflicts' = [conflicts EXCEPT ![c].resolution = resolution]
  BY <1>1 DEF ResolveConflict
<1>3. /\ conflicts \in Seq(ConflictRows) /\ DOMAIN conflicts = 1 .. Len(conflicts)
      /\ Len(conflicts) \in Nat /\ conflicts[c] \in ConflictRows
  BY LenProperties, ElementOfSeq DEF Inv, Sync
<1> DEFINE row == [conflicts[c] EXCEPT !.resolution = resolution]
<1>4. row \in ConflictRows
  BY <1>3, SyncAssumption DEF ConflictRows
<1>5. conflicts' = [conflicts EXCEPT ![c] = row]
  BY <1>2
<1> HIDE DEF row
<1>6. conflicts' \in Seq(ConflictRows) /\ DOMAIN conflicts' = DOMAIN conflicts
  BY <1>3, <1>4, <1>5, ExceptSeq
<1>7. Rows' /\ Grows
  BY RowsKept DEF ResolveConflict, Done, engineVars, Inv, Heart, Rows, Times
<1>8. Heart'
  BY <1>6, <1>7, EndStep DEF ResolveConflict, Inv
<1>9. Sync'
  BY <1>6 DEF ResolveConflict, Inv, Sync
<1> QED BY <1>8, <1>9 DEF Inv

LEMMA AlertStepStep ==
  ASSUME Inv, AlertStep
  PROVE  Inv'
<1>1. Heart' /\ Grows
  BY AlertsStep DEF AlertStep, syncVars, Inv
<1>2. DOMAIN alerts \subseteq DOMAIN alerts'
  <2>1. Len(alerts) \in Nat /\ Len(alerts') \in Nat /\ DOMAIN alerts = 1 .. Len(alerts)
        /\ DOMAIN alerts' = 1 .. Len(alerts')
    BY <1>1, LenProperties DEF Inv, Heart, Rows
  <2> QED BY <2>1, <1>1 DEF Grows
<1>3. \A d \in Devices : BatchSound(batch[d], alerts')
  <2> SUFFICES ASSUME NEW d \in Devices PROVE BatchSound(batch[d], alerts')
    OBVIOUS
  <2>1. BatchSound(batch[d], alerts)
    BY DEF Inv, Sync
  <2> QED BY <2>1, <1>2 DEF BatchSound
<1>4. Sync'
  BY <1>3 DEF AlertStep, syncVars, Inv, Sync
<1> QED BY <1>1, <1>4 DEF Inv

LEMMA InitInv == Init => Inv
<1> SUFFICES ASSUME Init PROVE Inv
  OBVIOUS
<1>1. EngineTypeOK /\ HistoryExact /\ clock = 0 /\ clock \in Times
  BY EngineInitially DEF Init, AlertsInit, EngineInit, EngineTypeOK
<1>2. Rows
  <2>1. CASE alerts = <<>> /\ story = <<>>
    <3>1. /\ alerts \in Seq(AlertRows) /\ story \in Seq(Stories)
          /\ DOMAIN alerts = {} /\ Len(story) = Len(alerts)
      BY <2>1, EmptySeq
    <3> QED BY <3>1, <1>1 DEF Rows, CountersExact, ClosedIsStirred, OneIncidentOneAlert
  <2>2. ASSUME NEW rule \in Rules,
               alerts = <<[Fresh(rule, "medium") EXCEPT !.payload.level = 0]>>,
               story = <<[Untouched(0) EXCEPT !.raised = 1, !.stirred = TRUE]>>
        PROVE  Rows
    <3> DEFINE row == [Fresh(rule, "medium") EXCEPT !.payload.level = 0]
               tale == [Untouched(0) EXCEPT !.raised = 1, !.stirred = TRUE]
    <3>1. /\ row \in AlertRows /\ row.status = "new"
          /\ row.payload.duplicates = 1 /\ row.payload.level = 0
      BY <1>1, MediumScored DEF Fresh, AlertRows, Statuses
    <3>2. tale \in Stories /\ tale.joined = 0 /\ tale.raised = 1 /\ tale.stirred
      BY DEF Untouched, Stories
    <3> HIDE DEF row, tale
    <3>3. alerts = <<row>> /\ story = <<tale>>
      BY <2>2 DEF row, tale
    <3>4. /\ alerts \in Seq(AlertRows) /\ story \in Seq(Stories)
          /\ DOMAIN alerts = {1} /\ Len(story) = Len(alerts)
          /\ alerts[1] = row /\ story[1] = tale
      BY <3>1, <3>2, <3>3
    <3>5. CountersExact /\ ClosedIsStirred /\ OneIncidentOneAlert
      BY <3>1, <3>2, <3>4 DEF CountersExact, ClosedIsStirred, OneIncidentOneAlert
    <3> QED BY <3>4, <3>5, <1>1 DEF Rows
  <2> QED BY <2>1, <2>2 DEF Init, AlertsInit
<1>3. AllSound /\ made \in 0 .. MaxRequests
  <2>1. \A q \in Requests : request[q] = Idle
    BY DEF Init, AlertsInit
  <2>2. request \in [Requests -> Sessions]
    BY IdleIsSound DEF Init, AlertsInit
  <2>3. AllSound
    BY <2>1, <2>2, IdleIsSound DEF AllSound
  <2> QED BY <2>3, AlertsAssumption DEF Init, AlertsInit
<1>4. Sync
  <2>1. NoBatch \in Batches /\ BatchSound(NoBatch, alerts)
    BY NoBatchIsSound DEF BatchSound
  <2>2. conflicts \in Seq(ConflictRows)
    BY EmptySeq DEF Init
  <2> QED BY <2>1, <2>2, SyncAssumption DEF Sync, Init
<1> QED BY <1>1, <1>2, <1>3, <1>4 DEF Inv, Heart

LEMMA NextInv == Inv /\ [Next]_vars => Inv'
<1> SUFFICES ASSUME Inv, [Next]_vars PROVE Inv'
  OBVIOUS
<1>1. CASE AlertStep
  BY <1>1, AlertStepStep
<1>2. ASSUME NEW d \in Devices,
             \/ ReceiveBatch(d) \/ Acknowledge(d) \/ AcknowledgeUnknown(d) \/ AddNote(d)
             \/ CommitBatch(d) \/ AbortBatch(d)
      PROVE  Inv'
  BY <1>2, ReceiveStep, AcknowledgeStep, UnknownStep, NoteStep, CommitStep, AbortStep
<1>3. ASSUME NEW q \in Requests, LoadConflict(q) \/ ResolveConflict(q)
      PROVE  Inv'
  BY <1>3, LoadConflictStep, ResolveConflictStep
<1>4. CASE UNCHANGED vars
  <2>1. Rows' /\ Grows
    BY <1>4, RowsKept DEF vars, engineVars, alertVars, Inv, Heart, Rows, Times
  <2>2. EngineTypeOK' /\ HistoryExact'
    BY <1>4, EngineKept DEF vars, Inv, Heart
  <2>3. AllSound'
    BY <1>4, <2>1, NoRequest DEF vars, alertVars, syncVars, Inv, Heart
  <2>4. Sync' /\ made' \in 0 .. MaxRequests
    BY <1>4 DEF vars, alertVars, syncVars, Inv, Heart, Sync
  <2> QED BY <2>1, <2>2, <2>3, <2>4 DEF Inv, Heart
<1> QED BY <1>1, <1>2, <1>3, <1>4 DEF Next

\* The invariant from which the others follow: what requests and batches carry
\* over from their readings, next to the rows.
THEOREM Invariance == Spec => []Inv
<1> QED BY InitInv, NextInv, PTL DEF Spec

\* Alerts, requests, batches and conflicts stay well formed: a conflict is only
\* ever recorded against a closed alert, and batches write only alerts there are.
THEOREM TypeCorrect == Spec => []TypeOK
<1> QED BY Invariance, InvIsEnough, PTL

\* The shared event history loses no event that every window still covers and
\* invents none, however evaluations, tests and time follow each other.
THEOREM HistoryKept == Spec => []HistoryExact
<1> QED BY Invariance, InvIsEnough, PTL

\* One incident, one alert, unless an evaluation read before the other's insert.
THEOREM OneAlertPerIncident == Spec => []OneIncidentOneAlert
<1> QED BY Invariance, InvIsEnough, PTL

\* Racing requests lose counts and levels of an alert but never invent one, and
\* those of an alert that nobody wrote from an old reading are exact.
THEOREM CountersHold == Spec => []CountersExact
<1> QED BY Invariance, InvIsEnough, PTL

\* Only its commit answers a batch.
LEMMA AnswerStep ==
  ASSUME Inv, Next, NEW d \in Devices, batch[d].phase = "busy", batch'[d].phase = "answered"
  PROVE  CommitBatch(d)
<1>1. batch \in [Devices -> Batches]
  BY DEF Inv, Sync
<1>2. ASSUME NEW e \in Devices, NEW b, batch' = [batch EXCEPT ![e] = b]
      PROVE  e = d /\ b.phase = "answered"
  BY <1>1, <1>2
<1>3. ASSUME NEW e \in Devices, CommitBatch(e) PROVE CommitBatch(d)
  BY <1>2, <1>3 DEF CommitBatch
<1>4. ASSUME NEW e \in Devices, ReceiveBatch(e) PROVE FALSE
  <2>1. PICK n \in 1 .. MaxActions : \E actions \in [1 .. n -> 0 .. Len(alerts) + 1] :
            batch' = [batch EXCEPT ![e] =
                [NoBatch EXCEPT !.phase = "busy", !.all = actions, !.rest = actions]]
    BY <1>4 DEF ReceiveBatch
  <2>2. PICK actions :
            batch' = [batch EXCEPT ![e] =
                [NoBatch EXCEPT !.phase = "busy", !.all = actions, !.rest = actions]]
    BY <2>1
  <2> QED BY <1>2, <2>2 DEF NoBatch
<1>5. ASSUME NEW e \in Devices, Acknowledge(e) PROVE FALSE
  <2>1. PICK b : batch' = [batch EXCEPT ![e] = b] /\ b.phase = "busy"
    BY <1>5 DEF Acknowledge
  <2> QED BY <1>2, <2>1
<1>6. ASSUME NEW e \in Devices, AcknowledgeUnknown(e) PROVE FALSE
  <2>1. e = d /\ [batch[e] EXCEPT !.rest = Tail(@), !.dirty = {}, !.held = @ \cup batch[e].dirty,
                                 !.last = Unloaded].phase = "answered"
    BY <1>2, <1>6 DEF AcknowledgeUnknown
  <2> QED BY <2>1, <1>1 DEF Batches
<1>7. ASSUME NEW e \in Devices, AddNote(e) PROVE FALSE
  <2>1. e = d /\ [batch[e] EXCEPT !.rest = Tail(@), !.notes = @ + 1].phase = "answered"
    BY <1>2, <1>7 DEF AddNote
  <2> QED BY <2>1, <1>1 DEF Batches
<1>8. ASSUME NEW e \in Devices, AbortBatch(e) PROVE FALSE
  BY <1>2, <1>8 DEF AbortBatch, NoBatch
<1>9. batch' # batch
  OBVIOUS
<1> QED BY <1>3, <1>4, <1>5, <1>6, <1>7, <1>8, <1>9 DEF Next, AlertStep, LoadConflict,
              ResolveConflict, syncVars

LEMMA FieldWorkStep ==
  ASSUME Inv, Next, NEW d \in Devices, batch[d].phase = "busy", batch'[d].phase = "answered"
  PROVE  /\ notes' = notes + Cardinality({i \in DOMAIN batch[d].all : batch[d].all[i] = Note})
         /\ \A s \in batch[d].saw :
                \/ s.status = "acknowledged"
                \/ alerts'[s.id].status = "acknowledged"
                \/ \E c \in DOMAIN conflicts' \ DOMAIN conflicts : conflicts'[c].alert = s.id
<1>1. CommitBatch(d)
  BY AnswerStep
<1>2. PICK b \in Batches : b = batch[d]
  BY DEF Inv, Sync
<1>3. BatchSound(b, alerts) /\ b.rest = <<>>
  BY <1>1, <1>2 DEF CommitBatch, Inv, Sync
<1>4. notes' = notes + Cardinality({i \in DOMAIN b.all : b.all[i] = Note})
  <2>1. b.all \in Seq(Nat) /\ Len(b.rest) = 0
    BY <1>3, EmptySeq DEF Batches
  <2>2. Len(b.all) \in Nat /\ DOMAIN b.all = 1 .. Len(b.all)
    BY <2>1, LenProperties
  <2>3. Len(b.all) - Len(b.rest) = Len(b.all)
    BY <2>1, <2>2
  <2>4. b.notes = Cardinality({i \in DOMAIN b.all : b.all[i] = Note})
    BY <2>2, <2>3, <1>3 DEF BatchSound, Progress
  <2> QED BY <2>4, <1>1, <1>2 DEF CommitBatch
<1>5. ASSUME NEW s \in b.saw
      PROVE  \/ s.status = "acknowledged"
             \/ alerts'[s.id].status = "acknowledged"
             \/ \E c \in DOMAIN conflicts' \ DOMAIN conflicts : conflicts'[c].alert = s.id
  <2>1. CASE s.id \in b.acked
    <3>1. s.id \in DOMAIN alerts
      BY <1>3 DEF BatchSound
    <3>2. alerts'[s.id] = [alerts[s.id] EXCEPT !.status = "acknowledged"]
      BY <2>1, <3>1, <1>1, <1>2 DEF CommitBatch
    <3>3. alerts[s.id] \in AlertRows
      BY <3>1, Domains DEF Inv, Heart
    <3> QED BY <3>2, <3>3 DEF AlertRows
  <2>2. ASSUME NEW i \in DOMAIN b.found, b.found[i].alert = s.id
        PROVE  \E c \in DOMAIN conflicts' \ DOMAIN conflicts : conflicts'[c].alert = s.id
    <3>1. /\ conflicts \in Seq(ConflictRows) /\ b.found \in Seq(ConflictRows)
          /\ conflicts' = conflicts \o b.found
      BY <1>1, <1>2 DEF CommitBatch, Inv, Sync, Batches
    <3>2. /\ Len(conflicts) \in Nat /\ DOMAIN conflicts = 1 .. Len(conflicts)
          /\ Len(b.found) \in Nat /\ i \in 1 .. Len(b.found)
      BY <3>1, LenProperties
    <3>3. /\ conflicts' \in Seq(ConflictRows)
          /\ Len(conflicts') = Len(conflicts) + Len(b.found)
          /\ conflicts'[Len(conflicts) + i] = b.found[i]
      BY <3>1, <3>2, ConcatProperties
    <3>4. DOMAIN conflicts' = 1 .. Len(conflicts')
      BY <3>3, LenProperties
    <3> QED BY <2>2, <3>2, <3>3, <3>4
  <2> QED BY <2>1, <2>2, <1>3 DEF BatchSound, Handled
<1> QED BY <1>2, <1>4, <1>5

\* A batch that is answered has stored its notes, and each alert it read is
\* acknowledged or its conflict is on record, whatever others write meanwhile.
THEOREM FieldWorkStays == Spec => FieldWorkKept
<1>1. Inv /\ [Next]_vars =>
          [\A d \in Devices :
              batch[d].phase = "busy" /\ batch'[d].phase = "answered" =>
                  /\ notes' = notes + Cardinality({i \in DOMAIN batch[d].all :
                                                      batch[d].all[i] = Note})
                  /\ \A s \in batch[d].saw :
                         \/ s.status = "acknowledged"
                         \/ alerts'[s.id].status = "acknowledged"
                         \/ \E c \in DOMAIN conflicts' \ DOMAIN conflicts :
                                conflicts'[c].alert = s.id]_vars
  BY FieldWorkStep
<1> QED BY <1>1, Invariance, PTL DEF Spec, FieldWorkKept
=============================================================================
