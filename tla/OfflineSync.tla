---------------------------- MODULE OfflineSync ----------------------------
(***************************************************************************)
(* Alerts together with backend/app/services/mobile/offline_sync.py:       *)
(* devices send the actions they queued while offline, one transaction per *)
(* batch, and people decide on the conflicts this records.                 *)
(*                                                                         *)
(* A statement of the batch first writes (autoflush) what the actions      *)
(* before it changed, and from then on the batch holds those rows: others  *)
(* write them only after it has ended.  A row the session still refers to  *)
(* is not read again: the last alert it loaded.                            *)
(***************************************************************************)
EXTENDS Alerts

CONSTANTS
    Devices,     \* devices that send batches
    Resolutions, \* how a conflict can be resolved
    MaxBatches,  \* bound: batches that are sent
    MaxActions   \* bound: actions in a batch

ASSUME SyncAssumption ==
    /\ MaxBatches \in Nat /\ MaxActions \in Nat
    /\ Resolutions \subseteq {"accept_server", "force_local", "dismiss"}

VARIABLES
    batch,      \* per device, the batch the server is working on
    sent,       \* how many batches have been sent
    notes,      \* rows of field_notes and events
    conflicts   \* the rows of sync_conflicts

syncVars == <<batch, sent, notes, conflicts>>
vars == <<engineVars, alertVars, syncVars>>

\* An action acknowledges an alert, by its number, or adds a note (0).
Note == 0
Unloaded == [id |-> 0, status |-> "none"]

\* last: the alert the session still refers to; dirty: changed and not yet
\* written; held: written and not yet committed; acked: those of them whose
\* status it changes; found: the conflicts; saw: history, what the batch last
\* read of each alert before it changed the status itself.
NoBatch == [phase |-> "idle", all |-> <<>>, rest |-> <<>>, last |-> Unloaded,
            dirty |-> {}, held |-> {}, acked |-> {}, found |-> <<>>, notes |-> 0,
            saw |-> {}]

Answered == [NoBatch EXCEPT !.phase = "answered"]

Readings == [id : Nat, status : Statuses \cup {"none"}]

ConflictRows ==
    [alert : Nat, server : Closed,
     resolution : {"none", "accept_server", "force_local", "dismiss"}]

Batches ==
    [phase : {"idle", "busy", "answered"}, all : Seq(Nat), rest : Seq(Nat),
     last : Readings, dirty : SUBSET Nat, held : SUBSET Nat, acked : SUBSET Nat,
     found : Seq(ConflictRows), notes : Nat, saw : SUBSET Readings]

HeldByOthers(d) == UNION {batch[e].held : e \in Devices \ {d}}
Held == UNION {batch[d].held : d \in Devices}

(***************************************************************************)
(* process_offline_actions                                                 *)
(***************************************************************************)
ReceiveBatch(d) ==
    /\ batch[d].phase # "busy"
    /\ sent < MaxBatches
    /\ sent' = sent + 1
    /\ \E n \in 1 .. MaxActions : \E actions \in [1 .. n -> 0 .. Len(alerts) + 1] :
           batch' = [batch EXCEPT ![d] =
               [NoBatch EXCEPT !.phase = "busy", !.all = actions, !.rest = actions]]
    /\ UNCHANGED <<engineVars, alertVars, notes, conflicts>>

\* Mutant of Settled: what somebody else acknowledged is a conflict as well.
NotNew(status) == status # "new"

Settled(status) == status \in {"resolved", "dismissed"}

\* The status that the SELECT of an alert yields: the row in memory if it is
\* still there, and otherwise the stored one.
Loaded(b, a) ==
    IF a \in b.acked THEN "acknowledged"
    ELSE IF b.last.id = a THEN b.last.status
    ELSE alerts[a].status

Noted(b, a, status) ==
    IF a \in b.acked THEN b.saw
    ELSE {s \in b.saw : s.id # a} \cup {[id |-> a, status |-> status]}

\* Mutant of Conflicting: the conflict is answered but not recorded.
Unrecorded(found, a, status) == found

Conflicting(found, a, status) ==
    Append(found, [alert |-> a, server |-> status, resolution |-> "none"])

\* The next action: first the flush, which waits for rows that others hold.  An
\* alert acknowledged before is written only when acknowledged_by changes.
Acknowledge(d) ==
    \E by \in BOOLEAN :
        LET b == batch[d]
            a == Head(b.rest)
            status == Loaded(b, a)
            new == ~Settled(status) /\ status # "acknowledged"
            changed == new \/ (~Settled(status) /\ by)
        IN  /\ b.phase = "busy" /\ b.rest # <<>> /\ a \in DOMAIN alerts
            /\ b.dirty \cap HeldByOthers(d) = {}
            /\ batch' = [batch EXCEPT ![d] =
                   [phase |-> "busy", all |-> b.all, rest |-> Tail(b.rest),
                    held |-> b.held \cup b.dirty, saw |-> Noted(b, a, status),
                    dirty |-> IF changed THEN {a} ELSE {},
                    acked |-> IF new THEN b.acked \cup {a} ELSE b.acked,
                    last |-> [id |-> a, status |-> IF Settled(status) THEN status
                                                                      ELSE "acknowledged"],
                    found |-> IF Settled(status) THEN Conflicting(b.found, a, status)
                                                 ELSE b.found,
                    notes |-> b.notes]]
            /\ UNCHANGED <<engineVars, alertVars, sent, notes, conflicts>>

\* An action on an alert that does not exist only flushes.
AcknowledgeUnknown(d) ==
    LET b == batch[d]
    IN  /\ b.phase = "busy" /\ b.rest # <<>> /\ Head(b.rest) > Len(alerts)
        /\ b.dirty \cap HeldByOthers(d) = {}
        /\ batch' = [batch EXCEPT ![d] = [b EXCEPT
               !.rest = Tail(@), !.dirty = {}, !.held = @ \cup b.dirty, !.last = Unloaded]]
        /\ UNCHANGED <<engineVars, alertVars, sent, notes, conflicts>>

\* Notes, evidence and annotations are inserted; actions carry no id.
AddNote(d) ==
    LET b == batch[d]
    IN  /\ b.phase = "busy" /\ b.rest # <<>> /\ Head(b.rest) = Note
        /\ batch' = [batch EXCEPT ![d] = [b EXCEPT !.rest = Tail(@), !.notes = @ + 1]]
        /\ UNCHANGED <<engineVars, alertVars, sent, notes, conflicts>>

\* Of the rows it holds, those whose status it changed become acknowledged.
CommitBatch(d) ==
    LET b == batch[d]
    IN  /\ b.phase = "busy" /\ b.rest = <<>>
        /\ b.dirty \cap HeldByOthers(d) = {}
        /\ alerts' = [a \in DOMAIN alerts |->
               IF a \in b.acked
               THEN [alerts[a] EXCEPT !.status = "acknowledged"] ELSE alerts[a]]
        /\ notes' = notes + b.notes
        /\ conflicts' = conflicts \o b.found
        /\ batch' = [batch EXCEPT ![d] = Answered]
        /\ UNCHANGED <<engineVars, request, made, story, sent>>

\* An action named a row that does not exist, two batches waited for each other
\* or the worker died: the whole batch is lost, and the device told so.
AbortBatch(d) ==
    /\ batch[d].phase = "busy"
    /\ batch' = [batch EXCEPT ![d] = NoBatch]
    /\ UNCHANGED <<engineVars, alertVars, sent, notes, conflicts>>

(***************************************************************************)
(* resolve_sync_conflict                                                   *)
(***************************************************************************)
LoadConflict(q) ==
    \E c \in DOMAIN conflicts, resolution \in Resolutions :
        /\ conflicts[c].resolution = "none"
        /\ Begin(q, Session("ready", "resolve", NoRule, "none", c, NoRow, resolution))
        /\ UNCHANGED <<engineVars, alerts, story, syncVars>>

\* The resolution is recorded; "force_local" changes no alert.
ResolveConflict(q) ==
    LET c == request[q].id
    IN  /\ Ready(q, "resolve")
        /\ conflicts' = [conflicts EXCEPT ![c].resolution = request[q].status]
        /\ Done(q)
        /\ UNCHANGED <<alerts, story, batch, sent, notes>>

-----------------------------------------------------------------------------
Init ==
    /\ AlertsInit
    /\ batch = [d \in Devices |-> NoBatch]
    /\ sent = 0 /\ notes = 0
    /\ conflicts = <<>>

\* A step of Alerts waits for the rows that a batch holds.
AlertStep ==
    /\ AlertsNext
    /\ \A a \in Held : alerts'[a] = alerts[a]
    /\ UNCHANGED syncVars

Next ==
    \/ AlertStep
    \/ \E d \in Devices :
           \/ ReceiveBatch(d) \/ Acknowledge(d) \/ AcknowledgeUnknown(d) \/ AddNote(d)
           \/ CommitBatch(d) \/ AbortBatch(d)
    \/ \E q \in Requests : LoadConflict(q) \/ ResolveConflict(q)

Spec == Init /\ [][Next]_vars

(***************************************************************************)
(* Properties                                                              *)
(***************************************************************************)
\* The rows are well formed; a conflict is recorded against a closed alert.
TypeOK ==
    /\ AlertsTypeOK
    /\ batch \in [Devices -> Batches]
    /\ \A d \in Devices : batch[d].dirty \cup batch[d].held \subseteq DOMAIN alerts
    /\ sent \in 0 .. MaxBatches
    /\ notes \in Nat
    /\ conflicts \in Seq(ConflictRows)

\* Work done offline is not lost: when a batch is answered its notes are stored,
\* and each alert it read is acknowledged or its conflict is on record, whatever
\* others wrote after the reading; only what the batch found acknowledged it
\* leaves as it is (process_offline_actions).
FieldWorkKept ==
    [][\A d \in Devices :
          batch[d].phase = "busy" /\ batch'[d].phase = "answered" =>
              /\ notes' = notes + Cardinality({i \in DOMAIN batch[d].all :
                                                  batch[d].all[i] = Note})
              /\ \A s \in batch[d].saw :
                     \/ s.status = "acknowledged"
                     \/ alerts'[s.id].status = "acknowledged"
                     \/ \E c \in DOMAIN conflicts' \ DOMAIN conflicts :
                            conflicts'[c].alert = s.id]_vars
=============================================================================
