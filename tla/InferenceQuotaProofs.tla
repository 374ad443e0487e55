------------------------ MODULE InferenceQuotaProofs ------------------------
(***************************************************************************)
(* Proofs about InferenceQuota, for any number of requests, limits and     *)
(* days.                                                                   *)
(***************************************************************************)
EXTENDS InferenceQuota, TLAPS

\* At most one check holds the row, and the row is what it read.
Exclusive ==
    \A q \in Requests : request[q].phase = "locked" =>
        /\ request[q].read = quota
        /\ \A p \in Requests : request[p].phase = "locked" => p = q

\* The counter never falls behind the calls it counts.
Counted == granted <= quota.used

\* A set_quota in flight carries a reset no later than the coming midnight.
ResetsInTime == \A q \in Requests : request[q].resets <= day + 1

Inv == TypeOK /\ Exclusive /\ Counted /\ GrantsWithinLimit
              /\ ResetsInTime /\ RenewedByMidnight

LEMMA InitInv == Init => Inv
  BY QuotaAssumption
  DEF Init, Inv, TypeOK, Exclusive, Counted, GrantsWithinLimit, ResetsInTime,
      RenewedByMidnight, Idle, NoRow, QuotaRows, RequestRecords

\* A record assigned to one request, and the others left alone.
LEMMA OneRequest ==
  ASSUME TypeOK, NEW q \in Requests, NEW r \in RequestRecords,
         request' = [request EXCEPT ![q] = r]
  PROVE  /\ request' \in [Requests -> RequestRecords]
         /\ request'[q] = r
         /\ \A p \in Requests : p # q => request'[p] = request[p]
  BY DEF TypeOK

LEMMA IdleIsARecord == Idle \in RequestRecords
  BY QuotaAssumption DEF Idle, NoRow, RequestRecords, QuotaRows

\* Steps that change one request and no row.
LEMMA QuietStep ==
  ASSUME Inv, NEW q \in Requests,
         ReceiveSet(q) \/ ReadForSet(q) \/ Lock(q) \/ Rollback(q)
  PROVE  Inv'
<1>1. UNCHANGED <<quota, day, granted, today>>
  BY DEF ReceiveSet, ReadForSet, Lock, Rollback
<1>2. PICK r \in RequestRecords :
        /\ request' = [request EXCEPT ![q] = r]
        /\ r.resets <= day + 1
        /\ r.phase = "locked" => r.read = quota /\ LockFree
  <2>1. CASE ReceiveSet(q)
    <3>1. PICK limit \in Limits :
            request' = [request EXCEPT ![q] =
                [phase |-> "received", limit |-> limit, resets |-> day + 1,
                 read |-> NoRow]]
      BY <2>1 DEF ReceiveSet
    <3> DEFINE r == [phase |-> "received", limit |-> limit, resets |-> day + 1,
                     read |-> NoRow]
    <3>2. limit \in 0 .. MaxLimit /\ day + 1 \in Nat /\ NoRow \in QuotaRows
      BY QuotaAssumption DEF Limits, NoRow, QuotaRows, Inv, TypeOK
    <3>3. r \in RequestRecords /\ r.resets <= day + 1
      BY <3>2 DEF RequestRecords
    <3> QED BY <3>1, <3>3
  <2>2. CASE ReadForSet(q)
    <3> DEFINE r == [phase |-> "read", limit |-> request[q].limit,
                     resets |-> request[q].resets, read |-> quota]
    <3>1. r \in RequestRecords /\ r.resets <= day + 1
      BY DEF Inv, TypeOK, ResetsInTime, RequestRecords
    <3> QED BY <2>2, <3>1 DEF ReadForSet
  <2>3. CASE Lock(q)
    <3> DEFINE r == [phase |-> "locked", limit |-> 0, resets |-> 0, read |-> quota]
    <3>1. r \in RequestRecords /\ r.resets <= day + 1
      BY QuotaAssumption DEF RequestRecords, Inv, TypeOK
    <3> QED BY <2>3, <3>1 DEF Lock
  <2>4. CASE Rollback(q)
    <3>1. Idle.resets <= day + 1 /\ Idle.phase # "locked"
      BY DEF Idle, Inv, TypeOK
    <3> QED BY <2>4, <3>1, IdleIsARecord DEF Rollback
  <2> QED BY <2>1, <2>2, <2>3, <2>4
<1>3. /\ request' \in [Requests -> RequestRecords]
      /\ request'[q] = r
      /\ \A p \in Requests : p # q => request'[p] = request[p]
  BY <1>2, OneRequest DEF Inv
<1>4. TypeOK'
  BY <1>1, <1>3 DEF Inv, TypeOK
<1>5. Exclusive'
  BY <1>1, <1>2, <1>3 DEF Inv, Exclusive, LockFree
<1>6. ResetsInTime'
  BY <1>1, <1>2, <1>3 DEF Inv, ResetsInTime
<1> QED
  BY <1>1, <1>4, <1>5, <1>6 DEF Inv, Counted, GrantsWithinLimit, RenewedByMidnight

\* set_quota changes the row only when no check holds it.
LEMMA CommitSetStep ==
  ASSUME Inv, NEW q \in Requests, CommitSet(q)
  PROVE  Inv'
<1> DEFINE r == request[q]
<1>0. r \in RequestRecords /\ quota \in QuotaRows
  BY DEF Inv, TypeOK
<1>1. /\ request' \in [Requests -> RequestRecords]
      /\ request'[q] = Idle
      /\ \A p \in Requests : p # q => request'[p] = request[p]
  BY IdleIsARecord, OneRequest DEF CommitSet, Inv
<1>2. /\ quota' \in QuotaRows
      /\ quota'.limit <= MaxLimit /\ quota'.used <= MaxLimit
      /\ quota'.resets <= day + 1
  <2>1. r.limit <= MaxLimit /\ r.resets <= day + 1
    BY QuotaAssumption DEF Inv, TypeOK, ResetsInTime, RequestRecords
  <2> QED
    BY <1>0, <2>1, QuotaAssumption
    DEF CommitSet, WrittenBySet, Column, Inv, TypeOK, RenewedByMidnight,
        QuotaRows, RequestRecords
<1>3. LockFree \/ quota' = quota
  <2>1. CASE WrittenBySet(r, r.read) # r.read
    BY <2>1 DEF CommitSet
  <2>2. CASE WrittenBySet(r, r.read) = r.read
    <3>1. r.limit = r.read.limit /\ 0 = r.read.used /\ r.resets = r.read.resets
      BY <2>2, <1>0 DEF WrittenBySet, Column, RequestRecords, QuotaRows
    <3> QED BY <3>1, <1>0 DEF CommitSet, WrittenBySet, Column, QuotaRows
  <2> QED BY <2>1, <2>2
<1>4. granted' = 0 /\ today' = 0 /\ day' = day
  BY DEF CommitSet
<1>5. TypeOK'
  BY <1>1, <1>2, <1>4 DEF Inv, TypeOK
<1>6. Exclusive'
  BY <1>1, <1>3 DEF Inv, Exclusive, LockFree, Idle
<1>7. ResetsInTime'
  BY <1>1, <1>4 DEF Inv, ResetsInTime, Idle, TypeOK
<1>8. Counted' /\ GrantsWithinLimit' /\ RenewedByMidnight'
  BY <1>2, <1>4 DEF Counted, GrantsWithinLimit, RenewedByMidnight, QuotaRows
<1> QED BY <1>5, <1>6, <1>7, <1>8 DEF Inv

\* A check decides on the row it holds, so it grants what the row has left.
LEMMA ConsumeStep ==
  ASSUME Inv, NEW q \in Requests, Consume(q)
  PROVE  Inv'
<1> DEFINE due == Due(quota.resets)
           used == IF due THEN 0 ELSE quota.used
           unit == IF HasRoom(used, quota.limit) THEN 1 ELSE 0
           resets == IF due THEN quota.resets + 1 ELSE quota.resets
<1>1. /\ request' \in [Requests -> RequestRecords]
      /\ request'[q] = Idle
      /\ \A p \in Requests : p # q => request'[p] = request[p]
  BY IdleIsARecord, OneRequest DEF Consume, Inv
<1>2. /\ request[q].read = quota
      /\ \A p \in Requests : request[p].phase = "locked" => p = q
  BY DEF Consume, Inv, Exclusive
<1>3. /\ quota' = [limit |-> quota.limit,
                   used |-> Column(quota.used, used + unit, quota.used),
                   resets |-> Column(quota.resets, resets, quota.resets)]
      /\ granted' = (IF due THEN 0 ELSE granted) + unit
      /\ today' = today + unit
      /\ day' = day
  BY <1>2 DEF Consume
<1>4. /\ quota'.limit = quota.limit
      /\ quota'.used = used + unit
      /\ quota'.resets = resets
      /\ quota' \in QuotaRows
  BY <1>3 DEF Column, Inv, TypeOK, QuotaRows
<1>5. /\ used \in Nat /\ unit \in {0, 1} /\ used <= MaxLimit
      /\ unit = 1 => used + 1 <= quota.limit
  BY QuotaAssumption DEF HasRoom, Inv, TypeOK, QuotaRows
<1>6. TypeOK'
  BY <1>1, <1>3, <1>4, <1>5, QuotaAssumption DEF Inv, TypeOK, QuotaRows
<1>7. Exclusive'
  BY <1>1, <1>2 DEF Exclusive, Idle
<1>8. Counted' /\ GrantsWithinLimit'
  BY <1>3, <1>4, <1>5 DEF Inv, TypeOK, Counted, GrantsWithinLimit, QuotaRows
<1>9. ResetsInTime' /\ RenewedByMidnight'
  BY <1>1, <1>3, <1>4
  DEF Due, Inv, TypeOK, ResetsInTime, RenewedByMidnight, Idle, QuotaRows
<1> QED BY <1>6, <1>7, <1>8, <1>9 DEF Inv

LEMMA NextDayStep ==
  ASSUME Inv, NextDay
  PROVE  Inv'
<1>1. /\ UNCHANGED <<quota, request, granted>>
      /\ day' = day + 1 /\ day' \in 1 .. MaxDays /\ today' = 0
  BY QuotaAssumption DEF NextDay, Inv, TypeOK
<1>2. TypeOK'
  BY <1>1 DEF Inv, TypeOK
<1>3. ResetsInTime' /\ RenewedByMidnight'
  BY <1>1 DEF Inv, TypeOK, ResetsInTime, RenewedByMidnight, RequestRecords, QuotaRows
<1> QED
  BY <1>1, <1>2, <1>3 DEF Inv, Exclusive, Counted, GrantsWithinLimit

\* Every reachable state satisfies the inductive invariant.
THEOREM Invariance == Spec => []Inv
<1>1. Inv /\ [Next]_vars => Inv'
  <2> SUFFICES ASSUME Inv, [Next]_vars PROVE Inv'
    OBVIOUS
  <2>1. CASE NextDay
    BY <2>1, NextDayStep
  <2>2. ASSUME NEW q \in Requests, Step(q) PROVE Inv'
    BY <2>2, QuietStep, CommitSetStep, ConsumeStep DEF Step
  <2>3. CASE UNCHANGED vars
    BY <2>3 DEF vars, Inv, TypeOK, Exclusive, Counted, GrantsWithinLimit,
                ResetsInTime, RenewedByMidnight
  <2> QED BY <2>1, <2>2, <2>3 DEF Next
<1> QED BY InitInv, <1>1, PTL DEF Spec

\* The row and the requests keep their types, the counter its bound.
THEOREM TypeCorrect == Spec => []TypeOK
  BY Invariance, PTL DEF Inv

\* However many checks and set_quota calls race, the calls allowed since the
\* counter was reset stay within the limit (check_quota's FOR UPDATE).
THEOREM LimitHolds == Spec => []GrantsWithinLimit
  BY Invariance, PTL DEF Inv

\* The counter is reset by the coming midnight at the latest.
THEOREM ResetByMidnight == Spec => []RenewedByMidnight
  BY Invariance, PTL DEF Inv
-----------------------------------------------------------------------------
(***************************************************************************)
(* The daily allowance.  It is lost when the reset of the row lies in the  *)
(* past (no check for a day, or a set_quota committed a day late), since a *)
(* check moves it on by one day only.  While that does not happen it holds *)
(* whatever races.                                                         *)
(***************************************************************************)
Punctual == quota # NoRow => quota.resets >= day

\* A row whose reset is due has granted nothing today, and a row whose reset
\* is to come has counted what it granted today.
CountedToday ==
    /\ Due(quota.resets) => today = 0
    /\ ~Due(quota.resets) => today <= quota.used

\* Every step of a punctual quota keeps today's account.
LEMMA DailyStep ==
  ASSUME Inv, Punctual, CountedToday, DailyAllowance, [Next]_vars
  PROVE  CountedToday' /\ DailyAllowance'
<1>0. /\ quota \in QuotaRows /\ day \in Nat /\ today \in Nat
      /\ quota.limit \in Nat /\ quota.used \in Nat /\ quota.resets \in Nat
  BY QuotaAssumption DEF Inv, TypeOK, QuotaRows
<1>1. CASE UNCHANGED <<quota, day, today>>
  BY <1>1 DEF CountedToday, DailyAllowance, Due
<1>2. CASE NextDay
  BY <1>0, <1>2 DEF NextDay, CountedToday, DailyAllowance, Due
<1>3. ASSUME NEW q \in Requests, CommitSet(q)
      PROVE  CountedToday' /\ DailyAllowance'
  <2>1. Inv'
    BY <1>3, CommitSetStep
  <2>2. quota'.limit \in Nat /\ quota'.used \in Nat /\ today' = 0
    BY <1>3, <2>1 DEF Inv, TypeOK, QuotaRows, CommitSet
  <2> QED BY <2>2 DEF CountedToday, DailyAllowance
<1>4. ASSUME NEW q \in Requests, Consume(q)
      PROVE  CountedToday' /\ DailyAllowance'
  <2> DEFINE used == IF Due(quota.resets) THEN 0 ELSE quota.used
             unit == IF HasRoom(used, quota.limit) THEN 1 ELSE 0
             resets == IF Due(quota.resets) THEN quota.resets + 1 ELSE quota.resets
  <2>1. request[q].read = quota
    BY <1>4 DEF Consume, Inv, Exclusive
  <2>2. /\ quota' = [limit |-> quota.limit,
                     used |-> Column(quota.used, used + unit, quota.used),
                     resets |-> Column(quota.resets, resets, quota.resets)]
        /\ today' = today + unit
        /\ day' = day
    BY <1>4, <2>1 DEF Consume
  <2>3. quota'.limit = quota.limit /\ quota'.used = used + unit /\ quota'.resets = resets
    BY <2>2 DEF Column
  <2>4. unit \in {0, 1} /\ used \in Nat /\ (unit = 1 => used + 1 <= quota.limit)
    BY <1>0 DEF HasRoom
  <2>5. CASE quota = NoRow
    <3>1. quota.limit = 0 /\ quota.used = 0 /\ quota.resets = 0
      BY <2>5 DEF NoRow
    <3>2. unit = 0 /\ today = 0
      BY <1>0, <2>4, <3>1 DEF CountedToday, Due
    <3> QED BY <1>0, <2>2, <2>3, <2>4, <3>2 DEF CountedToday, DailyAllowance
  <2>6. CASE quota # NoRow /\ Due(quota.resets)
    <3>1. today = 0 /\ quota.resets = day /\ used = 0 /\ resets = day + 1
      BY <1>0, <2>6 DEF CountedToday, Punctual, Due
    <3>2. today' = unit /\ quota'.used = unit /\ quota'.resets = day + 1
      BY <2>2, <2>3, <2>4, <3>1
    <3>3. unit <= quota.limit
      BY <1>0, <2>4, <3>1
    <3>4. CountedToday'
      BY <1>0, <2>2, <2>4, <3>2 DEF CountedToday, Due
    <3> QED BY <2>3, <3>2, <3>3, <3>4 DEF DailyAllowance
  <2>7. CASE ~Due(quota.resets)
    <3>1. today <= quota.used /\ used = quota.used /\ resets = quota.resets
      BY <2>7 DEF CountedToday
    <3>2. CountedToday'
      BY <1>0, <2>2, <2>3, <2>4, <2>7, <3>1 DEF CountedToday, Due
    <3>3. DailyAllowance'
      BY <1>0, <2>2, <2>3, <2>4, <3>1 DEF DailyAllowance
    <3> QED BY <3>2, <3>3
  <2> QED BY <2>5, <2>6, <2>7
<1> QED
  BY <1>1, <1>2, <1>3, <1>4
  DEF Next, Step, vars, ReceiveSet, ReadForSet, Lock, Rollback

\* While the reset of a quota never lies in the past, no more calls than the
\* limit are allowed from midnight to midnight, however many checks and
\* set_quota calls race: a late reset is the only way past the allowance.
THEOREM PunctualAllowance == Spec /\ []Punctual => []DailyAllowance
<1>1. Init => CountedToday /\ DailyAllowance
  BY DEF Init, CountedToday, DailyAllowance, NoRow
<1>2. Inv /\ Punctual /\ CountedToday /\ DailyAllowance /\ [Next]_vars =>
          CountedToday' /\ DailyAllowance'
  BY DailyStep
<1> QED BY <1>1, <1>2, Invariance, PTL DEF Spec
=============================================================================
