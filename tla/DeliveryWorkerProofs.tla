------------------------- MODULE DeliveryWorkerProofs -------------------------
(***************************************************************************)
(* The queue tables keep their invariants for any number of events,        *)
(* listeners and workers and for any callers of the adapter.  Over them,   *)
(* for any capacities and any number of failures, the state of every       *)
(* worker process stays well formed, the tables keep their invariant       *)
(* whatever the workers do to them, and no row is removed before a         *)
(* destination accepted its event.                                         *)
(***************************************************************************)
EXTENDS DeliveryWorker, FiniteSetTheorems, TLAPS

-------------------------------------------------------------------------------
(* The queue tables, whoever calls the adapter.                            *)

\* A dead row has an attempt on record.  Nothing else would make
\* DroppedWasTried survive the drop of a partition of dead letters.
DeadIsRecorded ==
    \A e \in Events : queue[e].status = "dead" => \E d \in deliveries : d.event_id = e

\* The inductive invariant.
QInv ==
    /\ QTypeOK
    /\ RowsAreLogged
    /\ DeadHasReason
    /\ DeliveringIsOwned
    /\ DeliveredIsRecorded
    /\ DroppedWasTried
    /\ AttemptsAreClaims
    /\ DeadIsRecorded

\* One adapter operation, or one tick of the server clock.
QStep ==
    \/ \E e \in Events : Enqueue(e) \/ BecomeDue(e) \/ LeaseExpires(e)
    \/ \E w \in Workers, S \in SUBSET Claimable : ClaimRows(w, S)
    \/ \E w \in Workers, e \in Events, a \in Nat :
           \/ Ack(w, e, a)
           \/ \E due \in BOOLEAN : Nack(w, e, a, due)
           \/ \E reason \in DeadReasons : Dead(w, e, a, reason)
    \/ ReclaimExpired
    \/ \E sel \in Selector, S \in SUBSET Events :
           RetryBatch(sel, S) /\ \A e \in S : Matches(sel, e)
    \/ \E P \in SUBSET Events : DropPartition(P)

\* The stand-in for a missing row is a row.
LEMMA AbsentRow == Absent \in Row
  BY DEF Absent, Row, Statuses

\* Replacing one attempt record keeps every other one and adds one.
LEMMA RecordedFacts ==
  ASSUME QTypeOK, NEW e \in Events, NEW a \in Nat, NEW ok \in BOOLEAN
  PROVE  /\ Recorded(e, a, ok) \subseteq Delivery
         /\ [event_id |-> e, attempt |-> a, ok |-> ok] \in Recorded(e, a, ok)
         /\ \A d \in deliveries : d.event_id # e => d \in Recorded(e, a, ok)
         /\ \A d \in Recorded(e, a, ok) :
               \/ d = [event_id |-> e, attempt |-> a, ok |-> ok]
               \/ d \in deliveries /\ ~(d.event_id = e /\ d.attempt = a)
  BY DEF QTypeOK, Recorded, Delivery

\* Operations that rewrite a set of rows field by field and leave the logs
\* alone keep the invariant if each rewritten row does.
LEMMA RewriteKeeps ==
  ASSUME QInv, NEW S \in SUBSET Events,
         queue' \in [Events -> Row],
         issued' \in [Events -> Nat], resets' \in [Events -> Nat],
         UNCHANGED <<log, dropped, deliveries>>,
         \A e \in Events \ S : queue'[e] = queue[e],
         \A e \in S : /\ queue[e].status # "absent" /\ queue'[e].status # "absent"
                      /\ queue'[e].status = "dead" => queue[e].status = "dead"
                      /\ queue'[e].status = "dead" <=> queue'[e].dead_reason # "null"
                      /\ queue'[e].status = "delivering" => queue'[e].leased_by \in Workers,
         \A e \in Events : queue'[e].attempts <= issued'[e]
  PROVE  QInv'
<1>1. QTypeOK'
  BY DEF QInv, QTypeOK
<1>2. RowsAreLogged'
  BY DEF QInv, RowsAreLogged
<1>3. DeadHasReason'
  BY DEF QInv, DeadHasReason
<1>4. DeliveringIsOwned'
  BY DEF QInv, DeliveringIsOwned
<1>5. DeliveredIsRecorded'
  BY DEF QInv, QTypeOK, DeliveredIsRecorded
<1>6. DroppedWasTried'
  BY DEF QInv, DroppedWasTried
<1>7. AttemptsAreClaims'
  BY DEF QInv, AttemptsAreClaims
<1>8. DeadIsRecorded'
  BY DEF QInv, QTypeOK, DeadIsRecorded
<1> QED  BY <1>1, <1>2, <1>3, <1>4, <1>5, <1>6, <1>7, <1>8 DEF QInv

\* Claims lease pending rows, which carry no reason, to a worker.
LEMMA ClaimKeeps ==
  ASSUME QInv, NEW w \in Workers, NEW S \in SUBSET Claimable, ClaimRows(w, S)
  PROVE  QInv'
<1> DEFINE leased(e) == [queue[e] EXCEPT !.status = "delivering", !.attempts = @ + 1,
                                         !.leased_by = w, !.expired = FALSE]
<1>0. S \subseteq Events /\ \A e \in S : queue[e].status = "pending"
  BY DEF Claimable
<1>1. \A e \in Events : queue[e] \in Row /\ issued[e] \in Nat /\ queue[e].attempts \in Nat
  BY DEF QInv, QTypeOK, Row
<1>2. \A e \in Events : queue'[e] = IF e \in S THEN leased(e) ELSE queue[e]
  BY <1>0 DEF ClaimRows
<1>3. \A e \in Events : issued'[e] = IF e \in S THEN issued[e] + 1 ELSE issued[e]
  BY <1>0 DEF ClaimRows
<1>4. ASSUME NEW e \in S
      PROVE  /\ leased(e) \in Row
             /\ leased(e).status = "delivering"
             /\ leased(e).leased_by = w
             /\ leased(e).attempts = queue[e].attempts + 1
             /\ leased(e).dead_reason = queue[e].dead_reason
  <2> DEFINE n == queue[e].attempts + 1
  <2>1. queue[e] \in Row /\ n \in Nat
    BY <1>0, <1>1
  <2>2. leased(e) = [queue[e] EXCEPT !.status = "delivering", !.attempts = n,
                                     !.leased_by = w, !.expired = FALSE]
    OBVIOUS
  <2> HIDE DEF n, leased
  <2>3. /\ leased(e) \in Row /\ leased(e).status = "delivering" /\ leased(e).leased_by = w
        /\ leased(e).attempts = n /\ leased(e).dead_reason = queue[e].dead_reason
    BY <2>1, <2>2 DEF Row, Statuses
  <2> QED  BY <2>3 DEF n
<1>5. \A e \in S : queue[e].dead_reason = "null"
  BY <1>0 DEF QInv, DeadHasReason
<1> HIDE DEF leased
<1>6. queue' \in [Events -> Row]
  <2>1. queue' = [e \in Events |-> queue'[e]]
    BY DEF ClaimRows
  <2> QED  BY <2>1, <1>0, <1>1, <1>2, <1>4
<1>7. issued' \in [Events -> Nat] /\ resets' \in [Events -> Nat]
  <2>1. \A e \in Events : issued'[e] \in Nat
    BY <1>1, <1>3
  <2>2. issued' = [e \in Events |-> issued'[e]]
    BY DEF ClaimRows
  <2>3. resets' = resets
    BY DEF ClaimRows
  <2> QED  BY <2>1, <2>2, <2>3 DEF QInv, QTypeOK
<1>8. \A e \in Events : queue'[e].attempts <= issued'[e]
  BY <1>0, <1>1, <1>2, <1>3, <1>4 DEF QInv, AttemptsAreClaims
<1>9. UNCHANGED <<log, dropped, deliveries>>
  BY DEF ClaimRows
<1> QED  BY <1>0, <1>2, <1>4, <1>5, <1>6, <1>7, <1>8, <1>9, RewriteKeeps

\* Settling one row: the replacement row has the shape of its transition.
LEMMA SettleKeeps ==
  ASSUME QInv, NEW e \in Events, NEW a \in Nat, NEW ok \in BOOLEAN, NEW row \in Row,
         queue[e].status = "delivering", Settle(e, row, a, ok),
         row.status = "absent" => ok /\ row = Absent,
         row.status = "dead" <=> row.dead_reason # "null",
         row.status # "delivering",
         row.attempts <= queue[e].attempts
  PROVE  QInv'
<1> DEFINE rec == [event_id |-> e, attempt |-> a, ok |-> ok]
<1>0. /\ queue' = [queue EXCEPT ![e] = row]
      /\ deliveries' \subseteq Delivery
      /\ rec \in deliveries'
      /\ \A d \in deliveries : d.event_id # e => d \in deliveries'
      /\ \A d \in deliveries' : \/ d = rec
                                \/ d \in deliveries /\ ~(d.event_id = e /\ d.attempt = a)
      /\ log' = log /\ dropped' = dropped /\ issued' = issued /\ resets' = resets
  BY RecordedFacts DEF Settle, QInv
<1>1. QTypeOK'
  BY <1>0 DEF QInv, QTypeOK
<1>2. e \in log
  BY DEF QInv, RowsAreLogged
<1>3. RowsAreLogged'
  BY <1>0, <1>2 DEF QInv, QTypeOK, RowsAreLogged
<1>4. DeadHasReason'
  BY <1>0 DEF QInv, QTypeOK, DeadHasReason
<1>5. DeliveringIsOwned'
  BY <1>0 DEF QInv, QTypeOK, DeliveringIsOwned
<1>6. rec.event_id = e /\ rec.ok = ok /\ rec.attempt = a
  OBVIOUS
<1>7. DeliveredIsRecorded'
  <2> SUFFICES ASSUME NEW x \in log, queue'[x].status = "absent"
               PROVE  \E d \in deliveries' : d.event_id = x /\ d.ok
    BY <1>0 DEF DeliveredIsRecorded
  <2>1. CASE x = e
    BY <2>1, <1>0, <1>6 DEF QInv, QTypeOK
  <2>2. CASE x # e
    <3>1. x \in Events /\ queue[x].status = "absent"
      BY <2>2, <1>0 DEF QInv, QTypeOK
    <3>2. PICK d \in deliveries : d.event_id = x /\ d.ok
      BY <3>1 DEF QInv, DeliveredIsRecorded
    <3> QED  BY <3>2, <2>2, <1>0
  <2> QED  BY <2>1, <2>2
<1>8. DroppedWasTried'
  <2> SUFFICES ASSUME NEW x \in dropped PROVE \E d \in deliveries' : d.event_id = x
    BY <1>0 DEF DroppedWasTried
  <2>1. CASE x = e
    BY <2>1, <1>0, <1>6
  <2>2. CASE x # e
    BY <2>2, <1>0 DEF QInv, DroppedWasTried
  <2> QED  BY <2>1, <2>2
<1>9. AttemptsAreClaims'
  <2>1. \A x \in Events : queue'[x].attempts <= issued'[x]
    BY <1>0 DEF QInv, QTypeOK, AttemptsAreClaims, Row
  <2>2. \A d1, d2 \in deliveries' :
          d1.event_id = d2.event_id /\ d1.attempt = d2.attempt => d1 = d2
    BY <1>0, <1>6 DEF QInv, AttemptsAreClaims
  <2> QED  BY <2>1, <2>2 DEF AttemptsAreClaims
<1>10. DeadIsRecorded'
  <2> SUFFICES ASSUME NEW x \in Events, queue'[x].status = "dead"
               PROVE  \E d \in deliveries' : d.event_id = x
    BY DEF DeadIsRecorded
  <2>1. CASE x = e
    BY <2>1, <1>0, <1>6
  <2>2. CASE x # e
    BY <2>2, <1>0 DEF QInv, QTypeOK, DeadIsRecorded
  <2> QED  BY <2>1, <2>2
<1> QED  BY <1>1, <1>3, <1>4, <1>5, <1>7, <1>8, <1>9, <1>10 DEF QInv

\* Ack deletes the row and records the success.
LEMMA AckKeeps ==
  ASSUME QInv, NEW w \in Workers, NEW e \in Events, NEW a \in Nat, Ack(w, e, a)
  PROVE  QInv'
<1>1. Absent.status = "absent" /\ Absent.dead_reason = "null" /\ Absent.attempts = 0
  BY DEF Absent
<1>2. queue[e].attempts \in Nat
  BY DEF QInv, QTypeOK, Row
<1>3. queue[e].status = "delivering" /\ Settle(e, Absent, a, TRUE)
  BY DEF Ack, Leased
<1>4. Absent.attempts <= queue[e].attempts
  BY <1>1, <1>2
<1> QED  BY <1>1, <1>3, <1>4, AbsentRow, SettleKeeps

\* Nack returns the row to pending and records the failure.
LEMMA NackKeeps ==
  ASSUME QInv, NEW w \in Workers, NEW e \in Events, NEW a \in Nat, NEW due \in BOOLEAN,
         Nack(w, e, a, due)
  PROVE  QInv'
<1> DEFINE row == [queue[e] EXCEPT !.status = "pending", !.due = due,
                                   !.leased_by = NoWorker, !.expired = FALSE]
<1>1. queue[e] \in Row /\ queue[e].status = "delivering"
  BY DEF QInv, QTypeOK, Nack, Leased
<1>2. row \in Row /\ row.status = "pending" /\ row.dead_reason = queue[e].dead_reason
        /\ row.attempts = queue[e].attempts
  BY <1>1 DEF Row, Statuses
<1>3. row.dead_reason = "null"
  BY <1>1, <1>2 DEF QInv, DeadHasReason
<1>4. Settle(e, row, a, FALSE)
  BY DEF Nack
<1>5. row.attempts <= queue[e].attempts
  BY <1>1, <1>2 DEF Row
<1> HIDE DEF row
<1> QED  BY <1>1, <1>2, <1>3, <1>4, <1>5, SettleKeeps

\* Dead keeps the row with its reason and records the failure.
LEMMA DeadKeeps ==
  ASSUME QInv, NEW w \in Workers, NEW e \in Events, NEW a \in Nat,
         NEW reason \in DeadReasons, Dead(w, e, a, reason)
  PROVE  QInv'
<1> DEFINE row == [queue[e] EXCEPT !.status = "dead", !.dead_reason = reason,
                                   !.leased_by = NoWorker, !.expired = FALSE]
<1>1. queue[e] \in Row /\ queue[e].status = "delivering"
  BY DEF QInv, QTypeOK, Dead, Leased
<1>2. row \in Row /\ row.status = "dead" /\ row.dead_reason = reason
        /\ row.attempts = queue[e].attempts
  BY <1>1 DEF Row, Statuses
<1>3. row.dead_reason # "null"
  BY <1>2 DEF DeadReasons
<1>4. Settle(e, row, a, FALSE)
  BY DEF Dead
<1>5. row.attempts <= queue[e].attempts
  BY <1>1, <1>2 DEF Row
<1> HIDE DEF row
<1> QED  BY <1>1, <1>2, <1>3, <1>4, <1>5, SettleKeeps

\* Retries reset the rows they match, of any status, and leave no reason.
LEMMA RetryKeeps ==
  ASSUME QInv, NEW sel \in Selector, NEW S \in SUBSET Events,
         \A e \in S : Matches(sel, e), RetryBatch(sel, S)
  PROVE  QInv'
<1> DEFINE fresh(e) == [queue[e] EXCEPT !.status = "pending", !.attempts = 0,
                                        !.due = TRUE, !.dead_reason = "null"]
<1>0. \A e \in S : queue[e].status # "absent"
  BY DEF Matches
<1>1. \A e \in Events : queue[e] \in Row /\ issued[e] \in Nat
  BY DEF QInv, QTypeOK
<1>2. \A e \in Events : queue'[e] = IF e \in S THEN fresh(e) ELSE queue[e]
  BY DEF RetryBatch
<1>3. ASSUME NEW e \in S
      PROVE  /\ fresh(e) \in Row /\ fresh(e).status = "pending"
             /\ fresh(e).attempts = 0 /\ fresh(e).dead_reason = "null"
  BY <1>1 DEF Row, Statuses
<1> HIDE DEF fresh
<1>4. queue' \in [Events -> Row]
  <2>1. queue' = [e \in Events |-> queue'[e]]
    BY DEF RetryBatch
  <2> QED  BY <2>1, <1>1, <1>2, <1>3
<1>5. issued' = issued /\ UNCHANGED <<log, dropped, deliveries>>
  BY DEF RetryBatch
<1>6. resets' \in [Events -> Nat]
  <2>1. \A e \in Events : resets[e] \in Nat /\ resets[e] + 1 \in Nat
    BY DEF QInv, QTypeOK
  <2>2. resets' = [e \in Events |-> IF e \in S THEN resets[e] + 1 ELSE resets[e]]
    BY DEF RetryBatch
  <2> QED  BY <2>1, <2>2
<1>7. \A e \in Events : queue'[e].attempts <= issued'[e]
  BY <1>1, <1>2, <1>3, <1>5 DEF QInv, AttemptsAreClaims
<1>8. issued' \in [Events -> Nat]
  BY <1>5 DEF QInv, QTypeOK
<1> QED  BY <1>0, <1>2, <1>3, <1>4, <1>5, <1>6, <1>7, <1>8, RewriteKeeps

\* The sweep: only lease columns and the status of expired leases change.
LEMMA ReclaimKeeps ==
  ASSUME QInv, ReclaimExpired
  PROVE  QInv'
<1> DEFINE freed(e) == [queue[e] EXCEPT !.status = "pending", !.leased_by = NoWorker,
                                        !.expired = FALSE]
<1>0. ExpiredLeases \subseteq Events /\ \A e \in ExpiredLeases : queue[e].status = "delivering"
  BY DEF ExpiredLeases
<1>1. \A e \in Events : queue[e] \in Row /\ issued[e] \in Nat
  BY DEF QInv, QTypeOK
<1>2. \A e \in Events : queue'[e] = IF e \in ExpiredLeases THEN freed(e) ELSE queue[e]
  BY DEF ReclaimExpired
<1>3. ASSUME NEW e \in ExpiredLeases
      PROVE  /\ freed(e) \in Row /\ freed(e).status = "pending"
             /\ freed(e).attempts = queue[e].attempts
             /\ freed(e).dead_reason = queue[e].dead_reason
  BY <1>0, <1>1 DEF Row, Statuses
<1>4. \A e \in ExpiredLeases : queue[e].dead_reason = "null"
  BY <1>0 DEF QInv, DeadHasReason
<1> HIDE DEF freed
<1>5. queue' \in [Events -> Row]
  <2>1. queue' = [e \in Events |-> queue'[e]]
    BY DEF ReclaimExpired
  <2> QED  BY <2>1, <1>0, <1>1, <1>2, <1>3
<1>6. issued' = issued /\ resets' = resets /\ UNCHANGED <<log, dropped, deliveries>>
  BY DEF ReclaimExpired
<1>7. issued' \in [Events -> Nat] /\ resets' \in [Events -> Nat]
  BY <1>6 DEF QInv, QTypeOK
<1>8. \A e \in Events : queue'[e].attempts <= issued'[e]
  BY <1>0, <1>1, <1>2, <1>3, <1>6 DEF QInv, AttemptsAreClaims
<1> QED  BY <1>0, <1>2, <1>3, <1>4, <1>5, <1>6, <1>7, <1>8, RewriteKeeps

\* The server clock only flips `due` and `expired`.
LEMMA ClockKeeps ==
  ASSUME QInv, NEW e \in Events, BecomeDue(e) \/ LeaseExpires(e)
  PROVE  QInv'
<1>1. queue[e] \in Row
  BY DEF QInv, QTypeOK
<1>2. \A x \in Events \ {e} : queue'[x] = queue[x]
  BY DEF QInv, QTypeOK, BecomeDue, LeaseExpires
<1>0. queue' = [queue EXCEPT ![e] = queue'[e]]
  BY DEF QInv, QTypeOK, BecomeDue, LeaseExpires
<1>a. \/ queue'[e] = [queue[e] EXCEPT !.due = TRUE]
      \/ queue'[e] = [queue[e] EXCEPT !.expired = TRUE]
  BY DEF QInv, QTypeOK, BecomeDue, LeaseExpires
<1>3. /\ queue'[e] \in Row
      /\ queue'[e].status = queue[e].status /\ queue'[e].attempts = queue[e].attempts
      /\ queue'[e].leased_by = queue[e].leased_by
      /\ queue'[e].dead_reason = queue[e].dead_reason
  BY <1>1, <1>a DEF Row
<1>b. queue[e].status # "absent"
  BY DEF BecomeDue, LeaseExpires
<1>4. queue' \in [Events -> Row]
  BY <1>0, <1>3 DEF QInv, QTypeOK
<1>5. issued' = issued /\ resets' = resets /\ UNCHANGED <<log, dropped, deliveries>>
  BY DEF BecomeDue, LeaseExpires
<1>6. issued' \in [Events -> Nat] /\ resets' \in [Events -> Nat]
  BY <1>5 DEF QInv, QTypeOK
<1>7. \A x \in Events : queue'[x].attempts <= issued'[x]
  BY <1>2, <1>3, <1>5 DEF QInv, AttemptsAreClaims
<1>8. /\ queue'[e].status = "dead" <=> queue'[e].dead_reason # "null"
      /\ queue'[e].status = "delivering" => queue'[e].leased_by \in Workers
  BY <1>3 DEF QInv, DeadHasReason, DeliveringIsOwned
<1>9. {e} \in SUBSET Events /\ \A x \in {e} : x = e
  OBVIOUS
<1> QED  BY <1>2, <1>3, <1>4, <1>5, <1>6, <1>7, <1>8, <1>9, <1>b, RewriteKeeps

\* The trigger logs an event together with its first row.
LEMMA EnqueueKeeps ==
  ASSUME QInv, NEW e \in Events, Enqueue(e)
  PROVE  QInv'
<1> DEFINE row == [Absent EXCEPT !.status = "pending", !.due = TRUE]
<1>1. /\ row \in Row /\ row.status = "pending" /\ row.attempts = 0
      /\ row.dead_reason = "null"
  BY DEF Absent, Row, Statuses
<1> HIDE DEF row
<1>2. /\ queue' = [queue EXCEPT ![e] = row] /\ log' = log \cup {e}
      /\ UNCHANGED <<dropped, deliveries, issued, resets>>
  BY DEF Enqueue, row
<1>3. QTypeOK'
  BY <1>1, <1>2 DEF QInv, QTypeOK
<1>4. RowsAreLogged' /\ DeadHasReason' /\ DeliveringIsOwned'
  BY <1>1, <1>2 DEF QInv, QTypeOK, RowsAreLogged, DeadHasReason, DeliveringIsOwned
<1>5. DeliveredIsRecorded' /\ DroppedWasTried'
  BY <1>1, <1>2 DEF QInv, QTypeOK, DeliveredIsRecorded, DroppedWasTried
<1>6. AttemptsAreClaims' /\ DeadIsRecorded'
  BY <1>1, <1>2 DEF QInv, QTypeOK, AttemptsAreClaims, DeadIsRecorded
<1> QED  BY <1>3, <1>4, <1>5, <1>6 DEF QInv

\* Dropping a partition forgets rows that are dead or gone, each of which has
\* an attempt on record: dead ones because Dead records one.
LEMMA DropKeeps ==
  ASSUME QInv, NEW P \in SUBSET Events, DropPartition(P)
  PROVE  QInv'
<1>1. Absent \in Row /\ Absent.status = "absent" /\ Absent.attempts = 0
        /\ Absent.dead_reason = "null"
  BY AbsentRow DEF Absent
<1>2. /\ queue' = [e \in Events |-> IF e \in P THEN Absent ELSE queue[e]]
      /\ log' = log \ P /\ dropped' = dropped \cup (P \cap log)
      /\ UNCHANGED <<deliveries, issued, resets>>
      /\ \A e \in P : queue[e].status \in {"absent", "dead"}
  BY DEF DropPartition
<1>3. QTypeOK'
  BY <1>1, <1>2 DEF QInv, QTypeOK
<1>4. RowsAreLogged' /\ DeadHasReason' /\ DeliveringIsOwned'
  BY <1>1, <1>2 DEF QInv, QTypeOK, RowsAreLogged, DeadHasReason, DeliveringIsOwned
<1>5. DeliveredIsRecorded'
  BY <1>1, <1>2 DEF QInv, QTypeOK, DeliveredIsRecorded
<1>6. DroppedWasTried'
  BY <1>2 DEF QInv, QTypeOK, DeliveredIsRecorded, DroppedWasTried, DeadIsRecorded
<1>7. AttemptsAreClaims' /\ DeadIsRecorded'
  BY <1>1, <1>2 DEF QInv, QTypeOK, AttemptsAreClaims, DeadIsRecorded
<1> QED  BY <1>3, <1>4, <1>5, <1>6, <1>7 DEF QInv

\* The invariant is about the tables alone.
LEMMA StutterKeeps ==
  ASSUME QInv, UNCHANGED qvars
  PROVE  QInv'
  BY DEF QInv, qvars, QTypeOK, RowsAreLogged, DeadHasReason, DeliveringIsOwned,
         DeliveredIsRecorded, DroppedWasTried, AttemptsAreClaims, DeadIsRecorded

\* The tables start empty.
LEMMA QInitHolds == QInit => QInv
<1> SUFFICES ASSUME QInit PROVE QInv
  OBVIOUS
<1>1. Absent \in Row /\ Absent.status = "absent" /\ Absent.attempts = 0
        /\ Absent.dead_reason = "null"
  BY AbsentRow DEF Absent
<1> QED
  BY <1>1 DEF QInit, QInv, QTypeOK, RowsAreLogged, DeadHasReason, DeliveringIsOwned,
     DeliveredIsRecorded, DroppedWasTried, AttemptsAreClaims, DeadIsRecorded

\* Every adapter operation, alone or as part of a worker's step.
LEMMA QStepKeeps == QInv /\ QStep => QInv'
<1> SUFFICES ASSUME QInv, QStep PROVE QInv'
  OBVIOUS
<1>1. ASSUME NEW e \in Events, Enqueue(e) \/ BecomeDue(e) \/ LeaseExpires(e) PROVE QInv'
  BY <1>1, EnqueueKeeps, ClockKeeps
<1>2. ASSUME NEW w \in Workers, NEW S \in SUBSET Claimable, ClaimRows(w, S) PROVE QInv'
  BY <1>2, ClaimKeeps
<1>3. ASSUME NEW w \in Workers, NEW e \in Events, NEW a \in Nat,
             \/ Ack(w, e, a)
             \/ \E due \in BOOLEAN : Nack(w, e, a, due)
             \/ \E reason \in DeadReasons : Dead(w, e, a, reason)
      PROVE  QInv'
  BY <1>3, AckKeeps, NackKeeps, DeadKeeps
<1>4. CASE ReclaimExpired
  BY <1>4, ReclaimKeeps
<1>5. ASSUME NEW sel \in Selector, NEW S \in SUBSET Events,
             RetryBatch(sel, S) /\ \A e \in S : Matches(sel, e)
      PROVE  QInv'
  BY <1>5, RetryKeeps
<1>6. ASSUME NEW P \in SUBSET Events, DropPartition(P) PROVE QInv'
  BY <1>6, DropKeeps
<1> QED  BY <1>1, <1>2, <1>3, <1>4, <1>5, <1>6 DEF QStep

\* The adapter under arbitrary callers takes only adapter operations.
LEMMA QNextIsQStep == ASSUME QInv, QNext PROVE QStep
<1>1. \A e \in Events : issued[e] \in Nat
  BY DEF QInv, QTypeOK
<1>2. \A e \in Events : \A a \in 1..issued[e] : a \in Nat
  BY <1>1
<1>3. Partitions \subseteq SUBSET Events
  BY QueueAssumption
<1>4. ClaimSets \subseteq SUBSET Claimable
  BY DEF ClaimSets
<1>5. \A sel \in Selector : \A S \in RetrySets(sel) :
         S \in SUBSET Events /\ \A e \in S : Matches(sel, e)
  BY DEF RetrySets
<1> QED  BY <1>2, <1>3, <1>4, <1>5 DEF QNext, QStep

\* The queue tables keep their invariants whoever calls the adapter.
THEOREM QueueInvariant == QSpec => []QInv
<1>1. QInv /\ [QNext]_qvars => QInv'
  BY QStepKeeps, QNextIsQStep, StutterKeeps
<1> QED  BY QInitHolds, <1>1, PTL DEF QSpec

\* Type correctness of the tables.
THEOREM QueueTypes == QSpec => []QTypeOK
<1>1. QInv => QTypeOK
  BY DEF QInv
<1> QED  BY QueueInvariant, <1>1, PTL

\* "Delivered is the queue row's absence" is always backed by a successful
\* attempt on record, for any interleaving of claims, settlements, sweeps,
\* operator retries that reuse attempt numbers, and retention.
THEOREM DeliveredHasRecord == QSpec => []DeliveredIsRecorded
<1>1. QInv => DeliveredIsRecorded
  BY DEF QInv
<1> QED  BY QueueInvariant, <1>1, PTL

\* Retention never destroys an event that was never tried.
THEOREM NothingDroppedUntried == QSpec => []DroppedWasTried
<1>1. QInv => DroppedWasTried
  BY DEF QInv
<1> QED  BY QueueInvariant, <1>1, PTL

\* A dead letter always carries its reason and only a dead letter does.
THEOREM ReasonsMatchStatus == QSpec => []DeadHasReason
<1>1. QInv => DeadHasReason
  BY DEF QInv
<1> QED  BY QueueInvariant, <1>1, PTL

\* No adapter operation brings an acknowledged or reaped event back into the
\* queue, and none but retention takes one out of the log.
THEOREM DeliveredStaysDelivered == QSpec => DeliveredIsFinal
<1> DEFINE A == /\ \A e \in log \cup dropped :
                      queue[e].status = "absent" => queue'[e].status = "absent"
                /\ log \cup dropped \subseteq log' \cup dropped'
<1>0. Absent.status = "absent"
  BY DEF Absent
<1>1. ASSUME QInv, QNext PROVE A
  <2>1. QStep
    BY <1>1, QNextIsQStep
  <2>2. queue \in [Events -> Row] /\ log \subseteq Events /\ dropped \subseteq Events
    BY <1>1 DEF QInv, QTypeOK
  <2>3. ASSUME NEW e \in Events, Enqueue(e) \/ BecomeDue(e) \/ LeaseExpires(e) PROVE A
    BY <2>2, <2>3 DEF Enqueue, BecomeDue, LeaseExpires
  <2>4. ASSUME NEW w \in Workers, NEW S \in SUBSET Claimable, ClaimRows(w, S) PROVE A
    BY <2>2, <2>4 DEF ClaimRows, Claimable
  <2>5. ASSUME NEW w \in Workers, NEW e \in Events, NEW a \in Nat,
               \/ Ack(w, e, a)
               \/ \E due \in BOOLEAN : Nack(w, e, a, due)
               \/ \E reason \in DeadReasons : Dead(w, e, a, reason)
        PROVE  A
    <3>1. queue[e].status = "delivering" /\ log' = log /\ dropped' = dropped
      BY <2>5 DEF Ack, Nack, Dead, Leased, Settle
    <3>2. \A x \in Events \ {e} : queue'[x] = queue[x]
      BY <2>2, <2>5 DEF Ack, Nack, Dead, Settle
    <3> QED  BY <2>2, <3>1, <3>2
  <2>6. CASE ReclaimExpired
    BY <2>2, <2>6 DEF ReclaimExpired, ExpiredLeases
  <2>7. ASSUME NEW sel \in Selector, NEW S \in SUBSET Events,
               RetryBatch(sel, S) /\ \A e \in S : Matches(sel, e)
        PROVE  A
    BY <2>2, <2>7 DEF RetryBatch, Matches
  <2>8. ASSUME NEW P \in SUBSET Events, DropPartition(P) PROVE A
    BY <2>2, <2>8, <1>0 DEF DropPartition
  <2> HIDE DEF A
  <2> QED  BY <2>1, <2>3, <2>4, <2>5, <2>6, <2>7, <2>8 DEF QStep
<1>2. QInv /\ [QNext]_qvars => [A]_qvars
  BY <1>1
<1> QED  BY QueueInvariant, <1>2, PTL DEF QSpec, DeliveredIsFinal

\* Only a claim counts up a row's attempts, however often an operator sends
\* the event round again, and the delivery history holds one record of an
\* attempt (claim statement and the primary key of deliveries).
THEOREM AttemptsCountClaims == QSpec => []AttemptsAreClaims
<1>1. QInv => AttemptsAreClaims
  BY DEF QInv
<1> QED  BY QueueInvariant, <1>1, PTL

-------------------------------------------------------------------------------
(* The workers: the inductive invariant.                                   *)

\* A request judged successful got an answer that says so.
SuccessIsAnswered ==
    \A w \in Workers : \A f \in proc[w].flights :
        f.verdict = "success" => Succeeded(f.c.id)

IInv ==
    /\ QInv
    /\ TypeOK
    /\ SuccessIsAnswered
    /\ RemovedOnlyAfterSuccess

\* Memory a step of process w may leave behind: well formed, and with no new
\* request that claims a success.
Legal(w, p) ==
    /\ p \in Process
    /\ \A f \in p.flights : f \in proc[w].flights \/ f.verdict # "success"

\* The variables outside the processes and the tables.
RestTyped ==
    /\ exit' \in [Workers -> {"none", "clean", "error", "crash"}]
    /\ faults' \in Nat
    /\ stops' \in Nat

\* A table step that makes no retained event's row disappear.
Keeping ==
    /\ QStep \/ UNCHANGED qvars
    /\ \A e \in log' : queue'[e].status = "absent" => e \in log /\ queue[e].status = "absent"

-------------------------------------------------------------------------------
(* Processes.                                                              *)

\* The types of the fields of a process.
LEMMA ProcessFields ==
  ASSUME NEW p \in Process
  PROVE  /\ p.batch \subseteq Claim /\ p.pending \subseteq Claim /\ p.cur \subseteq Claim
         /\ p.tracked \subseteq Claim /\ p.held \subseteq Events
         /\ p.flights \subseteq Flight
         /\ p.at \in Nat /\ p.used \in Nat /\ p.lused \in [Listeners -> Nat]
         /\ p.drain \in [Releasers -> Drain]
         /\ p.cancelled \in BOOLEAN /\ p.stopping \in BOOLEAN /\ p.progress \in BOOLEAN
         /\ p.failed \in BOOLEAN /\ p.relErr \in BOOLEAN /\ p.loop \in LoopStates
  BY DEF Process

\* A process that starts or ends holds no request.
LEMMA FreshLegal ==
  ASSUME NEW w, NEW s \in LoopStates
  PROVE  Legal(w, Fresh(s))
<1>1. [l \in Listeners |-> 0] \in [Listeners -> Nat]
  OBVIOUS
<1>2. [d \in Releasers |-> NotDraining] \in [Releasers -> Drain]
  BY DEF NotDraining, Drain
<1>3. Fresh(s) \in Process
  BY <1>1, <1>2 DEF Fresh, Process
<1>4. Fresh(s).flights = {}
  BY DEF Fresh
<1> QED  BY <1>3, <1>4 DEF Legal

\* A semaphore never goes below zero, however often it is released.
LEMMA ReleasedType ==
  ASSUME NEW n \in Nat PROVE Released(n) \in Nat
  BY DEF Released

\* Claims name events of the log.
LEMMA ClaimIds ==
  ASSUME NEW C \in SUBSET Claim PROVE Ids(C) \subseteq Events
  BY DEF Ids, Claim

\* tryDispatch starts requests without a verdict.
LEMMA StartedFlights ==
  ASSUME NEW C \in SUBSET Claim
  PROVE  Started(C) \subseteq Flight /\ \A f \in Started(C) : f.verdict = "none"
  BY DEF Started, Flight, Verdicts

\* Taking a slot of one listener, or giving it back.
LEMMA SlotType ==
  ASSUME NEW u \in [Listeners -> Nat], NEW l
  PROVE  /\ [u EXCEPT ![l] = @ + 1] \in [Listeners -> Nat]
         /\ [u EXCEPT ![l] = Released(@)] \in [Listeners -> Nat]
<1>1. CASE l \in Listeners
  <2>1. u[l] + 1 \in Nat /\ Released(u[l]) \in Nat
    BY <1>1, ReleasedType
  <2> QED  BY <2>1
<1>2. CASE l \notin Listeners
  BY <1>2
<1> QED  BY <1>1, <1>2

\* What Claim returns is well formed.
LEMMA ClaimedType ==
  ASSUME QTypeOK, NEW S \in SUBSET Events
  PROVE  ClaimedEvents(S) \subseteq Claim
<1>1. ASSUME NEW e \in S
      PROVE  [id |-> e, attempt |-> queue[e].attempts + 1,
              token |-> issued[e] + 1, epoch |-> resets[e]] \in Claim
  <2>1. queue[e] \in Row /\ issued[e] \in Nat /\ resets[e] \in Nat
    BY DEF QTypeOK
  <2>2. queue[e].attempts + 1 \in Nat /\ issued[e] + 1 \in Nat
    BY <2>1 DEF Row
  <2> QED  BY <2>1, <2>2 DEF Claim
<1> QED  BY <1>1 DEF ClaimedEvents

\* A process step as the proofs see it.
LegalStep(w) == \E p : Legal(w, p) /\ Becomes(w, p)

\* Steps of the loop, and a signal, that only move the control point.
LEMMA PollLegal ==
  ASSUME NEW w \in Workers, proc[w] \in Process,
         \/ Poll(w) \/ Sweep(w) \/ BeginClaim(w) \/ SkipClaim(w) \/ DatabaseError(w)
         \/ ClaimLost(w) \/ Supervise(w) \/ Shutdown(w)
  PROVE  LegalStep(w)
<1>1. ASSUME NEW l \in LoopStates, NEW b \in BOOLEAN
      PROVE  /\ Legal(w, [proc[w] EXCEPT !.loop = l])
             /\ Legal(w, [proc[w] EXCEPT !.loop = l, !.failed = b])
             /\ Legal(w, [proc[w] EXCEPT !.cancelled = TRUE])
  <2>1. /\ [proc[w] EXCEPT !.loop = l] \in Process
        /\ [proc[w] EXCEPT !.loop = l, !.failed = b] \in Process
        /\ [proc[w] EXCEPT !.cancelled = TRUE] \in Process
    BY DEF Process
  <2>2. /\ [proc[w] EXCEPT !.loop = l].flights = proc[w].flights
        /\ [proc[w] EXCEPT !.loop = l, !.failed = b].flights = proc[w].flights
        /\ [proc[w] EXCEPT !.cancelled = TRUE].flights = proc[w].flights
    BY DEF Process
  <2> QED  BY <2>1, <2>2 DEF Legal
<1>2. {"take", "swept", "retain", "claim", "visit", "ended", "idle"} \subseteq LoopStates
  BY DEF LoopStates
<1>3. proc[w].cancelled \in BOOLEAN
  BY ProcessFields
<1>4. CASE Poll(w)         BY <1>1, <1>2, <1>4 DEF Poll, LegalStep
<1>5. CASE Sweep(w)        BY <1>1, <1>2, <1>5 DEF Sweep, LegalStep
<1>6. CASE BeginClaim(w)   BY <1>1, <1>2, <1>3, <1>6 DEF BeginClaim, LegalStep
<1>7. CASE SkipClaim(w)    BY <1>1, <1>2, <1>7 DEF SkipClaim, LegalStep
<1>8. CASE DatabaseError(w)  BY <1>1, <1>2, <1>8 DEF DatabaseError, LegalStep
<1>9. CASE ClaimLost(w)    BY <1>1, <1>2, <1>9 DEF ClaimLost, LegalStep
<1>10. CASE Supervise(w)   BY <1>1, <1>2, <1>10 DEF Supervise, LegalStep
<1>11. CASE Shutdown(w)    BY <1>1, <1>2, <1>11 DEF Shutdown, LegalStep
<1> QED  BY <1>4, <1>5, <1>6, <1>7, <1>8, <1>9, <1>10, <1>11

\* The loop's steps that move claims between batch, pending and holds.
LEMMA BatchLegal ==
  ASSUME QTypeOK, NEW w \in Workers, proc[w] \in Process,
         TakePending(w) \/ ClaimBatch(w) \/ Store(w) \/ RetainCheck(w) \/ RetainReleased(w)
  PROVE  LegalStep(w)
<1> DEFINE P == proc[w]
<1>1. /\ P \in Process /\ P.batch \subseteq Claim /\ P.pending \subseteq Claim
      /\ P.held \subseteq Events /\ P.drain["retain"] \in Drain
      /\ P.cancelled \in BOOLEAN /\ P.relErr \in BOOLEAN /\ P.drain["retain"].err \in BOOLEAN
  BY ProcessFields DEF Releasers, Drain
<1>2. ASSUME NEW next, next \in AfterCycle(w) PROVE next \in LoopStates
  BY <1>2, <1>1 DEF AfterCycle, LoopStates
<1>3. ASSUME NEW X \in HoldsExpired(w), NEW l \in LoopStates, NEW b \in BOOLEAN
      PROVE  Legal(w, [proc[w] EXCEPT !.batch = proc[w].pending \ X, !.pending = {},
                                      !.held = @ \ Ids(X), !.at = 1, !.progress = FALSE,
                                      !.failed = b, !.loop = l])
  <2> DEFINE p == [P EXCEPT !.batch = P.pending \ X, !.pending = {},
                            !.held = @ \ Ids(X), !.at = 1, !.progress = FALSE,
                            !.failed = b, !.loop = l]
  <2>1. P.pending \ X \subseteq Claim /\ P.held \ Ids(X) \subseteq Events
    BY <1>1
  <2>2. p \in Process /\ p.flights = P.flights
    BY <1>1, <2>1 DEF Process
  <2> QED  BY <2>2 DEF Legal
<1>4. CASE TakePending(w)
  <2>1. PICK X \in HoldsExpired(w) :
          Becomes(w, [proc[w] EXCEPT !.batch = proc[w].pending \ X, !.pending = {},
                                     !.held = @ \ Ids(X), !.at = 1, !.progress = FALSE,
                                     !.failed = X = {} /\ proc[w].cancelled,
                                     !.loop = CASE X # {} -> "visit"
                                                [] X = {} /\ proc[w].cancelled -> "retain"
                                                [] OTHER -> "reclaim"])
    BY <1>4 DEF TakePending
  <2> DEFINE l == CASE X # {} -> "visit"
                    [] X = {} /\ proc[w].cancelled -> "retain"
                    [] OTHER -> "reclaim"
             b == X = {} /\ proc[w].cancelled
  <2>2. l \in LoopStates /\ b \in BOOLEAN
    BY <1>1 DEF LoopStates
  <2>3. Becomes(w, [proc[w] EXCEPT !.batch = proc[w].pending \ X, !.pending = {},
                                   !.held = @ \ Ids(X), !.at = 1, !.progress = FALSE,
                                   !.failed = b, !.loop = l])
    BY <2>1
  <2> HIDE DEF l, b
  <2> QED  BY <2>2, <2>3, <1>3 DEF LegalStep
<1>5. CASE ClaimBatch(w)
  <2>1. PICK S \in ClaimSets :
          Becomes(w, [proc[w] EXCEPT !.batch = @ \cup ClaimedEvents(S), !.loop = "visit"])
    BY <1>5 DEF ClaimBatch
  <2>2. S \subseteq Events
    BY DEF ClaimSets, Claimable
  <2>3. P.batch \cup ClaimedEvents(S) \subseteq Claim /\ "visit" \in LoopStates
    BY <1>1, <2>2, ClaimedType DEF LoopStates
  <2> DEFINE p == [P EXCEPT !.batch = @ \cup ClaimedEvents(S), !.loop = "visit"]
  <2>4. p \in Process /\ p.flights = P.flights
    BY <1>1, <2>3 DEF Process
  <2> QED  BY <2>1, <2>4 DEF Legal, LegalStep
<1>6. CASE Store(w)
  <2>1. PICK next \in AfterCycle(w) :
          Becomes(w, [proc[w] EXCEPT !.pending = @ \cup proc[w].batch, !.batch = {},
                                     !.held = @ \cup Ids(proc[w].batch),
                                     !.loop = next, !.failed = FALSE])
    BY <1>6 DEF Store
  <2>2. /\ P.pending \cup P.batch \subseteq Claim /\ P.held \cup Ids(P.batch) \subseteq Events
        /\ next \in LoopStates
    BY <1>1, <1>2, ClaimIds
  <2> DEFINE p == [P EXCEPT !.pending = @ \cup P.batch, !.batch = {},
                            !.held = @ \cup Ids(P.batch), !.loop = next, !.failed = FALSE]
  <2>3. p \in Process /\ p.flights = P.flights
    BY <1>1, <2>2 DEF Process
  <2> QED  BY <2>1, <2>3 DEF Legal, LegalStep
<1>7. CASE RetainCheck(w)
  <2> DEFINE l == IF P.stopping THEN "release" ELSE "store"
             B == IF P.stopping THEN {} ELSE P.batch
             D == IF P.stopping THEN [st |-> "release", rel |-> P.batch, err |-> FALSE]
                  ELSE P.drain["retain"]
             p == [P EXCEPT !.loop = l, !.batch = B, !.drain["retain"] = D]
  <2>1. l \in LoopStates /\ B \subseteq Claim /\ D \in Drain
    BY <1>1 DEF LoopStates, Drain
  <2>2. Becomes(w, p)
    BY <1>7 DEF RetainCheck
  <2> HIDE DEF l, B, D
  <2>3. p \in Process /\ p.flights = P.flights
    BY <1>1, <2>1 DEF Process
  <2> QED  BY <2>2, <2>3 DEF Legal, LegalStep
<1>8. CASE RetainReleased(w)
  <2>1. PICK next \in AfterCycle(w) :
          Becomes(w, [proc[w] EXCEPT !.relErr = @ \/ proc[w].drain["retain"].err,
                                     !.drain["retain"] = NotDraining,
                                     !.loop = next, !.failed = FALSE])
    BY <1>8 DEF RetainReleased
  <2> DEFINE r == P.relErr \/ P.drain["retain"].err
             p == [P EXCEPT !.relErr = r, !.drain["retain"] = NotDraining,
                            !.loop = next, !.failed = FALSE]
  <2>2. r \in BOOLEAN /\ NotDraining \in Drain /\ next \in LoopStates
    BY <1>1, <1>2 DEF NotDraining, Drain
  <2>3. Becomes(w, p)
    BY <2>1
  <2> HIDE DEF r
  <2>4. p \in Process /\ p.flights = P.flights
    BY <1>1, <2>2 DEF Process
  <2> QED  BY <2>3, <2>4 DEF Legal, LegalStep
<1> QED  BY <1>4, <1>5, <1>6, <1>7, <1>8

\* A round over the listeners.
LEMMA DispatchLegal ==
  ASSUME NEW w \in Workers, proc[w] \in Process,
         \/ VisitNone(w) \/ VisitUnknown(w) \/ VisitOversize(w) \/ VisitBlocked(w)
         \/ Acquire(w) \/ Track(w) \/ TrackRefused(w) \/ RoundEnd(w)
  PROVE  LegalStep(w)
<1> DEFINE P == proc[w]
<1>1. /\ P \in Process /\ P.batch \subseteq Claim /\ P.cur \subseteq Claim
      /\ P.tracked \subseteq Claim /\ P.held \subseteq Events /\ P.flights \subseteq Flight
      /\ P.used \in Nat /\ P.lused \in [Listeners -> Nat]
      /\ P.at \in Nat /\ P.at + 1 \in Nat /\ P.used + 1 \in Nat /\ Released(P.used) \in Nat
  BY ProcessFields, ReleasedType
<1>2. CASE VisitNone(w) \/ VisitBlocked(w)
  <2> DEFINE p == [P EXCEPT !.at = @ + 1]
  <2>1. p \in Process /\ p.flights = P.flights
    BY <1>1 DEF Process
  <2> QED  BY <1>2, <2>1 DEF VisitNone, VisitBlocked, Legal, LegalStep
<1>3. CASE VisitUnknown(w) \/ VisitOversize(w)
  <2>1. PICK c \in Heads(w) :
          Becomes(w, [proc[w] EXCEPT !.batch = @ \ {c}, !.held = @ \ {c.id},
                                     !.progress = TRUE, !.at = @ + 1])
    BY <1>3 DEF VisitUnknown, VisitOversize, Consume
  <2> DEFINE p == [P EXCEPT !.batch = @ \ {c}, !.held = @ \ {c.id},
                            !.progress = TRUE, !.at = @ + 1]
  <2>2. p \in Process /\ p.flights = P.flights
    BY <1>1 DEF Process
  <2> QED  BY <2>1, <2>2 DEF Legal, LegalStep
<1>4. CASE Acquire(w)
  <2> DEFINE U == [P.lused EXCEPT ![Order[P.at]] = @ + 1]
  <2>1. U \in [Listeners -> Nat]
    BY <1>1, SlotType
  <2>2. PICK c \in Heads(w) :
          Becomes(w, [proc[w] EXCEPT !.cur = {c}, !.loop = "track", !.used = @ + 1,
                                     !.lused[Order[proc[w].at]] = @ + 1])
    BY <1>4 DEF Acquire
  <2> DEFINE p == [P EXCEPT !.cur = {c}, !.loop = "track", !.used = @ + 1, !.lused = U]
  <2>3. Becomes(w, p)
    BY <2>2
  <2>4. {c} \subseteq Claim /\ "track" \in LoopStates
    BY <1>1 DEF Heads, LoopStates
  <2> HIDE DEF U
  <2>5. p \in Process /\ p.flights = P.flights
    BY <1>1, <2>1, <2>4 DEF Process
  <2> QED  BY <2>3, <2>5 DEF Legal, LegalStep
<1>5. CASE Track(w)
  <2> DEFINE F == P.flights \cup Started(P.cur)
             p == [P EXCEPT !.batch = @ \ P.cur, !.cur = {}, !.held = @ \ Ids(P.cur),
                            !.flights = F, !.tracked = @ \cup P.cur,
                            !.progress = TRUE, !.at = @ + 1, !.loop = "visit"]
  <2>1. Becomes(w, p)
    BY <1>5 DEF Track
  <2>2. F \subseteq Flight /\ \A f \in F : f \in P.flights \/ f.verdict # "success"
    BY <1>1, StartedFlights
  <2>3. P.tracked \cup P.cur \subseteq Claim /\ "visit" \in LoopStates
    BY <1>1 DEF LoopStates
  <2> HIDE DEF F
  <2>4. p \in Process /\ p.flights = F
    BY <1>1, <2>2, <2>3 DEF Process
  <2> QED  BY <2>1, <2>2, <2>4 DEF Legal, LegalStep
<1>6. CASE TrackRefused(w)
  <2> DEFINE U == [P.lused EXCEPT ![Order[P.at]] = Released(@)]
             p == [P EXCEPT !.cur = {}, !.used = Released(@), !.lused = U,
                            !.at = @ + 1, !.loop = "visit"]
  <2>1. U \in [Listeners -> Nat] /\ "visit" \in LoopStates
    BY <1>1, SlotType DEF LoopStates
  <2>2. Becomes(w, p)
    BY <1>6 DEF TrackRefused
  <2> HIDE DEF U
  <2>3. p \in Process /\ p.flights = P.flights
    BY <1>1, <2>1 DEF Process
  <2> QED  BY <2>2, <2>3 DEF Legal, LegalStep
<1>7. CASE RoundEnd(w)
  <2> DEFINE l == CASE ~P.progress -> "retain"
                    [] P.progress /\ P.batch = {} -> "idle"
                    [] OTHER -> "visit"
             p == [P EXCEPT !.at = 1, !.progress = FALSE, !.loop = l]
  <2>1. l \in LoopStates
    BY DEF LoopStates
  <2>2. Becomes(w, p)
    BY <1>7 DEF RoundEnd
  <2> HIDE DEF l
  <2>3. p \in Process /\ p.flights = P.flights
    BY <1>1, <2>1 DEF Process
  <2> QED  BY <2>2, <2>3 DEF Legal, LegalStep
<1> QED  BY <1>2, <1>3, <1>4, <1>5, <1>6, <1>7

\* Drains and releases.
LEMMA DrainLegal ==
  ASSUME NEW w \in Workers, proc[w] \in Process, NEW d \in Releasers, DrainStep(w, d)
  PROVE  LegalStep(w)
<1> DEFINE P == proc[w]
<1>1. /\ P \in Process /\ P.pending \subseteq Claim /\ P.tracked \subseteq Claim
      /\ P.drain \in [Releasers -> Drain] /\ P.drain[d] \in Drain
      /\ P.relErr \in BOOLEAN /\ P.loop \in LoopStates
      /\ P.drain[d].rel \subseteq Claim /\ P.drain[d].err \in BOOLEAN
      /\ {"drain", "ended"} \subseteq LoopStates
  BY ProcessFields DEF Drain, LoopStates
<1>2. ASSUME NEW D \in Drain PROVE [P.drain EXCEPT ![d] = D] \in [Releasers -> Drain]
  BY <1>1
<1>3. CASE BeginDrain(w, d)
  <2> DEFINE l == IF d = "loop" THEN "drain" ELSE P.loop
             D == [P.drain[d] EXCEPT !.st = "wait"]
             A == [P.drain EXCEPT ![d] = D]
             p == [P EXCEPT !.stopping = TRUE, !.drain = A, !.loop = l]
  <2>1. D \in Drain /\ l \in LoopStates
    BY <1>1 DEF Drain
  <2>2. A \in [Releasers -> Drain]
    BY <2>1, <1>2
  <2>3. Becomes(w, p)
    BY <1>3 DEF BeginDrain
  <2> HIDE DEF l, D, A
  <2>4. p \in Process /\ p.flights = P.flights
    BY <1>1, <2>1, <2>2 DEF Process
  <2> QED  BY <2>3, <2>4 DEF Legal, LegalStep
<1>4. CASE DrainWaited(w, d)
  <2> DEFINE D == [st |-> "release", rel |-> P.tracked \cup P.pending, err |-> P.tracked # {}]
             A == [P.drain EXCEPT ![d] = D]
             p == [P EXCEPT !.drain = A, !.pending = {}, !.held = {}]
  <2>1. D \in Drain
    BY <1>1 DEF Drain
  <2>2. A \in [Releasers -> Drain]
    BY <2>1, <1>2
  <2>3. Becomes(w, p)
    BY <1>4 DEF DrainWaited
  <2> HIDE DEF D, A
  <2>4. p \in Process /\ p.flights = P.flights
    BY <1>1, <2>2 DEF Process
  <2> QED  BY <2>3, <2>4 DEF Legal, LegalStep
<1>5. CASE ReleaseOne(w, d)
  <2>1. PICK c \in P.drain[d].rel :
          Becomes(w, [P EXCEPT !.drain[d].rel = {x \in @ : x.id # c.id},
                               !.drain[d].err = @ \/ faults' # faults])
    BY <1>5 DEF ReleaseOne
  <2> DEFINE R == {x \in P.drain[d].rel : x.id # c.id}
             r == P.drain[d].err \/ faults' # faults
             D == [P.drain[d] EXCEPT !.rel = R, !.err = r]
             A == [P.drain EXCEPT ![d] = D]
             p == [P EXCEPT !.drain = A]
  <2>2. R \subseteq Claim /\ r \in BOOLEAN
    BY <1>1
  <2>3. Becomes(w, p)
    BY <2>1, <1>1
  <2> HIDE DEF R, r
  <2>4. D \in Drain
    BY <1>1, <2>2 DEF Drain
  <2> HIDE DEF D
  <2>5. A \in [Releasers -> Drain]
    BY <2>4, <1>2
  <2> HIDE DEF A
  <2>6. p \in Process /\ p.flights = P.flights
    BY <1>1, <2>5 DEF Process
  <2> QED  BY <2>3, <2>6 DEF Legal, LegalStep
<1>6. CASE DrainEnd(w, d)
  <2> DEFINE r == P.drain[d].err \/ P.relErr
             l == IF d = "loop" THEN "ended" ELSE P.loop
             D == [P.drain[d] EXCEPT !.st = "done", !.err = r]
             A == [P.drain EXCEPT ![d] = D]
             p == [P EXCEPT !.drain = A, !.relErr = r, !.loop = l]
  <2>1. r \in BOOLEAN /\ l \in LoopStates
    BY <1>1
  <2>2. Becomes(w, p)
    BY <1>6, <1>1, ZenonT(60) DEF DrainEnd
  <2> HIDE DEF r, l
  <2>3. D \in Drain
    BY <1>1, <2>1 DEF Drain
  <2> HIDE DEF D
  <2>4. A \in [Releasers -> Drain]
    BY <2>3, <1>2
  <2> HIDE DEF A
  <2>5. p \in Process /\ p.flights = P.flights
    BY <1>1, <2>1, <2>4 DEF Process
  <2> QED  BY <2>2, <2>5 DEF Legal, LegalStep
<1> QED  BY <1>3, <1>4, <1>5, <1>6 DEF DrainStep

\* Starting, signalling and ending a process.
LEMMA ProcessLegal ==
  ASSUME NEW w \in Workers, proc[w] \in Process, ProcessStep(w)
  PROVE  LegalStep(w)
<1>1. Legal(w, Fresh("idle")) /\ Legal(w, Fresh("down"))
  BY FreshLegal DEF LoopStates
<1>2. CASE Shutdown(w)
  BY <1>2, PollLegal
<1> QED  BY <1>1, <1>2 DEF ProcessStep, Start, Exit, ServerShutdownFails, Crash, Ends, LegalStep

-------------------------------------------------------------------------------
(* What a step of the processes means for the invariant.                   *)

\* Destinations' answers are never forgotten.
Remembering == \A e \in Events : Succeeded(e) => Succeeded(e)'

\* A legal step of one process keeps the processes well formed and every
\* successful verdict backed by an answer.
LEMMA LegalKeeps ==
  ASSUME proc \in [Workers -> Process], SuccessIsAnswered, NEW w \in Workers,
         LegalStep(w), Remembering
  PROVE  proc' \in [Workers -> Process] /\ SuccessIsAnswered'
<1>1. PICK p : Legal(w, p) /\ proc' = [proc EXCEPT ![w] = p]
  BY DEF LegalStep, Becomes
<1>2. proc' \in [Workers -> Process]
  BY <1>1 DEF Legal
<1>3. ASSUME NEW v \in Workers, NEW f \in proc'[v].flights, f.verdict = "success"
      PROVE  Succeeded(f.c.id)'
  <2>1. f \in proc[v].flights
    BY <1>1, <1>3 DEF Legal
  <2>2. f.c.id \in Events
    <3>1. proc[v] \in Process
      OBVIOUS
    <3>2. f \in Flight
      BY <2>1, <3>1, ProcessFields
    <3> QED  BY <3>2 DEF Flight, Claim
  <2>3. Succeeded(f.c.id)
    BY <1>3, <2>1 DEF SuccessIsAnswered
  <2> QED  BY <2>2, <2>3 DEF Remembering
<1> QED  BY <1>2, <1>3 DEF SuccessIsAnswered

\* So does the progress of one request, if a new success is backed.
LEMMA MoveKeeps ==
  ASSUME proc \in [Workers -> Process], SuccessIsAnswered, NEW w \in Workers,
         NEW f \in proc[w].flights, NEW g \in Flight, Move(w, f, g), Remembering,
         g.verdict = "success" => Succeeded(g.c.id)'
  PROVE  proc' \in [Workers -> Process] /\ SuccessIsAnswered'
<1> DEFINE F == (proc[w].flights \ {f}) \cup {g}
           p == [proc[w] EXCEPT !.flights = F]
<1>0. proc[w] \in Process
  OBVIOUS
<1>1. F \subseteq Flight
  BY <1>0, ProcessFields
<1>2. proc' = [proc EXCEPT ![w] = p]
  BY DEF Move, Becomes
<1> HIDE DEF F
<1>3. p \in Process /\ p.flights = F
  BY <1>0, <1>1 DEF Process
<1> HIDE DEF p
<1>4. proc' \in [Workers -> Process]
  BY <1>2, <1>3
<1>5. ASSUME NEW v \in Workers, NEW h \in proc'[v].flights, h.verdict = "success"
      PROVE  Succeeded(h.c.id)'
  <2>1. h = g \/ h \in proc[v].flights
    BY <1>2, <1>3, <1>5 DEF F
  <2>2. CASE h \in proc[v].flights
    <3>1. proc[v] \in Process
      OBVIOUS
    <3>2. h \in Flight
      BY <2>2, <3>1, ProcessFields
    <3>3. h.c.id \in Events
      BY <3>2 DEF Flight, Claim
    <3>4. Succeeded(h.c.id)
      BY <1>5, <2>2 DEF SuccessIsAnswered
    <3> QED  BY <3>3, <3>4 DEF Remembering
  <2> QED  BY <2>1, <2>2, <1>5
<1> QED  BY <1>4, <1>5 DEF SuccessIsAnswered

-------------------------------------------------------------------------------
(* What a step means for the tables.                                       *)

\* A failed call counts; anything else leaves the count alone.
LEMMA FaultType ==
  ASSUME faults \in Nat, Fault \/ UNCHANGED faults PROVE faults' \in Nat
  BY DEF Fault

\* A step outside the database removes no row.
LEMMA NothingHappens ==
  ASSUME UNCHANGED qvars PROVE Keeping
  BY DEF Keeping, qvars

\* Enqueue, the clock, operator retries, retention and the sweep take no
\* retained event's row away.
LEMMA SurroundingsKeep ==
  ASSUME QInv,
         \/ \E e \in Events : Enqueue(e) \/ BecomeDue(e) \/ LeaseExpires(e)
         \/ \E sel \in Selector : \E S \in RetrySets(sel) : RetryBatch(sel, S)
         \/ \E P \in Partitions : DropPartition(P)
         \/ ReclaimExpired
  PROVE  Keeping
<1>1. queue \in [Events -> Row] /\ log \subseteq Events
  BY DEF QInv, QTypeOK
<1>2. ASSUME NEW e \in Events, Enqueue(e) \/ BecomeDue(e) \/ LeaseExpires(e)
      PROVE  Keeping
  <2>1. QStep
    BY <1>2 DEF QStep
  <2>2. log' \subseteq log \cup {e} /\ \A x \in Events \ {e} : queue'[x] = queue[x]
    BY <1>1, <1>2 DEF Enqueue, BecomeDue, LeaseExpires
  <2>3. CASE Enqueue(e)
    <3>1. queue'[e] = [Absent EXCEPT !.status = "pending", !.due = TRUE]
      BY <1>1, <2>3 DEF Enqueue
    <3>2. queue'[e].status # "absent"
      BY <3>1 DEF Absent
    <3> QED  BY <1>1, <2>1, <2>2, <3>2 DEF Keeping
  <2>4. CASE BecomeDue(e) \/ LeaseExpires(e)
    <3>1. /\ queue[e] \in Row /\ queue[e].status # "absent"
          /\ \/ queue'[e] = [queue[e] EXCEPT !.due = TRUE]
             \/ queue'[e] = [queue[e] EXCEPT !.expired = TRUE]
      BY <1>1, <2>4 DEF BecomeDue, LeaseExpires
    <3>2. queue'[e].status = queue[e].status
      BY <3>1 DEF Row
    <3> QED  BY <1>1, <2>1, <2>2, <3>1, <3>2 DEF Keeping
  <2> QED  BY <1>2, <2>3, <2>4
<1>3. ASSUME NEW sel \in Selector, NEW S \in RetrySets(sel), RetryBatch(sel, S)
      PROVE  Keeping
  <2>1. S \in SUBSET Events /\ \A e \in S : Matches(sel, e)
    BY DEF RetrySets
  <2>2. QStep
    BY <1>3, <2>1 DEF QStep
  <2>3. \A e \in S : queue'[e].status = "pending"
    BY <1>1, <1>3, <2>1 DEF RetryBatch, Row
  <2>4. log' = log /\ \A e \in Events \ S : queue'[e] = queue[e]
    BY <1>3 DEF RetryBatch
  <2> QED  BY <1>1, <2>2, <2>3, <2>4 DEF Keeping
<1>4. ASSUME NEW P \in Partitions, DropPartition(P)
      PROVE  Keeping
  <2>1. P \in SUBSET Events
    BY QueueAssumption
  <2>2. QStep
    BY <1>4, <2>1 DEF QStep
  <2> QED  BY <1>1, <1>4, <2>2 DEF Keeping, DropPartition
<1>5. CASE ReclaimExpired
  <2>1. QStep
    BY <1>5 DEF QStep
  <2>2. \A e \in ExpiredLeases : queue'[e].status = "pending"
    BY <1>1, <1>5 DEF ReclaimExpired, ExpiredLeases, Row
  <2>3. log' = log /\ \A e \in Events \ ExpiredLeases : queue'[e] = queue[e]
    BY <1>5 DEF ReclaimExpired
  <2> QED  BY <1>1, <2>1, <2>2, <2>3 DEF Keeping
<1> QED  BY <1>2, <1>3, <1>4, <1>5

\* Claiming rows removes none.
LEMMA ClaimKeepsRows ==
  ASSUME QInv, NEW w \in Workers, NEW S \in ClaimSets, ClaimRows(w, S)
  PROVE  Keeping
<1>1. S \in SUBSET Claimable /\ S \subseteq Events /\ log \subseteq Events
  BY DEF ClaimSets, Claimable, QInv, QTypeOK
<1>2. QStep
  BY <1>1 DEF QStep
<1>3. queue \in [Events -> Row]
  BY DEF QInv, QTypeOK
<1>4. \A e \in S : queue'[e].status = "delivering"
  BY <1>1, <1>3 DEF ClaimRows, Row
<1>5. log' = log /\ \A e \in Events \ S : queue'[e] = queue[e]
  BY DEF ClaimRows
<1> QED  BY <1>1, <1>2, <1>4, <1>5 DEF Keeping

\* Settlements other than Ack leave a row.
LEMMA NackDeadKeep ==
  ASSUME QInv, NEW w \in Workers, NEW e \in Events, NEW a \in Nat,
         \/ \E due \in BOOLEAN : Nack(w, e, a, due)
         \/ \E reason \in DeadReasons : Dead(w, e, a, reason)
  PROVE  Keeping
<1>1. queue \in [Events -> Row] /\ log \subseteq Events
  BY DEF QInv, QTypeOK
<1>2. QStep
  BY DEF QStep
<1>3. queue'[e].status \in {"pending", "dead"}
  <2>1. queue[e] \in Row
    BY <1>1
  <2>2. ASSUME NEW due \in BOOLEAN, Nack(w, e, a, due) PROVE queue'[e].status = "pending"
    BY <1>1, <2>1, <2>2 DEF Nack, Settle, Row
  <2>3. ASSUME NEW reason \in DeadReasons, Dead(w, e, a, reason) PROVE queue'[e].status = "dead"
    BY <1>1, <2>1, <2>3 DEF Dead, Settle, Row
  <2> QED  BY <2>2, <2>3
<1>4. log' = log /\ \A x \in Events \ {e} : queue'[x] = queue[x]
  BY <1>1 DEF Nack, Dead, Settle
<1> QED  BY <1>1, <1>2, <1>3, <1>4 DEF Keeping

\* A settlement call removes a row only for a success.
LEMMA SettleEffect ==
  ASSUME QInv, faults \in Nat, NEW w \in Workers, NEW c \in Claim, NEW v,
         SettleCall(w, c, v)
  PROVE  /\ faults' \in Nat
         /\ Keeping \/ (v = "success" /\ Ack(w, c.id, c.attempt))
<1>1. c.id \in Events /\ c.attempt \in Nat
  BY DEF Claim
<1>2. CASE Transition(w, c, v) /\ UNCHANGED faults
  BY <1>1, <1>2, NackDeadKeep DEF Transition
<1>3. CASE UNCHANGED qvars /\ (Fault \/ UNCHANGED faults)
  BY <1>3, NothingHappens, FaultType
<1> QED  BY <1>2, <1>3 DEF SettleCall

\* Steps that remove no row keep the tables' invariant and the promise.
LEMMA KeepingKeeps ==
  ASSUME QInv, RemovedOnlyAfterSuccess, Keeping, Remembering
  PROVE  QInv' /\ RemovedOnlyAfterSuccess'
<1>1. QInv'
  BY QStepKeeps, StutterKeeps DEF Keeping
<1>2. log \subseteq Events
  BY DEF QInv, QTypeOK
<1> QED  BY <1>1, <1>2 DEF Keeping, Remembering, RemovedOnlyAfterSuccess

\* The only removal: the row of an event whose success was answered.
LEMMA AckKeepsPromise ==
  ASSUME QInv, RemovedOnlyAfterSuccess, Remembering, NEW w \in Workers, NEW e \in Events,
         NEW a \in Nat, Ack(w, e, a), Succeeded(e)
  PROVE  QInv' /\ RemovedOnlyAfterSuccess'
<1>1. QInv'
  BY QStepKeeps DEF QStep
<1>2. queue \in [Events -> Row] /\ log \subseteq Events
  BY DEF QInv, QTypeOK
<1>3. log' = log /\ \A x \in Events \ {e} : queue'[x] = queue[x]
  BY <1>2 DEF Ack, Settle
<1> QED  BY <1>1, <1>2, <1>3 DEF Remembering, RemovedOnlyAfterSuccess

-------------------------------------------------------------------------------
(* Every step keeps the invariant.                                         *)

\* A step that hears no answer forgets none.
LEMMA SameAnswers ==
  ASSUME UNCHANGED answers PROVE Remembering
  BY DEF Remembering, Succeeded

\* The invariant after a step, from its parts.
LEMMA Assemble ==
  ASSUME QInv', RemovedOnlyAfterSuccess', proc' \in [Workers -> Process],
         SuccessIsAnswered', RestTyped, answers' \in [Events -> SUBSET Answers]
  PROVE  IInv'
<1>1. QTypeOK'
  BY DEF QInv
<1> QED  BY <1>1 DEF IInv, TypeOK, RestTyped

\* Steps that leave the answers alone and judge no request.
LEMMA QuietKeeps ==
  ASSUME IInv, NEW w \in Workers, LegalStep(w), Keeping, RestTyped, UNCHANGED answers
  PROVE  IInv'
<1>1. Remembering
  BY SameAnswers
<1>2. QInv' /\ RemovedOnlyAfterSuccess'
  BY <1>1, KeepingKeeps DEF IInv
<1>3. proc' \in [Workers -> Process] /\ SuccessIsAnswered'
  BY <1>1, LegalKeeps DEF IInv, TypeOK
<1>4. answers' \in [Events -> SUBSET Answers]
  BY DEF IInv, TypeOK
<1> QED  BY <1>2, <1>3, <1>4, Assemble

\* The delivery loop: reclaim, claim, dispatch, retain, restart.
LEMMA LoopKeeps ==
  ASSUME IInv, NEW w \in Workers, LoopStep(w)
  PROVE  IInv'
<1>1. /\ QInv /\ QTypeOK /\ proc[w] \in Process /\ faults \in Nat
      /\ exit \in [Workers -> {"none", "clean", "error", "crash"}] /\ stops \in Nat
  BY DEF IInv, TypeOK
<1>2. LegalStep(w)
  BY <1>1, PollLegal, BatchLegal, DispatchLegal DEF LoopStep
<1>3. UNCHANGED <<exit, answers, stops>>
  BY DEF LoopStep, Poll, TakePending, Sweep, BeginClaim, ClaimBatch, SkipClaim, VisitNone,
     VisitUnknown, VisitOversize, Consume, VisitBlocked, Acquire, Track, TrackRefused, RoundEnd,
     RetainCheck, Store, RetainReleased, Supervise, DatabaseError, ClaimLost
<1>4. CASE VisitUnknown(w) \/ VisitOversize(w)
  <2>1. PICK c \in Heads(w), reason \in {"unknown listener", "payload size"} :
          SettleCall(w, c, reason)
    BY <1>4 DEF VisitUnknown, VisitOversize, Consume
  <2>2. c \in Claim
    BY <1>1, ProcessFields DEF Heads
  <2>3. faults' \in Nat /\ Keeping
    BY <1>1, <2>1, <2>2, SettleEffect
  <2> QED  BY <1>1, <1>2, <1>3, <2>3, QuietKeeps DEF RestTyped
<1>5. CASE Sweep(w)
  <2>1. Keeping /\ UNCHANGED faults
    BY <1>1, <1>5, SurroundingsKeep DEF Sweep
  <2> QED  BY <1>1, <1>2, <1>3, <2>1, QuietKeeps DEF RestTyped
<1>6. CASE ClaimBatch(w) \/ ClaimLost(w)
  <2>1. \E S \in ClaimSets : ClaimRows(w, S)
    BY <1>6 DEF ClaimBatch, ClaimLost
  <2>2. Fault \/ UNCHANGED faults
    BY <1>6 DEF ClaimBatch, ClaimLost
  <2> QED  BY <1>1, <1>2, <1>3, <2>1, <2>2, ClaimKeepsRows, FaultType, QuietKeeps DEF RestTyped
<1>7. CASE TakePending(w)
  <2>1. UNCHANGED qvars
    BY <1>7 DEF TakePending
  <2>2. PICK X \in HoldsExpired(w) : faults' = faults + Cardinality(X)
    BY <1>7 DEF TakePending
  <2>3. IsFiniteSet(X)
    BY DEF HoldsExpired
  <2>4. Cardinality(X) \in Nat
    BY <2>3, FS_CardinalityType
  <2>5. faults' \in Nat
    BY <1>1, <2>2, <2>4
  <2> QED  BY <1>1, <1>2, <1>3, <2>1, <2>5, NothingHappens, QuietKeeps DEF RestTyped
<1>8. CASE \/ Poll(w) \/ BeginClaim(w) \/ SkipClaim(w) \/ VisitNone(w) \/ VisitBlocked(w)
           \/ Acquire(w) \/ Track(w) \/ TrackRefused(w) \/ RoundEnd(w) \/ RetainCheck(w)
           \/ Store(w) \/ RetainReleased(w) \/ Supervise(w) \/ DatabaseError(w)
  <2>1. UNCHANGED qvars
    BY <1>8 DEF Poll, BeginClaim, SkipClaim, VisitNone, VisitBlocked, Acquire, Track,
       TrackRefused, RoundEnd, RetainCheck, Store, RetainReleased, Supervise, DatabaseError
  <2>2. Fault \/ UNCHANGED faults
    BY <1>8 DEF Poll, BeginClaim, SkipClaim, VisitNone, VisitBlocked, Acquire, Track,
       TrackRefused, RoundEnd, RetainCheck, Store, RetainReleased, Supervise, DatabaseError
  <2> QED  BY <1>1, <1>2, <1>3, <2>1, <2>2, NothingHappens, FaultType, QuietKeeps DEF RestTyped
<1> QED  BY <1>4, <1>5, <1>6, <1>7, <1>8 DEF LoopStep

\* Both drains and the release of retained claims.
LEMMA DrainKeeps ==
  ASSUME IInv, NEW w \in Workers, NEW d \in Releasers, DrainStep(w, d)
  PROVE  IInv'
<1>1. /\ QInv /\ proc[w] \in Process /\ faults \in Nat
      /\ exit \in [Workers -> {"none", "clean", "error", "crash"}] /\ stops \in Nat
  BY DEF IInv, TypeOK
<1>2. LegalStep(w)
  BY <1>1, DrainLegal
<1>3. UNCHANGED <<exit, answers, stops>>
  BY DEF DrainStep, BeginDrain, DrainWaited, DrainEnd, ReleaseOne
<1>4. CASE ReleaseOne(w, d)
  <2>1. PICK c \in proc[w].drain[d].rel :
          \/ Nack(w, c.id, c.attempt, TRUE) /\ UNCHANGED <<faults>>
          \/ ~Leased(w, c.id) /\ UNCHANGED <<qvars, faults>>
          \/ Fault /\ (UNCHANGED qvars \/ Nack(w, c.id, c.attempt, TRUE))
    BY <1>4 DEF ReleaseOne
  <2>2. proc[w].drain[d] \in Drain
    BY <1>1, ProcessFields
  <2>3. c.id \in Events /\ c.attempt \in Nat
    BY <2>2 DEF Drain, Claim
  <2>4. Keeping
    BY <1>1, <2>1, <2>3, NackDeadKeep, NothingHappens
  <2>5. faults' \in Nat
    BY <1>1, <2>1, FaultType
  <2> QED  BY <1>1, <1>2, <1>3, <2>4, <2>5, QuietKeeps DEF RestTyped
<1>5. CASE BeginDrain(w, d) \/ DrainWaited(w, d) \/ DrainEnd(w, d)
  <2>1. UNCHANGED qvars /\ (Fault \/ UNCHANGED faults)
    BY <1>5 DEF BeginDrain, DrainWaited, DrainEnd
  <2> QED  BY <1>1, <1>2, <1>3, <2>1, NothingHappens, FaultType, QuietKeeps DEF RestTyped
<1> QED  BY <1>4, <1>5 DEF DrainStep

\* Start, signal, exit, failed server shutdown and crash.
LEMMA ProcessKeeps ==
  ASSUME IInv, NEW w \in Workers, ProcessStep(w)
  PROVE  IInv'
<1>1. /\ proc[w] \in Process /\ faults \in Nat
      /\ exit \in [Workers -> {"none", "clean", "error", "crash"}] /\ stops \in Nat
  BY DEF IInv, TypeOK
<1>2. LegalStep(w)
  BY <1>1, ProcessLegal
<1>3. UNCHANGED qvars /\ UNCHANGED answers /\ (Fault \/ UNCHANGED faults)
  BY DEF ProcessStep, Start, Shutdown, Exit, ServerShutdownFails, Crash
<1>4. stops' \in Nat
  BY <1>1 DEF ProcessStep, Start, Shutdown, Exit, ServerShutdownFails, Crash
<1>5. exit' \in [Workers -> {"none", "clean", "error", "crash"}]
  BY <1>1 DEF ProcessStep, Start, Shutdown, Exit, ServerShutdownFails, Crash, Ends
<1> QED  BY <1>1, <1>2, <1>3, <1>4, <1>5, NothingHappens, FaultType, QuietKeeps DEF RestTyped

\* The classification: a success is a 2xx answer, and there is always a
\* verdict, so no request ends unsettled.
LEMMA VerdictFacts ==
  ASSUME NEW c, NEW answer
  PROVE  /\ Verdict(c, answer) \in Verdicts
         /\ Verdict(c, answer) = "success" => ClassifyStatus(answer) = "success"
<1> DEFINE outcome == classifyAttempt(MaxAttempts[ListenerOf[c.id]], c.attempt, answer)
<1>1. ClassifyStatus(answer) \in {"success", "retryable", "terminal"}
  BY DEF ClassifyStatus
<1>2. /\ outcome \in {"success", "retryable", "terminal"}
      /\ outcome = "success" => ClassifyStatus(answer) = "success"
  BY <1>1 DEF classifyAttempt
<1> HIDE DEF outcome
<1>3. Verdict(c, answer) = CASE outcome = "success"   -> "success"
                             [] outcome = "retryable" -> "retry"
                             [] outcome = "terminal"  -> "attempt"
  BY DEF Verdict, outcome
<1> QED  BY <1>2, <1>3 DEF Verdicts, DeadReasons

\* One request: refused, answered, settled or finished.
LEMMA FlightKeeps ==
  ASSUME IInv, NEW w \in Workers, NEW f \in proc[w].flights, FlightStep(w, f)
  PROVE  IInv'
<1>1. /\ QInv /\ proc[w] \in Process /\ faults \in Nat
      /\ exit \in [Workers -> {"none", "clean", "error", "crash"}] /\ stops \in Nat
      /\ proc \in [Workers -> Process] /\ SuccessIsAnswered /\ RemovedOnlyAfterSuccess
      /\ answers \in [Events -> SUBSET Answers]
  BY DEF IInv, TypeOK
<1>2. f \in Flight
  BY <1>1, ProcessFields
<1>3. f.c \in Claim /\ f.c.id \in Events /\ f.c.attempt \in Nat /\ f.verdict \in Verdicts
  BY <1>2 DEF Flight, Claim
<1>4. CASE Refuse(w, f)
  <2> DEFINE g == [f EXCEPT !.stage = "settle", !.verdict = "envelope"]
  <2>1. g \in Flight /\ g.verdict # "success"
    BY <1>2 DEF Flight, Verdicts, DeadReasons
  <2>2. Move(w, f, g) /\ UNCHANGED <<qvars, exit, answers, faults, stops>>
    BY <1>4 DEF Refuse
  <2> HIDE DEF g
  <2>3. Remembering /\ Keeping
    BY <2>2, SameAnswers, NothingHappens
  <2>4. QInv' /\ RemovedOnlyAfterSuccess'
    BY <1>1, <2>3, KeepingKeeps
  <2>5. proc' \in [Workers -> Process] /\ SuccessIsAnswered'
    BY <1>1, <2>1, <2>2, <2>3, MoveKeeps
  <2> QED  BY <1>1, <2>2, <2>4, <2>5, Assemble DEF RestTyped
<1>5. CASE Respond(w, f)
  <2>1. PICK answer \in Answers :
          /\ Move(w, f, [f EXCEPT !.stage = "settle", !.verdict = Verdict(f.c, answer)])
          /\ answers' = [answers EXCEPT ![f.c.id] = @ \cup {answer}]
    BY <1>5 DEF Respond
  <2> DEFINE v == Verdict(f.c, answer)
             g == [f EXCEPT !.stage = "settle", !.verdict = v]
  <2>2. v \in Verdicts /\ (v = "success" => ClassifyStatus(answer) = "success")
    BY VerdictFacts
  <2>a. Move(w, f, g)
    BY <2>1
  <2> HIDE DEF v
  <2>3. g \in Flight /\ g.verdict = v /\ g.c = f.c
    BY <1>2, <2>2 DEF Flight
  <2>4. answers' \in [Events -> SUBSET Answers] /\ answer \in answers'[f.c.id]
    BY <1>1, <1>3, <2>1
  <2>5. \A e \in Events : answers[e] \subseteq answers'[e]
    BY <1>1, <2>1
  <2>6. Remembering
    BY <2>5 DEF Remembering, Succeeded
  <2>7. g.verdict = "success" => Succeeded(g.c.id)'
    BY <2>2, <2>3, <2>4 DEF Succeeded
  <2> HIDE DEF g
  <2>8. UNCHANGED <<qvars, exit, faults, stops>>
    BY <1>5 DEF Respond
  <2>9. QInv' /\ RemovedOnlyAfterSuccess'
    BY <1>1, <2>6, <2>8, NothingHappens, KeepingKeeps
  <2>10. proc' \in [Workers -> Process] /\ SuccessIsAnswered'
    BY <1>1, <2>a, <2>3, <2>6, <2>7, MoveKeeps
  <2> QED  BY <1>1, <2>4, <2>8, <2>9, <2>10, Assemble DEF RestTyped
<1>6. CASE SettleFlight(w, f)
  <2> DEFINE g == [f EXCEPT !.stage = "finish"]
  <2>1. g \in Flight /\ g.verdict = f.verdict /\ g.c = f.c
    BY <1>2 DEF Flight
  <2>2. /\ SettleCall(w, f.c, f.verdict) /\ Move(w, f, g)
        /\ UNCHANGED <<exit, answers, stops>>
    BY <1>6 DEF SettleFlight
  <2> HIDE DEF g
  <2>3. Remembering
    BY <2>2, SameAnswers
  <2>4. f.verdict = "success" => Succeeded(f.c.id) /\ Succeeded(f.c.id)'
    BY <1>1, <1>3, <2>3 DEF SuccessIsAnswered, Remembering
  <2>5. proc' \in [Workers -> Process] /\ SuccessIsAnswered'
    BY <1>1, <2>1, <2>2, <2>3, <2>4, MoveKeeps
  <2>6. /\ faults' \in Nat
        /\ Keeping \/ (f.verdict = "success" /\ Ack(w, f.c.id, f.c.attempt))
    BY <1>1, <1>3, <2>2, SettleEffect
  <2>7. QInv' /\ RemovedOnlyAfterSuccess'
    BY <1>1, <1>3, <2>3, <2>4, <2>6, KeepingKeeps, AckKeepsPromise
  <2> QED  BY <1>1, <2>2, <2>5, <2>6, <2>7, Assemble DEF RestTyped
<1>7. CASE Finish(w, f)
  <2> DEFINE P == proc[w]
             U == [P.lused EXCEPT ![ListenerOf[f.c.id]] = Released(@)]
  <2>1. PICK c \in P.tracked :
          Becomes(w, [P EXCEPT !.flights = @ \ {f}, !.tracked = @ \ {c},
                               !.used = Released(@), !.lused[ListenerOf[f.c.id]] = Released(@)])
    BY <1>7 DEF Finish
  <2> DEFINE F == P.flights \ {f}
             p == [P EXCEPT !.flights = F, !.tracked = @ \ {c}, !.used = Released(@), !.lused = U]
  <2>2. Becomes(w, p)
    BY <2>1
  <2>3. /\ P \in Process /\ P.tracked \ {c} \subseteq Claim /\ F \subseteq Flight
        /\ Released(P.used) \in Nat /\ U \in [Listeners -> Nat]
    BY <1>1, ProcessFields, ReleasedType, SlotType
  <2> HIDE DEF U, F
  <2>4. p \in Process /\ p.flights = F
    BY <2>3 DEF Process
  <2>5. LegalStep(w)
    BY <2>2, <2>4 DEF Legal, LegalStep, F
  <2>6. UNCHANGED <<qvars, exit, answers, faults, stops>>
    BY <1>7 DEF Finish
  <2> QED  BY <1>1, <2>5, <2>6, NothingHappens, QuietKeeps DEF RestTyped
<1> QED  BY <1>4, <1>5, <1>6, <1>7 DEF FlightStep

\* Producers, operators, retention and the clock, which no process sees.
LEMMA OutsideKeeps ==
  ASSUME IInv, Surroundings \/ \E e \in Events : DueTime(e) \/ LeaseRunsOut(e)
  PROVE  IInv'
<1>1. QInv /\ RemovedOnlyAfterSuccess /\ faults \in Nat
  BY DEF IInv, TypeOK
<1>2. Keeping
  BY <1>1, SurroundingsKeep DEF Surroundings, DueTime, LeaseRunsOut
<1>3. UNCHANGED <<proc, exit, answers, stops>> /\ (Fault \/ UNCHANGED faults)
  BY DEF Surroundings, DueTime, LeaseRunsOut, wvars
<1>4. QInv' /\ RemovedOnlyAfterSuccess'
  BY <1>1, <1>2, <1>3, SameAnswers, KeepingKeeps
<1>5. SuccessIsAnswered'
  BY <1>3 DEF IInv, SuccessIsAnswered, Succeeded
<1> QED  BY <1>1, <1>3, <1>4, <1>5, FaultType, Assemble DEF RestTyped, IInv, TypeOK

\* No process runs and nothing is logged at first.
LEMMA InitHolds == Init => IInv
<1> SUFFICES ASSUME Init PROVE IInv
  OBVIOUS
<1>1. QInv /\ QTypeOK
  BY QInitHolds DEF Init, QInv
<1>2. Fresh("down") \in Process /\ Fresh("down").flights = {}
  <2>1. Fresh("down") \in Process
    BY FreshLegal DEF LoopStates, Legal
  <2> QED  BY <2>1 DEF Fresh
<1>3. proc \in [Workers -> Process] /\ SuccessIsAnswered
  BY <1>2 DEF Init, SuccessIsAnswered
<1>4. RemovedOnlyAfterSuccess
  BY DEF Init, QInit, RemovedOnlyAfterSuccess
<1> QED  BY <1>1, <1>3, <1>4 DEF Init, IInv, TypeOK

\* Every step keeps the invariant of the whole system.
LEMMA InvStep ==
  ASSUME IInv, [Next]_vars PROVE IInv'
<1>1. CASE UNCHANGED vars
  <2>1. UNCHANGED <<qvars, wvars>>
    BY <1>1 DEF vars
  <2>2. QInv' /\ RemovedOnlyAfterSuccess'
    BY <2>1, NothingHappens, SameAnswers, KeepingKeeps DEF IInv, wvars
  <2>3. SuccessIsAnswered'
    BY <2>1 DEF IInv, SuccessIsAnswered, Succeeded, wvars
  <2> QED  BY <2>1, <2>2, <2>3, Assemble DEF RestTyped, IInv, TypeOK, wvars
<1>2. CASE Next
  BY <1>2, LoopKeeps, FlightKeeps, DrainKeeps, ProcessKeeps, OutsideKeeps DEF Next
<1> QED  BY <1>1, <1>2

\* The invariant of the whole system.
THEOREM WorkerInvariant == Spec => []IInv
<1>1. IInv /\ [Next]_vars => IInv'
  BY InvStep
<1> QED  BY InitHolds, <1>1, PTL DEF Spec

\* Every process, table and history stays well formed: in particular every
\* request gets one of the verdicts recordResult knows how to settle, and a
\* dead letter one of the reasons the column admits.
THEOREM WorkerTypes == Spec => []TypeOK
<1>1. IInv => TypeOK
  BY DEF IInv
<1> QED  BY WorkerInvariant, <1>1, PTL

\* At-least-once, for any number of workers, events, failures and operator
\* retries: a row is removed only after a destination accepted its event.
THEOREM NothingLostUnsent == Spec => []RemovedOnlyAfterSuccess
<1>1. IInv => RemovedOnlyAfterSuccess
  BY DEF IInv
<1> QED  BY WorkerInvariant, <1>1, PTL

===============================================================================
