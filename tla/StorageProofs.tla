--------------------------- MODULE StorageProofs ----------------------------
(***************************************************************************)
(* OwnershipInv is inductive, for any number of messages, objects, passes, *)
(* lease tokens and tries: every object a message owns is in the bucket.   *)
(* TrackingInv is inductive while no request outlives its promotion intent *)
(* (~SlowWriters): every object written for a send is owned or on its way  *)
(* to deletion.                                                            *)
(*                                                                         *)
(* AutoInv and MailInv are inductive, for any number of rules, members,    *)
(* messages and versions: what rules need exists, what acts has been       *)
(* tested, and what a run does to mail is what its rules ask for, by       *)
(* induction over the rules it captured.                                   *)
(*                                                                         *)
(* IndexInv is inductive, for any number of messages, tokens and faults,   *)
(* and any size of a page: sources, jobs and vectors agree, and mail that  *)
(* has no source is before the projection, in the log or on the page.      *)
(***************************************************************************)
EXTENDS
  R2Ownership, AutomationRules, SemanticIndex, FiniteSetTheorems, WellFoundedInduction, TLAPS

\* A key names its message.
LEMMA KeyFacts ==
  /\ \A k \in Keys : k[1] \in Messages
  /\ \A k \in Keys, m \in Messages : k \in KeysOf(m) <=> k[1] = m
  /\ \A m \in Messages : KeysOf(m) \subseteq Keys
BY DEF Keys, KeysOf, Messages

\* The rows the transactions write.
LEMMA RowFacts ==
  /\ NoRow \in Row /\ NoRow.state = "none"
  /\ \A due \in BOOLEAN : PendingRow(due) \in Row
                         /\ PendingRow(due).state = "pending"
  /\ \A r \in Row, t \in Leases :
       ClaimedRow(r, t) \in Row /\ ClaimedRow(r, t).state = "deleting"
  /\ \A r \in Row : FailedRow(r) \in Row /\ FailedRow(r).state = r.state
  /\ \A r \in Row : DueRow(r) \in Row /\ DueRow(r).state = r.state
<1>1. 0 \in 0..MaxTries /\ MaxTries \in Nat
  BY R2Assumption
<1>2. NoRow \in Row /\ NoRow.state = "none"
  BY <1>1 DEF NoRow, Row
<1>3. ASSUME NEW due \in BOOLEAN
      PROVE  PendingRow(due) \in Row /\ PendingRow(due).state = "pending"
  BY <1>1, <1>3 DEF PendingRow, Row
<1>4. ASSUME NEW r \in Row, NEW t \in Leases
      PROVE  ClaimedRow(r, t) \in Row /\ ClaimedRow(r, t).state = "deleting"
  <2>1. (IF r.tries < MaxTries THEN r.tries + 1 ELSE r.tries) \in 0..MaxTries
    BY <1>1 DEF Row
  <2> QED BY <2>1 DEF ClaimedRow, Row
<1>5. ASSUME NEW r \in Row
      PROVE  FailedRow(r) \in Row /\ FailedRow(r).state = r.state
  <2>1. (r.tries >= MaxTries) \in BOOLEAN
    OBVIOUS
  <2> QED BY <2>1 DEF FailedRow, Row
<1>6. ASSUME NEW r \in Row
      PROVE  DueRow(r) \in Row /\ DueRow(r).state = r.state
  BY DEF DueRow, Row
<1> QED BY <1>2, <1>3, <1>4, <1>5, <1>6

\* The volatile state of a pass, at its start and at each answer.
LEMMA PassFacts ==
  /\ \A t \in Leases \cup {NoLease}, ks \in SUBSET Keys :
       PassOver(t, ks) \in Pass /\ PassOver(t, ks).todo = ks
       /\ PassOver(t, ks).asked = {}
  /\ IdlePass \in Pass /\ IdlePass.todo = {} /\ IdlePass.asked = {}
  /\ \A q \in Pass, k \in Keys :
       /\ Asking(q, k) \in Pass /\ Asking(q, k).lease = q.lease
       /\ Asking(q, k).todo = q.todo \ {k} /\ Asking(q, k).asked = {k}
       /\ Answered(q, k) \in Pass /\ Answered(q, k).lease = q.lease
       /\ Answered(q, k).todo = q.todo /\ Answered(q, k).asked = {}
       /\ Refused(q, k) \in Pass /\ Refused(q, k).lease = q.lease
       /\ Refused(q, k).todo = q.todo /\ Refused(q, k).asked = {}
<1>1. ASSUME NEW t \in Leases \cup {NoLease}, NEW ks \in SUBSET Keys
      PROVE  PassOver(t, ks) \in Pass /\ PassOver(t, ks).todo = ks
             /\ PassOver(t, ks).asked = {}
  BY <1>1 DEF PassOver, Pass
<1>2. IdlePass \in Pass /\ IdlePass.todo = {} /\ IdlePass.asked = {}
  BY <1>1 DEF IdlePass
<1>3. ASSUME NEW q \in Pass, NEW k \in Keys
      PROVE  /\ Asking(q, k) \in Pass /\ Asking(q, k).lease = q.lease
             /\ Asking(q, k).todo = q.todo \ {k} /\ Asking(q, k).asked = {k}
  BY <1>3 DEF Asking, Pass
<1>4. ASSUME NEW q \in Pass, NEW k \in Keys
      PROVE  /\ Answered(q, k) \in Pass /\ Answered(q, k).lease = q.lease
             /\ Answered(q, k).todo = q.todo /\ Answered(q, k).asked = {}
  BY <1>4 DEF Answered, Pass
<1>5. ASSUME NEW q \in Pass, NEW k \in Keys
      PROVE  /\ Refused(q, k) \in Pass /\ Refused(q, k).lease = q.lease
             /\ Refused(q, k).todo = q.todo /\ Refused(q, k).asked = {}
  BY <1>5 DEF Refused, Pass
<1>6. ASSUME NEW q \in Pass, NEW k \in Keys
      PROVE  /\ Asking(q, k) \in Pass /\ Asking(q, k).lease = q.lease
             /\ Asking(q, k).todo = q.todo \ {k} /\ Asking(q, k).asked = {k}
             /\ Answered(q, k) \in Pass /\ Answered(q, k).lease = q.lease
             /\ Answered(q, k).todo = q.todo /\ Answered(q, k).asked = {}
             /\ Refused(q, k) \in Pass /\ Refused(q, k).lease = q.lease
             /\ Refused(q, k).todo = q.todo /\ Refused(q, k).asked = {}
  BY <1>3, <1>4, <1>5, <1>6
<1> QED BY <1>1, <1>2, <1>6, Zenon

\* The jobs of the cleanup queue.
LEMMA JobFacts ==
  /\ [state |-> "none", tries |-> 0] \in Job
  /\ [state |-> "pending", tries |-> 0] \in Job
  /\ \A n \in 0..MaxTries : FailedJob(n) \in Job /\ FailedJob(n).state # "none"
<1>1. 0 \in 0..MaxTries
  BY R2Assumption
<1>2. ASSUME NEW n \in 0..MaxTries
      PROVE  FailedJob(n) \in Job /\ FailedJob(n).state # "none"
  <2>1. CASE n >= MaxTries
    BY <1>2, <2>1 DEF FailedJob, Job
  <2>2. CASE ~ (n >= MaxTries)
    BY <1>2, <2>2 DEF FailedJob, Job
  <2> QED BY <2>1, <2>2
<1> QED BY <1>1, <1>2 DEF Job

\* Initially nothing is written, owned or fenced.
LEMMA InitKeeps == Init => OwnershipInv
<1> SUFFICES ASSUME Init PROVE OwnershipInv
  OBVIOUS
<1>1. TypeOK
  BY RowFacts, PassFacts, JobFacts DEF Init, TypeOK
<1>2. ASSUME NEW k \in Keys PROVE KeyInv(k)
  BY <1>2, KeyFacts, RowFacts, PassFacts, R2Assumption
     DEF Init, KeyInv, Endangered, Closed
<1>3. ASSUME NEW m \in Messages PROVE MessageInv(m)
  BY <1>3 DEF Init, MessageInv
<1>4. ASSUME NEW p \in Passes PROVE PassInv(p)
  BY <1>4, PassFacts DEF Init, PassInv
<1> QED BY <1>1, <1>2, <1>3, <1>4 DEF OwnershipInv

\* Enqueueing adds pending rows and nothing else.
LEMMA EnqueuedRows ==
  ASSUME OwnershipInv, NEW ks \in SUBSET Keys, NEW due \in BOOLEAN
  PROVE  /\ Enqueued(ks, due) \in [Keys -> Row]
         /\ \A k \in Keys : Enqueued(ks, due)[k].state = "deleting" <=>
                              row[k].state = "deleting"
<1>1. row \in [Keys -> Row]
  BY DEF OwnershipInv, TypeOK
<1> QED BY <1>1, RowFacts DEF Enqueued

\* Adoption removes pending rows and nothing else.
LEMMA AdoptedRows ==
  ASSUME OwnershipInv, NEW m \in Messages
  PROVE  /\ Adopted(m) \in [Keys -> Row]
         /\ \A k \in Keys : Adopted(m)[k].state = "deleting" <=>
                              row[k].state = "deleting"
<1>1. row \in [Keys -> Row]
  BY DEF OwnershipInv, TypeOK
<1> QED BY <1>1, RowFacts DEF Adopted

\* A promotion intent adds pending rows.
LEMMA KeepIntent ==
  ASSUME OwnershipInv, NEW m \in Messages,
         RecordOutboundPromotionIntent(m)
  PROVE  OwnershipInv'
<1>1. TypeOK'
  BY EnqueuedRows, KeyFacts, RowFacts, PassFacts, JobFacts
     DEF OwnershipInv, TypeOK, RecordOutboundPromotionIntent, bucket
<1>2. ASSUME NEW k \in Keys PROVE KeyInv(k)'
  <2>1. KeyInv(k) /\ k[1] \in Messages /\ MessageInv(k[1])
    BY <1>2, KeyFacts DEF OwnershipInv
  <2>3. row'[k].state = "deleting" => row[k].state = "deleting"
    <3>1. KeysOf(m) \in SUBSET Keys
      BY KeyFacts
    <3> QED BY <1>2, <3>1, EnqueuedRows DEF RecordOutboundPromotionIntent
  <2>2. Endangered(k)' => Endangered(k)
    BY <2>3 DEF Endangered, RecordOutboundPromotionIntent, bucket
  <2> QED
    BY <1>2, <2>1, <2>2, EnqueuedRows, KeyFacts, JobFacts
       DEF OwnershipInv, TypeOK, KeyInv, MessageInv, Closed, RecordOutboundPromotionIntent, bucket
<1>3. ASSUME NEW n \in Messages PROVE MessageInv(n)'
  BY <1>3, KeyFacts DEF OwnershipInv, TypeOK, MessageInv, RecordOutboundPromotionIntent, bucket
<1>4. ASSUME NEW q \in Passes PROVE PassInv(q)'
  BY <1>4, PassFacts DEF OwnershipInv, TypeOK, PassInv, RecordOutboundPromotionIntent, bucket
<1> QED BY <1>1, <1>2, <1>3, <1>4 DEF OwnershipInv

\* A put stores the object of an open key.
LEMMA KeepPut ==
  ASSUME OwnershipInv, NEW key \in Keys,
         PutObject(key)
  PROVE  OwnershipInv'
<1>1. TypeOK'
  BY KeyFacts, RowFacts, PassFacts, JobFacts
     DEF OwnershipInv, TypeOK, PutObject, ledger
<1>2. ASSUME NEW k \in Keys PROVE KeyInv(k)'
  <2>1. KeyInv(k) /\ k[1] \in Messages /\ MessageInv(k[1])
    BY <1>2, KeyFacts DEF OwnershipInv
  <2>2. Endangered(k)' => Endangered(k)
    BY <1>2, KeyFacts, RowFacts, PassFacts
       DEF OwnershipInv, TypeOK, Endangered, PutObject, ledger
  <2> QED
    BY <1>2, <2>1, <2>2, KeyFacts, JobFacts
       DEF OwnershipInv, TypeOK, KeyInv, MessageInv, Closed, PutObject, ledger
<1>3. ASSUME NEW n \in Messages PROVE MessageInv(n)'
  BY <1>3, KeyFacts DEF OwnershipInv, TypeOK, MessageInv, PutObject, ledger
<1>4. ASSUME NEW q \in Passes PROVE PassInv(q)'
  BY <1>4, PassFacts DEF OwnershipInv, TypeOK, PassInv, PutObject, ledger
<1> QED BY <1>1, <1>2, <1>3, <1>4 DEF OwnershipInv

\* Giving up only starts the rollback.
LEMMA KeepGiveUp ==
  ASSUME OwnershipInv, NEW m \in Messages,
         GiveUp(m)
  PROVE  OwnershipInv'
<1>1. TypeOK'
  BY KeyFacts, RowFacts, PassFacts, JobFacts
     DEF OwnershipInv, TypeOK, GiveUp, bucket, ledger
<1>2. ASSUME NEW k \in Keys PROVE KeyInv(k)'
  <2>1. KeyInv(k) /\ k[1] \in Messages /\ MessageInv(k[1])
    BY <1>2, KeyFacts DEF OwnershipInv
  <2>2. Endangered(k)' => Endangered(k)
    BY <1>2, KeyFacts, RowFacts, PassFacts
       DEF OwnershipInv, TypeOK, Endangered, GiveUp, bucket, ledger
  <2> QED
    BY <1>2, <2>1, <2>2, KeyFacts, JobFacts
       DEF OwnershipInv, TypeOK, KeyInv, MessageInv, Closed, GiveUp, bucket, ledger
<1>3. ASSUME NEW n \in Messages PROVE MessageInv(n)'
  BY <1>3, KeyFacts DEF OwnershipInv, TypeOK, MessageInv, GiveUp, bucket, ledger
<1>4. ASSUME NEW q \in Passes PROVE PassInv(q)'
  BY <1>4, PassFacts DEF OwnershipInv, TypeOK, PassInv, GiveUp, bucket, ledger
<1> QED BY <1>1, <1>2, <1>3, <1>4 DEF OwnershipInv

\* An enqueue adopts keys that are open and stored.
LEMMA KeepCommit ==
  ASSUME OwnershipInv, NEW m \in Messages, NEW answered \in BOOLEAN,
         EnqueueCommits(m, answered)
  PROVE  OwnershipInv'
<1>1. TypeOK'
  BY AdoptedRows, KeyFacts, RowFacts, PassFacts, JobFacts
     DEF OwnershipInv, TypeOK, EnqueueCommits, Adopts, bucket
<1>2. ASSUME NEW k \in Keys PROVE KeyInv(k)'
  <2>1. KeyInv(k) /\ k[1] \in Messages /\ MessageInv(k[1])
    BY <1>2, KeyFacts DEF OwnershipInv
  <2>3. row'[k].state = "deleting" => row[k].state = "deleting"
    BY <1>2, AdoptedRows DEF EnqueueCommits
  <2>2. Endangered(k)' => Endangered(k)
    BY <2>3 DEF Endangered, EnqueueCommits, bucket
  <2> QED
    BY <1>2, <2>1, <2>2, AdoptedRows, KeyFacts, JobFacts
       DEF OwnershipInv, TypeOK, KeyInv, MessageInv, Closed, EnqueueCommits, Adopts, bucket
<1>3. ASSUME NEW n \in Messages PROVE MessageInv(n)'
  BY <1>3, KeyFacts DEF OwnershipInv, TypeOK, MessageInv, EnqueueCommits, Adopts, bucket
<1>4. ASSUME NEW q \in Passes PROVE PassInv(q)'
  BY <1>4, PassFacts DEF OwnershipInv, TypeOK, PassInv, EnqueueCommits, Adopts, bucket
<1> QED BY <1>1, <1>2, <1>3, <1>4 DEF OwnershipInv

\* A failed enqueue owns nothing.
LEMMA KeepFails ==
  ASSUME OwnershipInv, NEW m \in Messages,
         EnqueueFails(m)
  PROVE  OwnershipInv'
<1>1. TypeOK'
  BY KeyFacts, RowFacts, PassFacts, JobFacts
     DEF OwnershipInv, TypeOK, EnqueueFails, bucket, ledger
<1>2. ASSUME NEW k \in Keys PROVE KeyInv(k)'
  <2>1. KeyInv(k) /\ k[1] \in Messages /\ MessageInv(k[1])
    BY <1>2, KeyFacts DEF OwnershipInv
  <2>2. Endangered(k)' => Endangered(k)
    BY <1>2, KeyFacts, RowFacts, PassFacts
       DEF OwnershipInv, TypeOK, Endangered, EnqueueFails, bucket, ledger
  <2> QED
    BY <1>2, <2>1, <2>2, KeyFacts, JobFacts
       DEF OwnershipInv, TypeOK, KeyInv, MessageInv, Closed, EnqueueFails, bucket, ledger
<1>3. ASSUME NEW n \in Messages PROVE MessageInv(n)'
  BY <1>3, KeyFacts DEF OwnershipInv, TypeOK, MessageInv, EnqueueFails, bucket, ledger
<1>4. ASSUME NEW q \in Passes PROVE PassInv(q)'
  BY <1>4, PassFacts DEF OwnershipInv, TypeOK, PassInv, EnqueueFails, bucket, ledger
<1> QED BY <1>1, <1>2, <1>3, <1>4 DEF OwnershipInv

\* A replayed enqueue owns nothing.
LEMMA KeepReplayed ==
  ASSUME OwnershipInv, NEW m \in Messages,
         EnqueueReplayed(m)
  PROVE  OwnershipInv'
<1>1. TypeOK'
  BY KeyFacts, RowFacts, PassFacts, JobFacts
     DEF OwnershipInv, TypeOK, EnqueueReplayed, bucket, ledger
<1>2. ASSUME NEW k \in Keys PROVE KeyInv(k)'
  <2>1. KeyInv(k) /\ k[1] \in Messages /\ MessageInv(k[1])
    BY <1>2, KeyFacts DEF OwnershipInv
  <2>2. Endangered(k)' => Endangered(k)
    BY <1>2, KeyFacts, RowFacts, PassFacts
       DEF OwnershipInv, TypeOK, Endangered, EnqueueReplayed, bucket, ledger
  <2> QED
    BY <1>2, <2>1, <2>2, KeyFacts, JobFacts
       DEF OwnershipInv, TypeOK, KeyInv, MessageInv, Closed, EnqueueReplayed, bucket, ledger
<1>3. ASSUME NEW n \in Messages PROVE MessageInv(n)'
  BY <1>3, KeyFacts DEF OwnershipInv, TypeOK, MessageInv, EnqueueReplayed, bucket, ledger
<1>4. ASSUME NEW q \in Passes PROVE PassInv(q)'
  BY <1>4, PassFacts DEF OwnershipInv, TypeOK, PassInv, EnqueueReplayed, bucket, ledger
<1> QED BY <1>1, <1>2, <1>3, <1>4 DEF OwnershipInv

\* The ledger is asked before anything is rolled back.
LEMMA KeepReconcile ==
  ASSUME OwnershipInv, NEW m \in Messages,
         ReconcileAmbiguousOutboundEnqueue(m)
  PROVE  OwnershipInv'
<1>1. TypeOK'
  BY KeyFacts, RowFacts, PassFacts, JobFacts
     DEF OwnershipInv, TypeOK, ReconcileAmbiguousOutboundEnqueue, bucket, ledger
<1>2. ASSUME NEW k \in Keys PROVE KeyInv(k)'
  <2>1. KeyInv(k) /\ k[1] \in Messages /\ MessageInv(k[1])
    BY <1>2, KeyFacts DEF OwnershipInv
  <2>2. Endangered(k)' => Endangered(k)
    BY <1>2, KeyFacts, RowFacts, PassFacts
       DEF OwnershipInv, TypeOK, Endangered, ReconcileAmbiguousOutboundEnqueue, bucket, ledger
  <2> QED
    BY <1>2, <2>1, <2>2, KeyFacts, JobFacts
       DEF OwnershipInv, TypeOK, KeyInv, MessageInv, Closed, ReconcileAmbiguousOutboundEnqueue, bucket, ledger
<1>3. ASSUME NEW n \in Messages PROVE MessageInv(n)'
  BY <1>3, KeyFacts DEF OwnershipInv, TypeOK, MessageInv, ReconcileAmbiguousOutboundEnqueue, bucket, ledger
<1>4. ASSUME NEW q \in Passes PROVE PassInv(q)'
  BY <1>4, PassFacts DEF OwnershipInv, TypeOK, PassInv, ReconcileAmbiguousOutboundEnqueue, bucket, ledger
<1> QED BY <1>1, <1>2, <1>3, <1>4 DEF OwnershipInv

\* A rollback deletes what was never committed.
LEMMA KeepRollback ==
  ASSUME OwnershipInv, NEW m \in Messages,
         RollbackDeletes(m)
  PROVE  OwnershipInv'
<1>1. TypeOK'
  BY KeyFacts, RowFacts, PassFacts, JobFacts
     DEF OwnershipInv, TypeOK, RollbackDeletes, ledger
<1>2. ASSUME NEW k \in Keys PROVE KeyInv(k)'
  <2>1. KeyInv(k) /\ k[1] \in Messages /\ MessageInv(k[1])
    BY <1>2, KeyFacts DEF OwnershipInv
  <2>2. Endangered(k)' => Endangered(k)
    BY <1>2, KeyFacts, RowFacts, PassFacts
       DEF OwnershipInv, TypeOK, Endangered, RollbackDeletes, ledger
  <2> QED
    BY <1>2, <2>1, <2>2, KeyFacts, JobFacts
       DEF OwnershipInv, TypeOK, KeyInv, MessageInv, Closed, RollbackDeletes, ledger
<1>3. ASSUME NEW n \in Messages PROVE MessageInv(n)'
  BY <1>3, KeyFacts DEF OwnershipInv, TypeOK, MessageInv, RollbackDeletes, ledger
<1>4. ASSUME NEW q \in Passes PROVE PassInv(q)'
  BY <1>4, PassFacts DEF OwnershipInv, TypeOK, PassInv, RollbackDeletes, ledger
<1> QED BY <1>1, <1>2, <1>3, <1>4 DEF OwnershipInv

\* A queued rollback concerns what was never committed.
LEMMA KeepQueue ==
  ASSUME OwnershipInv, NEW m \in Messages, NEW gone \in SUBSET KeysOf(m),
         RollbackQueues(m, gone)
  PROVE  OwnershipInv'
<1>1. TypeOK'
  BY KeyFacts, RowFacts, PassFacts, JobFacts
     DEF OwnershipInv, TypeOK, RollbackQueues, ledger
<1>2. ASSUME NEW k \in Keys PROVE KeyInv(k)'
  <2>1. KeyInv(k) /\ k[1] \in Messages /\ MessageInv(k[1])
    BY <1>2, KeyFacts DEF OwnershipInv
  <2>2. Endangered(k)' => Endangered(k)
    BY <1>2, KeyFacts, RowFacts, PassFacts
       DEF OwnershipInv, TypeOK, Endangered, RollbackQueues, ledger
  <2> QED
    BY <1>2, <2>1, <2>2, KeyFacts, JobFacts, R2Assumption
       DEF OwnershipInv, TypeOK, KeyInv, MessageInv, Closed, RollbackQueues, ledger
<1>3. ASSUME NEW n \in Messages PROVE MessageInv(n)'
  BY <1>3, KeyFacts DEF OwnershipInv, TypeOK, MessageInv, RollbackQueues, ledger
<1>4. ASSUME NEW q \in Passes PROVE PassInv(q)'
  BY <1>4, PassFacts DEF OwnershipInv, TypeOK, PassInv, RollbackQueues, ledger
<1> QED BY <1>1, <1>2, <1>3, <1>4 DEF OwnershipInv

\* A writer that stops touches nothing.
LEMMA KeepStops ==
  ASSUME OwnershipInv, NEW m \in Messages,
         WriterStops(m)
  PROVE  OwnershipInv'
<1>1. TypeOK'
  BY KeyFacts, RowFacts, PassFacts, JobFacts
     DEF OwnershipInv, TypeOK, WriterStops, Live, bucket, ledger
<1>2. ASSUME NEW k \in Keys PROVE KeyInv(k)'
  <2>1. KeyInv(k) /\ k[1] \in Messages /\ MessageInv(k[1])
    BY <1>2, KeyFacts DEF OwnershipInv
  <2>2. Endangered(k)' => Endangered(k)
    BY <1>2, KeyFacts, RowFacts, PassFacts
       DEF OwnershipInv, TypeOK, Endangered, WriterStops, Live, bucket, ledger
  <2> QED
    BY <1>2, <2>1, <2>2, KeyFacts, JobFacts
       DEF OwnershipInv, TypeOK, KeyInv, MessageInv, Closed, WriterStops, Live, bucket, ledger
<1>3. ASSUME NEW n \in Messages PROVE MessageInv(n)'
  BY <1>3, KeyFacts DEF OwnershipInv, TypeOK, MessageInv, WriterStops, Live, bucket, ledger
<1>4. ASSUME NEW q \in Passes PROVE PassInv(q)'
  BY <1>4, PassFacts DEF OwnershipInv, TypeOK, PassInv, WriterStops, Live, bucket, ledger
<1> QED BY <1>1, <1>2, <1>3, <1>4 DEF OwnershipInv

\* The cleanup queue deletes what was never committed.
LEMMA KeepCleanup ==
  ASSUME OwnershipInv, NEW key \in Keys,
         CleanupSucceeds(key)
  PROVE  OwnershipInv'
<1>1. TypeOK'
  BY KeyFacts, RowFacts, PassFacts, JobFacts
     DEF OwnershipInv, TypeOK, CleanupSucceeds, ledger
<1>2. ASSUME NEW k \in Keys PROVE KeyInv(k)'
  <2>1. KeyInv(k) /\ k[1] \in Messages /\ MessageInv(k[1])
    BY <1>2, KeyFacts DEF OwnershipInv
  <2>2. Endangered(k)' => Endangered(k)
    BY <1>2, KeyFacts, RowFacts, PassFacts
       DEF OwnershipInv, TypeOK, Endangered, CleanupSucceeds, ledger
  <2> QED
    BY <1>2, <2>1, <2>2, KeyFacts, JobFacts
       DEF OwnershipInv, TypeOK, KeyInv, MessageInv, Closed, CleanupSucceeds, ledger
<1>3. ASSUME NEW n \in Messages PROVE MessageInv(n)'
  BY <1>3, KeyFacts DEF OwnershipInv, TypeOK, MessageInv, CleanupSucceeds, ledger
<1>4. ASSUME NEW q \in Passes PROVE PassInv(q)'
  BY <1>4, PassFacts DEF OwnershipInv, TypeOK, PassInv, CleanupSucceeds, ledger
<1> QED BY <1>1, <1>2, <1>3, <1>4 DEF OwnershipInv

\* A failed cleanup touches nothing.
LEMMA KeepCleanupFails ==
  ASSUME OwnershipInv, NEW key \in Keys,
         CleanupFails(key)
  PROVE  OwnershipInv'
<1>1. TypeOK'
  <2>1. job[key].tries + 1 \in 0..MaxTries
    BY R2Assumption DEF OwnershipInv, TypeOK, KeyInv, CleanupFails, Job
  <2> QED
    BY <2>1, JobFacts DEF OwnershipInv, TypeOK, CleanupFails, ledger
<1>2. ASSUME NEW k \in Keys PROVE KeyInv(k)'
  <2>1. KeyInv(k) /\ k[1] \in Messages /\ MessageInv(k[1])
    BY <1>2, KeyFacts DEF OwnershipInv
  <2>2. Endangered(k)' => Endangered(k)
    BY <1>2, KeyFacts, RowFacts, PassFacts
       DEF OwnershipInv, TypeOK, Endangered, CleanupFails, ledger
  <2>3. job[key].tries + 1 \in 0..MaxTries
    BY R2Assumption DEF OwnershipInv, TypeOK, KeyInv, CleanupFails, Job
  <2>4. job'[key] = FailedJob(job[key].tries + 1)
        /\ (k # key => job'[k] = job[k])
    BY <1>2 DEF OwnershipInv, TypeOK, CleanupFails
  <2>5. FailedJob(job[key].tries + 1).state = "pending" =>
          FailedJob(job[key].tries + 1).tries < MaxTries
    <3>1. CASE job[key].tries + 1 >= MaxTries
      BY <3>1 DEF FailedJob
    <3>2. CASE ~ (job[key].tries + 1 >= MaxTries)
      BY <3>2, <2>3, R2Assumption DEF FailedJob
    <3> QED BY <3>1, <3>2
  <2>6. UNCHANGED <<own, row, keyFence, attFence, wr, put>>
    BY DEF CleanupFails, ledger
  <2>8. k # key => obj'[k] = obj[k]
    BY <1>2 DEF OwnershipInv, TypeOK, CleanupFails
  <2>9. k = key => wr[k[1]] = "over" /\ own[k[1]] = "never"
    BY <2>1 DEF KeyInv, CleanupFails
  <2>7. (job'[k].state = "pending" => job'[k].tries < MaxTries)
        /\ (job'[k].state # "none" => wr[k[1]] = "over" /\ own[k[1]] = "never")
    BY <2>1, <2>3, <2>4, <2>5, JobFacts DEF KeyInv, CleanupFails
  <2> QED
    BY <1>2, <2>1, <2>2, <2>6, <2>7, <2>8, <2>9 DEF KeyInv, Closed
<1>3. ASSUME NEW n \in Messages PROVE MessageInv(n)'
  BY <1>3, KeyFacts DEF OwnershipInv, TypeOK, MessageInv, CleanupFails, ledger
<1>4. ASSUME NEW q \in Passes PROVE PassInv(q)'
  BY <1>4, PassFacts DEF OwnershipInv, TypeOK, PassInv, CleanupFails, ledger
<1> QED BY <1>1, <1>2, <1>3, <1>4 DEF OwnershipInv

\* A repaired cleanup job was a job.
LEMMA KeepCleanupRepair ==
  ASSUME OwnershipInv, NEW key \in Keys,
         RepairParkedAttachmentCleanupJob(key)
  PROVE  OwnershipInv'
<1>1. TypeOK'
  BY KeyFacts, RowFacts, PassFacts, JobFacts
     DEF OwnershipInv, TypeOK, RepairParkedAttachmentCleanupJob, bucket, ledger
<1>2. ASSUME NEW k \in Keys PROVE KeyInv(k)'
  <2>1. KeyInv(k) /\ k[1] \in Messages /\ MessageInv(k[1])
    BY <1>2, KeyFacts DEF OwnershipInv
  <2>2. Endangered(k)' => Endangered(k)
    BY <1>2, KeyFacts, RowFacts, PassFacts
       DEF OwnershipInv, TypeOK, Endangered, RepairParkedAttachmentCleanupJob, bucket, ledger
  <2> QED
    BY <1>2, <2>1, <2>2, KeyFacts, JobFacts, R2Assumption
       DEF OwnershipInv, TypeOK, KeyInv, MessageInv, Closed, RepairParkedAttachmentCleanupJob, bucket, ledger
<1>3. ASSUME NEW n \in Messages PROVE MessageInv(n)'
  BY <1>3, KeyFacts DEF OwnershipInv, TypeOK, MessageInv, RepairParkedAttachmentCleanupJob, bucket, ledger
<1>4. ASSUME NEW q \in Passes PROVE PassInv(q)'
  BY <1>4, PassFacts DEF OwnershipInv, TypeOK, PassInv, RepairParkedAttachmentCleanupJob, bucket, ledger
<1> QED BY <1>1, <1>2, <1>3, <1>4 DEF OwnershipInv

\* A projection starts with nothing written.
LEMMA KeepStart ==
  ASSUME OwnershipInv, NEW m \in Messages,
         StartProjection(m)
  PROVE  OwnershipInv'
<1>1. TypeOK'
  BY KeyFacts, RowFacts, PassFacts, JobFacts
     DEF OwnershipInv, TypeOK, StartProjection, bucket, ledger
<1>2. ASSUME NEW k \in Keys PROVE KeyInv(k)'
  <2>1. KeyInv(k) /\ k[1] \in Messages /\ MessageInv(k[1])
    BY <1>2, KeyFacts DEF OwnershipInv
  <2>2. Endangered(k)' => Endangered(k)
    BY <1>2, KeyFacts, RowFacts, PassFacts
       DEF OwnershipInv, TypeOK, Endangered, StartProjection, bucket, ledger
  <2> QED
    BY <1>2, <2>1, <2>2, KeyFacts, JobFacts
       DEF OwnershipInv, TypeOK, KeyInv, MessageInv, Closed, StartProjection, bucket, ledger
<1>3. ASSUME NEW n \in Messages PROVE MessageInv(n)'
  BY <1>3, KeyFacts DEF OwnershipInv, TypeOK, MessageInv, StartProjection, bucket, ledger
<1>4. ASSUME NEW q \in Passes PROVE PassInv(q)'
  BY <1>4, PassFacts DEF OwnershipInv, TypeOK, PassInv, StartProjection, bucket, ledger
<1> QED BY <1>1, <1>2, <1>3, <1>4 DEF OwnershipInv

\* A projection adopts keys that are open and stored.
LEMMA KeepProject ==
  ASSUME OwnershipInv, NEW m \in Messages,
         Project(m)
  PROVE  OwnershipInv'
<1>1. TypeOK'
  BY AdoptedRows, KeyFacts, RowFacts, PassFacts, JobFacts
     DEF OwnershipInv, TypeOK, Project, Adopts, bucket
<1>2. ASSUME NEW k \in Keys PROVE KeyInv(k)'
  <2>1. KeyInv(k) /\ k[1] \in Messages /\ MessageInv(k[1])
    BY <1>2, KeyFacts DEF OwnershipInv
  <2>3. row'[k].state = "deleting" => row[k].state = "deleting"
    BY <1>2, AdoptedRows DEF Project
  <2>2. Endangered(k)' => Endangered(k)
    BY <2>3 DEF Endangered, Project, bucket
  <2> QED
    BY <1>2, <2>1, <2>2, AdoptedRows, KeyFacts, JobFacts
       DEF OwnershipInv, TypeOK, KeyInv, MessageInv, Closed, Project, Adopts, bucket
<1>3. ASSUME NEW n \in Messages PROVE MessageInv(n)'
  BY <1>3, KeyFacts DEF OwnershipInv, TypeOK, MessageInv, Project, Adopts, bucket
<1>4. ASSUME NEW q \in Passes PROVE PassInv(q)'
  BY <1>4, PassFacts DEF OwnershipInv, TypeOK, PassInv, Project, Adopts, bucket
<1> QED BY <1>1, <1>2, <1>3, <1>4 DEF OwnershipInv

\* A refused projection only enqueues.
LEMMA KeepRefused ==
  ASSUME OwnershipInv, NEW m \in Messages,
         ProjectRefused(m)
  PROVE  OwnershipInv'
<1>1. TypeOK'
  BY EnqueuedRows, KeyFacts, RowFacts, PassFacts, JobFacts
     DEF OwnershipInv, TypeOK, ProjectRefused, bucket
<1>2. ASSUME NEW k \in Keys PROVE KeyInv(k)'
  <2>1. KeyInv(k) /\ k[1] \in Messages /\ MessageInv(k[1])
    BY <1>2, KeyFacts DEF OwnershipInv
  <2>3. row'[k].state = "deleting" => row[k].state = "deleting"
    <3>1. KeysOf(m) \ OwnedKeys \in SUBSET Keys
      BY KeyFacts
    <3> QED BY <1>2, <3>1, EnqueuedRows DEF ProjectRefused
  <2>2. Endangered(k)' => Endangered(k)
    BY <2>3 DEF Endangered, ProjectRefused, bucket
  <2> QED
    BY <1>2, <2>1, <2>2, EnqueuedRows, KeyFacts, JobFacts
       DEF OwnershipInv, TypeOK, KeyInv, MessageInv, Closed, ProjectRefused, bucket
<1>3. ASSUME NEW n \in Messages PROVE MessageInv(n)'
  BY <1>3, KeyFacts DEF OwnershipInv, TypeOK, MessageInv, ProjectRefused, bucket
<1>4. ASSUME NEW q \in Passes PROVE PassInv(q)'
  BY <1>4, PassFacts DEF OwnershipInv, TypeOK, PassInv, ProjectRefused, bucket
<1> QED BY <1>1, <1>2, <1>3, <1>4 DEF OwnershipInv

\* An attempt cleanup only enqueues.
LEMMA KeepUnowned ==
  ASSUME OwnershipInv, NEW m \in Messages, NEW ks \in SUBSET KeysOf(m),
         EnqueueUnownedInboundDerivedContentCleanup(m, ks)
  PROVE  OwnershipInv'
<1>1. TypeOK'
  BY EnqueuedRows, KeyFacts, RowFacts, PassFacts, JobFacts
     DEF OwnershipInv, TypeOK, EnqueueUnownedInboundDerivedContentCleanup, bucket
<1>2. ASSUME NEW k \in Keys PROVE KeyInv(k)'
  <2>1. KeyInv(k) /\ k[1] \in Messages /\ MessageInv(k[1])
    BY <1>2, KeyFacts DEF OwnershipInv
  <2>3. row'[k].state = "deleting" => row[k].state = "deleting"
    <3>1. ks \ OwnedKeys \in SUBSET Keys
      BY KeyFacts
    <3> QED BY <1>2, <3>1, EnqueuedRows DEF EnqueueUnownedInboundDerivedContentCleanup
  <2>2. Endangered(k)' => Endangered(k)
    BY <2>3 DEF Endangered, EnqueueUnownedInboundDerivedContentCleanup, bucket
  <2> QED
    BY <1>2, <2>1, <2>2, EnqueuedRows, KeyFacts, JobFacts
       DEF OwnershipInv, TypeOK, KeyInv, MessageInv, Closed, EnqueueUnownedInboundDerivedContentCleanup, bucket
<1>3. ASSUME NEW n \in Messages PROVE MessageInv(n)'
  BY <1>3, KeyFacts DEF OwnershipInv, TypeOK, MessageInv, EnqueueUnownedInboundDerivedContentCleanup, bucket
<1>4. ASSUME NEW q \in Passes PROVE PassInv(q)'
  BY <1>4, PassFacts DEF OwnershipInv, TypeOK, PassInv, EnqueueUnownedInboundDerivedContentCleanup, bucket
<1> QED BY <1>1, <1>2, <1>3, <1>4 DEF OwnershipInv

\* A retired message owns nothing.
LEMMA KeepRetire ==
  ASSUME OwnershipInv, NEW m \in Messages,
         Retire(m)
  PROVE  OwnershipInv'
<1>1. TypeOK'
  BY EnqueuedRows, KeyFacts, RowFacts, PassFacts, JobFacts
     DEF OwnershipInv, TypeOK, Retire, bucket
<1>2. ASSUME NEW k \in Keys PROVE KeyInv(k)'
  <2>1. KeyInv(k) /\ k[1] \in Messages /\ MessageInv(k[1])
    BY <1>2, KeyFacts DEF OwnershipInv
  <2>3. row'[k].state = "deleting" => row[k].state = "deleting"
    <3>1. KeysOf(m) \in SUBSET Keys
      BY KeyFacts
    <3> QED BY <1>2, <3>1, EnqueuedRows DEF Retire
  <2>2. Endangered(k)' => Endangered(k)
    BY <2>3 DEF Endangered, Retire, bucket
  <2> QED
    BY <1>2, <2>1, <2>2, EnqueuedRows, KeyFacts, JobFacts
       DEF OwnershipInv, TypeOK, KeyInv, MessageInv, Closed, Retire, bucket
<1>3. ASSUME NEW n \in Messages PROVE MessageInv(n)'
  BY <1>3, KeyFacts DEF OwnershipInv, TypeOK, MessageInv, Retire, bucket
<1>4. ASSUME NEW q \in Passes PROVE PassInv(q)'
  BY <1>4, PassFacts DEF OwnershipInv, TypeOK, PassInv, Retire, bucket
<1> QED BY <1>1, <1>2, <1>3, <1>4 DEF OwnershipInv

\* The clock touches no ownership.
LEMMA KeepDue ==
  ASSUME OwnershipInv, NEW key \in Keys,
         RowDue(key)
  PROVE  OwnershipInv'
<1>1. TypeOK'
  BY KeyFacts, RowFacts, PassFacts, JobFacts
     DEF OwnershipInv, TypeOK, RowDue, bucket
<1>2. ASSUME NEW k \in Keys PROVE KeyInv(k)'
  <2>1. KeyInv(k) /\ k[1] \in Messages /\ MessageInv(k[1])
    BY <1>2, KeyFacts DEF OwnershipInv
  <2>3. row'[k].state = row[k].state
    BY <1>2, RowFacts DEF OwnershipInv, TypeOK, RowDue
  <2>2. Endangered(k)' => Endangered(k)
    BY <2>3 DEF Endangered, RowDue, bucket
  <2> QED
    BY <1>2, <2>1, <2>2, KeyFacts, JobFacts
       DEF OwnershipInv, TypeOK, KeyInv, MessageInv, Closed, RowDue, bucket
<1>3. ASSUME NEW n \in Messages PROVE MessageInv(n)'
  BY <1>3, KeyFacts DEF OwnershipInv, TypeOK, MessageInv, RowDue, bucket
<1>4. ASSUME NEW q \in Passes PROVE PassInv(q)'
  BY <1>4, PassFacts DEF OwnershipInv, TypeOK, PassInv, RowDue, bucket
<1> QED BY <1>1, <1>2, <1>3, <1>4 DEF OwnershipInv

\* A deletion is asked for only of a claimed key.
LEMMA KeepAsk ==
  ASSUME OwnershipInv, NEW p \in Passes, NEW key \in Keys,
         AskDelete(p, key)
  PROVE  OwnershipInv'
<1>1. TypeOK'
  <2>1. pass[p].lease \in Leases
    BY DEF OwnershipInv, PassInv, AskDelete
  <2>2. inflight' \subseteq Leases \X Keys
    BY <2>1 DEF OwnershipInv, TypeOK, AskDelete
  <2> QED
    BY <2>2, PassFacts DEF OwnershipInv, TypeOK, AskDelete, ledger, writers
<1>2. ASSUME NEW k \in Keys PROVE KeyInv(k)'
  <2>1. KeyInv(k) /\ k[1] \in Messages /\ MessageInv(k[1])
    BY <1>2, KeyFacts DEF OwnershipInv
  <2>3. ASSUME NEW q \in Passes
        PROVE  k \in pass'[q].todo \cup pass'[q].asked =>
                 k \in pass[q].todo \cup pass[q].asked
    <3>1. /\ pass'[q] = IF q = p THEN Asking(pass[p], key) ELSE pass[q]
          /\ pass[q] \in Pass /\ pass[p] \in Pass
      BY <2>3 DEF OwnershipInv, TypeOK, AskDelete
    <3>4. Asking(pass[p], key).todo = pass[p].todo \ {key}
          /\ Asking(pass[p], key).asked = {key}
      BY <3>1, PassFacts, Zenon
    <3>2. CASE q = p
      BY <3>1, <3>2, <3>4 DEF AskDelete
    <3>3. CASE q # p
      BY <3>1, <3>3
    <3> QED BY <3>2, <3>3
  <2>4. k = key => Endangered(k)
    BY DEF Endangered, AskDelete
  <2>5. ASSUME NEW t \in Leases, <<t, k>> \in inflight', k # key
        PROVE  <<t, k>> \in inflight
    BY <2>5 DEF AskDelete
  <2>2. Endangered(k)' => Endangered(k)
    BY <2>3, <2>4, <2>5 DEF Endangered, AskDelete, ledger
  <2> QED
    BY <1>2, <2>1, <2>2, KeyFacts, JobFacts
       DEF OwnershipInv, TypeOK, KeyInv, MessageInv, Closed, AskDelete, ledger, writers
<1>3. ASSUME NEW n \in Messages PROVE MessageInv(n)'
  BY <1>3, KeyFacts DEF OwnershipInv, TypeOK, MessageInv, AskDelete, ledger, writers
<1>4. ASSUME NEW q \in Passes PROVE PassInv(q)'
  <2>1. /\ pass'[q] = IF q = p THEN Asking(pass[p], key) ELSE pass[q]
        /\ pass[q] \in Pass /\ pass[p] \in Pass /\ PassInv(q)
    BY <1>4 DEF OwnershipInv, TypeOK, AskDelete
  <2>4. Asking(pass[p], key).todo = pass[p].todo \ {key}
        /\ Asking(pass[p], key).lease = pass[p].lease
    BY <2>1, PassFacts, Zenon
  <2>2. CASE q = p
    BY <2>1, <2>2, <2>4 DEF PassInv, AskDelete
  <2>3. CASE q # p
    BY <2>1, <2>3 DEF PassInv
  <2> QED BY <2>2, <2>3
<1> QED BY <1>1, <1>2, <1>3, <1>4 DEF OwnershipInv

\* A deletion a pass asked for hits a closed key.
LEMMA KeepSucceeds ==
  ASSUME OwnershipInv, NEW p \in Passes, NEW key \in Keys,
         DeleteSucceeds(p, key)
  PROVE  OwnershipInv'
<1>1. TypeOK'
  BY KeyFacts, RowFacts, PassFacts, JobFacts
     DEF OwnershipInv, TypeOK, DeleteSucceeds, ledger, writers
<1>2. ASSUME NEW k \in Keys PROVE KeyInv(k)'
  <2>1. KeyInv(k) /\ k[1] \in Messages /\ MessageInv(k[1])
    BY <1>2, KeyFacts DEF OwnershipInv
  <2>3. ASSUME NEW q \in Passes
        PROVE  k \in pass'[q].todo \cup pass'[q].asked =>
                 k \in pass[q].todo \cup pass[q].asked
    <3>1. /\ pass'[q] = IF q = p THEN Answered(pass[p], key) ELSE pass[q]
          /\ pass[q] \in Pass /\ pass[p] \in Pass
      BY <2>3 DEF OwnershipInv, TypeOK, DeleteSucceeds
    <3>4. Answered(pass[p], key).todo = pass[p].todo
          /\ Answered(pass[p], key).asked = {}
      BY <3>1, PassFacts, Zenon
    <3>2. CASE q = p
      BY <3>1, <3>2, <3>4 DEF DeleteSucceeds
    <3>3. CASE q # p
      BY <3>1, <3>3
    <3> QED BY <3>2, <3>3
  <2>2. Endangered(k)' => Endangered(k)
    BY <2>3 DEF Endangered, DeleteSucceeds, ledger
  <2>4. obj'[k] # obj[k] => Endangered(k)
    BY <1>2 DEF OwnershipInv, TypeOK, Endangered, DeleteSucceeds
  <2>5. UNCHANGED <<own, row, keyFence, attFence, wr, put, job>>
    BY DEF DeleteSucceeds, ledger, writers
  <2> QED
    BY <1>2, <2>1, <2>2, <2>4, <2>5 DEF KeyInv, Closed
<1>3. ASSUME NEW n \in Messages PROVE MessageInv(n)'
  BY <1>3, KeyFacts DEF OwnershipInv, TypeOK, MessageInv, DeleteSucceeds, ledger, writers
<1>4. ASSUME NEW q \in Passes PROVE PassInv(q)'
  <2>1. /\ pass'[q] = IF q = p THEN Answered(pass[p], key) ELSE pass[q]
        /\ pass[q] \in Pass /\ pass[p] \in Pass /\ PassInv(q)
    BY <1>4 DEF OwnershipInv, TypeOK, DeleteSucceeds
  <2>4. Answered(pass[p], key).todo = pass[p].todo
        /\ Answered(pass[p], key).lease = pass[p].lease
    BY <2>1, PassFacts, Zenon
  <2>2. CASE q = p
    BY <2>1, <2>2, <2>4 DEF PassInv
  <2>3. CASE q # p
    BY <2>1, <2>3 DEF PassInv
  <2> QED BY <2>2, <2>3
<1> QED BY <1>1, <1>2, <1>3, <1>4 DEF OwnershipInv

\* A failed deletion touches nothing.
LEMMA KeepDeleteFails ==
  ASSUME OwnershipInv, NEW p \in Passes, NEW key \in Keys,
         DeleteFails(p, key)
  PROVE  OwnershipInv'
<1>1. TypeOK'
  BY KeyFacts, RowFacts, PassFacts, JobFacts
     DEF OwnershipInv, TypeOK, DeleteFails, bucket, ledger, writers
<1>2. ASSUME NEW k \in Keys PROVE KeyInv(k)'
  <2>1. KeyInv(k) /\ k[1] \in Messages /\ MessageInv(k[1])
    BY <1>2, KeyFacts DEF OwnershipInv
  <2>3. ASSUME NEW q \in Passes
        PROVE  k \in pass'[q].todo \cup pass'[q].asked =>
                 k \in pass[q].todo \cup pass[q].asked
    <3>1. /\ pass'[q] = IF q = p THEN Refused(pass[p], key) ELSE pass[q]
          /\ pass[q] \in Pass /\ pass[p] \in Pass
      BY <2>3 DEF OwnershipInv, TypeOK, DeleteFails
    <3>4. Refused(pass[p], key).todo = pass[p].todo
          /\ Refused(pass[p], key).asked = {}
      BY <3>1, PassFacts, Zenon
    <3>2. CASE q = p
      BY <3>1, <3>2, <3>4 DEF DeleteFails
    <3>3. CASE q # p
      BY <3>1, <3>3
    <3> QED BY <3>2, <3>3
  <2>2. Endangered(k)' => Endangered(k)
    BY <2>3 DEF Endangered, DeleteFails, bucket, ledger
  <2> QED
    BY <1>2, <2>1, <2>2, KeyFacts, JobFacts
       DEF OwnershipInv, TypeOK, KeyInv, MessageInv, Closed, DeleteFails, bucket, ledger, writers
<1>3. ASSUME NEW n \in Messages PROVE MessageInv(n)'
  BY <1>3, KeyFacts DEF OwnershipInv, TypeOK, MessageInv, DeleteFails, bucket, ledger, writers
<1>4. ASSUME NEW q \in Passes PROVE PassInv(q)'
  <2>1. /\ pass'[q] = IF q = p THEN Refused(pass[p], key) ELSE pass[q]
        /\ pass[q] \in Pass /\ pass[p] \in Pass /\ PassInv(q)
    BY <1>4 DEF OwnershipInv, TypeOK, DeleteFails
  <2>4. Refused(pass[p], key).todo = pass[p].todo
        /\ Refused(pass[p], key).lease = pass[p].lease
    BY <2>1, PassFacts, Zenon
  <2>2. CASE q = p
    BY <2>1, <2>2, <2>4 DEF PassInv
  <2>3. CASE q # p
    BY <2>1, <2>3 DEF PassInv
  <2> QED BY <2>2, <2>3
<1> QED BY <1>1, <1>2, <1>3, <1>4 DEF OwnershipInv

\* A late deletion hits a closed key.
LEMMA KeepR2 ==
  ASSUME OwnershipInv, NEW r \in inflight,
         R2Deletes(r)
  PROVE  OwnershipInv'
<1>1. TypeOK'
  BY KeyFacts, RowFacts, PassFacts, JobFacts
     DEF OwnershipInv, TypeOK, R2Deletes, ledger, writers
<1>2. ASSUME NEW k \in Keys PROVE KeyInv(k)'
  <2>1. KeyInv(k) /\ k[1] \in Messages /\ MessageInv(k[1])
    BY <1>2, KeyFacts DEF OwnershipInv
  <2>2. Endangered(k)' => Endangered(k)
    BY DEF Endangered, R2Deletes, ledger
  <2>4. obj'[k] # obj[k] => Endangered(k)
    <3>1. PICK t \in Leases, j \in Keys : r = <<t, j>>
      BY DEF OwnershipInv, TypeOK
    <3> QED BY <1>2, <3>1 DEF OwnershipInv, TypeOK, Endangered, R2Deletes
  <2>5. UNCHANGED <<own, row, keyFence, attFence, wr, put, job>>
    BY DEF R2Deletes, ledger, writers
  <2> QED
    BY <1>2, <2>1, <2>2, <2>4, <2>5 DEF KeyInv, Closed
<1>3. ASSUME NEW n \in Messages PROVE MessageInv(n)'
  BY <1>3, KeyFacts DEF OwnershipInv, TypeOK, MessageInv, R2Deletes, ledger, writers
<1>4. ASSUME NEW q \in Passes PROVE PassInv(q)'
  BY <1>4, PassFacts DEF OwnershipInv, TypeOK, PassInv, R2Deletes, ledger, writers
<1> QED BY <1>1, <1>2, <1>3, <1>4 DEF OwnershipInv

\* Recording outcomes withdraws or parks rows.
LEMMA KeepRecord ==
  ASSUME OwnershipInv, NEW p \in Passes,
         RecordOutcomes(p)
  PROVE  OwnershipInv'
<1>1. TypeOK'
  BY KeyFacts, RowFacts, PassFacts, JobFacts
     DEF OwnershipInv, TypeOK, RecordOutcomes, bucket, writers
<1>2. ASSUME NEW k \in Keys PROVE KeyInv(k)'
  <2>1. KeyInv(k) /\ k[1] \in Messages /\ MessageInv(k[1])
    BY <1>2, KeyFacts DEF OwnershipInv
  <2>2. Endangered(k)' => Endangered(k)
    BY <1>2, KeyFacts, RowFacts, PassFacts
       DEF OwnershipInv, TypeOK, Endangered, RecordOutcomes, bucket, writers
  <2> QED
    BY <1>2, <2>1, <2>2, KeyFacts, JobFacts
       DEF OwnershipInv, TypeOK, KeyInv, MessageInv, Closed, RecordOutcomes, bucket, writers
<1>3. ASSUME NEW n \in Messages PROVE MessageInv(n)'
  BY <1>3, KeyFacts DEF OwnershipInv, TypeOK, MessageInv, RecordOutcomes, bucket, writers
<1>4. ASSUME NEW q \in Passes PROVE PassInv(q)'
  BY <1>4, PassFacts DEF OwnershipInv, TypeOK, PassInv, RecordOutcomes, bucket, writers
<1> QED BY <1>1, <1>2, <1>3, <1>4 DEF OwnershipInv

\* A pass that stops leaves its deletions behind.
LEMMA KeepPassStops ==
  ASSUME OwnershipInv, NEW p \in Passes,
         PassStops(p)
  PROVE  OwnershipInv'
<1>1. TypeOK'
  BY KeyFacts, RowFacts, PassFacts, JobFacts
     DEF OwnershipInv, TypeOK, PassStops, bucket, ledger, writers
<1>2. ASSUME NEW k \in Keys PROVE KeyInv(k)'
  <2>1. KeyInv(k) /\ k[1] \in Messages /\ MessageInv(k[1])
    BY <1>2, KeyFacts DEF OwnershipInv
  <2>3. ASSUME NEW q \in Passes
        PROVE  k \in pass'[q].todo \cup pass'[q].asked =>
                 k \in pass[q].todo \cup pass[q].asked
    <3>1. pass'[q] = IF q = p THEN IdlePass ELSE pass[q]
      BY <2>3 DEF OwnershipInv, TypeOK, PassStops
    <3> QED BY <3>1, PassFacts
  <2>2. Endangered(k)' => Endangered(k)
    BY <2>3 DEF Endangered, PassStops, bucket, ledger
  <2> QED
    BY <1>2, <2>1, <2>2, KeyFacts, JobFacts
       DEF OwnershipInv, TypeOK, KeyInv, MessageInv, Closed, PassStops, bucket, ledger, writers
<1>3. ASSUME NEW n \in Messages PROVE MessageInv(n)'
  BY <1>3, KeyFacts DEF OwnershipInv, TypeOK, MessageInv, PassStops, bucket, ledger, writers
<1>4. ASSUME NEW q \in Passes PROVE PassInv(q)'
  BY <1>4, PassFacts DEF OwnershipInv, TypeOK, PassInv, PassStops, bucket, ledger, writers
<1> QED BY <1>1, <1>2, <1>3, <1>4 DEF OwnershipInv

\* A repaired row is pending again.
LEMMA KeepRepair ==
  ASSUME OwnershipInv, NEW key \in Keys,
         RepairParkedR2Deletion(key)
  PROVE  OwnershipInv'
<1>1. TypeOK'
  BY KeyFacts, RowFacts, PassFacts, JobFacts
     DEF OwnershipInv, TypeOK, RepairParkedR2Deletion, bucket, writers
<1>2. ASSUME NEW k \in Keys PROVE KeyInv(k)'
  <2>1. KeyInv(k) /\ k[1] \in Messages /\ MessageInv(k[1])
    BY <1>2, KeyFacts DEF OwnershipInv
  <2>2. Endangered(k)' => Endangered(k)
    BY <1>2, KeyFacts, RowFacts, PassFacts
       DEF OwnershipInv, TypeOK, Endangered, RepairParkedR2Deletion, bucket, writers
  <2> QED
    BY <1>2, <2>1, <2>2, KeyFacts, JobFacts
       DEF OwnershipInv, TypeOK, KeyInv, MessageInv, Closed, RepairParkedR2Deletion, bucket, writers
<1>3. ASSUME NEW n \in Messages PROVE MessageInv(n)'
  BY <1>3, KeyFacts DEF OwnershipInv, TypeOK, MessageInv, RepairParkedR2Deletion, bucket, writers
<1>4. ASSUME NEW q \in Passes PROVE PassInv(q)'
  BY <1>4, PassFacts DEF OwnershipInv, TypeOK, PassInv, RepairParkedR2Deletion, bucket, writers
<1> QED BY <1>1, <1>2, <1>3, <1>4 DEF OwnershipInv

\* A claim fences what it leases and leaves owned keys alone.
LEMMA KeepClaim ==
  ASSUME OwnershipInv, NEW p \in Passes,
         NEW taken \in SUBSET Claimable, NEW expired \in SUBSET attFence,
         ClaimDue(p, taken, expired)
  PROVE  OwnershipInv'
<1> DEFINE t == CHOOSE u \in Leases : Fresh(u)
           due == taken \ OwnedKeys
           fenced == {m \in Projections : KeysOf(m) \cap due # {}}
<1>1. t \in Leases
  BY DEF ClaimDue
<1>2. due \in SUBSET Keys
  BY DEF Claimable
<1>3. row' = [k \in Keys |-> IF k \in due THEN ClaimedRow(row[k], t)
                             ELSE IF k \in taken THEN NoRow ELSE row[k]]
  BY DEF ClaimDue
<1>4. /\ keyFence' = keyFence \cup {k \in due : k[1] \in Sends}
      /\ attFence' = (attFence \ expired) \cup fenced
      /\ expired \subseteq {m \in attFence : wr[m] = "over"}
  BY DEF ClaimDue
<1>5. pass' = [pass EXCEPT ![p] = IF due = {} THEN IdlePass ELSE PassOver(t, due)]
  BY DEF ClaimDue
<1>6. UNCHANGED <<obj, inflight, own, wr, put, job>>
  BY DEF ClaimDue, bucket, writers
<1>7. ASSUME NEW k \in due PROVE k \in Keys /\ own[k[1]] # "owned"
  BY <1>2, <1>7 DEF OwnedKeys
<1>8. ASSUME NEW m \in fenced
      PROVE  m \in Projections /\ m \in Messages /\ own[m] # "owned"
  BY <1>2, <1>7, <1>8, KeyFacts DEF Messages
<1> HIDE DEF t, due
<1>9. TypeOK'
  <2>1. row' \in [Keys -> Row]
    BY <1>1, <1>3, RowFacts DEF OwnershipInv, TypeOK
  <2>2. pass' \in [Passes -> Pass]
    BY <1>1, <1>2, <1>5, PassFacts DEF OwnershipInv, TypeOK
  <2>3. keyFence' \subseteq Keys /\ attFence' \subseteq Projections
    BY <1>2, <1>4 DEF OwnershipInv, TypeOK
  <2> QED BY <1>6, <2>1, <2>2, <2>3 DEF OwnershipInv, TypeOK
<1>10. ASSUME NEW k \in Keys PROVE KeyInv(k)'
  <2>1. KeyInv(k) /\ k[1] \in Messages
    BY <1>10, KeyFacts DEF OwnershipInv
  <2>2. k \in due => Closed(k)'
    <3> SUFFICES ASSUME k \in due PROVE Closed(k)'
      OBVIOUS
    <3>1. CASE k[1] \in Sends
      BY <1>4, <3>1 DEF Closed
    <3>2. CASE k[1] \in Projections
      <4>1. k[1] \in fenced
        BY <2>1, <3>2, <1>10, KeyFacts
      <4> QED BY <1>4, <4>1 DEF Closed
    <3> QED BY <2>1, <3>1, <3>2 DEF Messages
  <2>3. Closed(k) => Closed(k)'
    <3>1. CASE k[1] \in expired
      <4>1. wr[k[1]] = "over" /\ k[1] \in attFence /\ k[1] \in Projections
        BY <1>4, <3>1 DEF OwnershipInv, TypeOK
      <4>2. own[k[1]] # "owned"
        BY <2>1, <4>1 DEF KeyInv, Closed
      <4> QED BY <1>6, <4>1, <4>2 DEF Closed
    <3>2. CASE k[1] \notin expired
      BY <1>4, <1>6, <3>2 DEF Closed
    <3> QED BY <3>1, <3>2
  <2>4. Closed(k)' => own[k[1]] # "owned"
    <3>1. k[1] \in fenced => own[k[1]] # "owned"
      BY <1>8
    <3> QED BY <1>4, <1>6, <1>7, <2>1, <3>1 DEF KeyInv, Closed
  <2>5. row'[k].state = "deleting" => row[k].state = "deleting" \/ k \in due
    BY <1>3, <1>10, RowFacts
  <2>6. ASSUME NEW q \in Passes, k \in pass'[q].todo \cup pass'[q].asked
        PROVE  k \in pass[q].todo \cup pass[q].asked \/ k \in due
    <3>1. pass'[q] = IF q = p THEN IF due = {} THEN IdlePass ELSE PassOver(t, due)
                     ELSE pass[q]
      BY <1>5, <2>6 DEF OwnershipInv, TypeOK
    <3>2. CASE q # p
      BY <2>6, <3>1, <3>2
    <3>3. CASE q = p /\ due = {}
      BY <2>6, <3>1, <3>3, PassFacts
    <3>4. CASE q = p /\ due # {}
      <4>1. PassOver(t, due).todo = due /\ PassOver(t, due).asked = {}
        BY <1>1, <1>2, PassFacts
      <4> QED BY <2>6, <3>1, <3>4, <4>1
    <3> QED BY <3>2, <3>3, <3>4
  <2>7. Endangered(k)' => Endangered(k) \/ k \in due
    BY <1>6, <2>5, <2>6 DEF Endangered
  <2> QED BY <1>6, <2>1, <2>2, <2>3, <2>4, <2>7 DEF KeyInv
<1>11. ASSUME NEW n \in Messages PROVE MessageInv(n)'
  BY <1>6, <1>11 DEF OwnershipInv, MessageInv
<1>12. ASSUME NEW q \in Passes PROVE PassInv(q)'
  <2>1. pass'[q] = IF q = p THEN IF due = {} THEN IdlePass ELSE PassOver(t, due)
                   ELSE pass[q]
    BY <1>5, <1>12 DEF OwnershipInv, TypeOK
  <2>2. CASE q # p
    BY <1>12, <2>1, <2>2 DEF OwnershipInv, PassInv
  <2>3. CASE q = p /\ due = {}
    BY <2>1, <2>3, PassFacts DEF PassInv
  <2>4. CASE q = p /\ due # {}
    BY <1>1, <2>1, <2>4 DEF PassInv, PassOver
  <2> QED BY <2>2, <2>3, <2>4
<1> QED BY <1>9, <1>10, <1>11, <1>12 DEF OwnershipInv

\* Nothing happens.
LEMMA KeepStutter ==
  ASSUME OwnershipInv, UNCHANGED vars
  PROVE  OwnershipInv'
<1>1. TypeOK'
  BY DEF OwnershipInv, TypeOK, vars
<1>2. ASSUME NEW k \in Keys PROVE KeyInv(k)'
  BY <1>2 DEF OwnershipInv, KeyInv, Endangered, Closed, vars
<1>3. ASSUME NEW n \in Messages PROVE MessageInv(n)'
  BY <1>3 DEF OwnershipInv, MessageInv, vars
<1>4. ASSUME NEW q \in Passes PROVE PassInv(q)'
  BY <1>4 DEF OwnershipInv, PassInv, vars
<1> QED BY <1>1, <1>2, <1>3, <1>4 DEF OwnershipInv

\* One step of the mailbox, its requests, its passes or the bucket.
LEMMA StepKeeps == OwnershipInv /\ [Next]_vars => OwnershipInv'
<1> SUFFICES ASSUME OwnershipInv, [Next]_vars PROVE OwnershipInv'
  OBVIOUS
<1>1. ASSUME NEW m \in Messages, Request(m) PROVE OwnershipInv'
  BY <1>1, KeepIntent, KeepGiveUp, KeepCommit, KeepFails, KeepReplayed,
     KeepReconcile, KeepRollback, KeepQueue, KeepStops, KeepStart, KeepProject,
     KeepRefused, KeepUnowned, KeepRetire DEF Request
<1>2. ASSUME NEW k \in Keys, Object(k) PROVE OwnershipInv'
  BY <1>2, KeepPut, KeepCleanup, KeepCleanupFails, KeepCleanupRepair, KeepDue,
     KeepRepair DEF Object
<1>3. ASSUME NEW p \in Passes, DeletionPass(p) PROVE OwnershipInv'
  BY <1>3, KeepClaim, KeepAsk, KeepSucceeds, KeepDeleteFails, KeepRecord,
     KeepPassStops DEF DeletionPass
<1>4. CASE UNCHANGED vars
  BY <1>4, KeepStutter
<1> QED BY <1>1, <1>2, <1>3, <1>4, KeepR2 DEF Next

\* OwnershipInv holds always: whatever a pass, a late deletion, a rollback or
\* a cleanup may remove can no longer be adopted.
THEOREM OwnershipInvariant == Spec => []OwnershipInv
BY InitKeeps, StepKeeps, PTL DEF Spec

\* Every object a message owns stays in the bucket, for any number of
\* messages, objects, passes and leases, whatever fails and however late R2
\* carries out a deletion.
THEOREM OwnedObjectsAreStored == Spec => []OwnedIsStored
<1>1. OwnershipInv => OwnedIsStored
  BY DEF OwnershipInv, KeyInv, OwnedIsStored
<1> QED BY <1>1, OwnershipInvariant, PTL

-----------------------------------------------------------------------------
(* TrackingInv is inductive when a request does not outlive its promotion  *)
(* intent.                                                                 *)

\* What a step must not do to a key that it does not track itself.
Calm(k) ==
  /\ row'[k] = row[k] /\ own'[k[1]] = own[k[1]] /\ (obj'[k] => obj[k])
  /\ wr'[k[1]] \in {"idle", "writing"} => wr'[k[1]] = wr[k[1]]
  /\ \A p \in Passes : k \in pass'[p].ok /\ obj'[k]
                         => k \in pass[p].ok /\ pass'[p].lease = pass[p].lease

\* A calm step keeps a key tracked.
LEMMA CalmKeeps ==
  ASSUME NEW k \in Keys, SendInv(k), Calm(k)
  PROVE  SendInv(k)'
BY DEF SendInv, Calm, StillHeld

\* The keys a pass has deleted, at its start and at each answer.
LEMMA DeletedFacts ==
  /\ \A t, ks : PassOver(t, ks).ok = {} /\ PassOver(t, ks).lease = t
  /\ IdlePass.ok = {}
  /\ \A q \in Pass, k \in Keys :
       /\ Asking(q, k).ok = q.ok /\ Asking(q, k).lease = q.lease
       /\ Answered(q, k).ok = q.ok \cup {k} /\ Answered(q, k).lease = q.lease
       /\ Refused(q, k).ok = q.ok /\ Refused(q, k).lease = q.lease
BY DEF PassOver, IdlePass, Asking, Answered, Refused, Pass

\* The fields of the rows that a transaction writes.
LEMMA RowFields ==
  /\ \A due \in BOOLEAN : /\ PendingRow(due).state = "pending"
                          /\ PendingRow(due).due = due
                          /\ ~ PendingRow(due).parked
  /\ NoRow.state = "none"
  /\ \A r \in Row : DueRow(r).state = r.state /\ DueRow(r).lease = r.lease
  /\ \A r \in Row, t \in Leases : /\ ClaimedRow(r, t).state = "deleting"
                                  /\ ClaimedRow(r, t).lease = t
  /\ \A r \in Row : FailedRow(r).state = r.state /\ FailedRow(r).lease = r.lease
<1>1. ASSUME NEW due \in BOOLEAN
      PROVE  /\ PendingRow(due).state = "pending" /\ PendingRow(due).due = due
             /\ ~ PendingRow(due).parked
  BY DEF PendingRow
<1>2. NoRow.state = "none"
  BY DEF NoRow
<1>3. ASSUME NEW r \in Row
      PROVE  DueRow(r).state = r.state /\ DueRow(r).lease = r.lease
  BY DEF DueRow, Row
<1>4. ASSUME NEW r \in Row, NEW t \in Leases
      PROVE  ClaimedRow(r, t).state = "deleting" /\ ClaimedRow(r, t).lease = t
  BY DEF ClaimedRow, Row
<1>5. ASSUME NEW r \in Row
      PROVE  FailedRow(r).state = r.state /\ FailedRow(r).lease = r.lease
  BY DEF FailedRow, Row
<1> QED BY <1>1, <1>2, <1>3, <1>4, <1>5

\* The facts about one key that every step starts from.
LEMMA KeyTyped ==
  ASSUME OwnershipInv, NEW k \in Keys
  PROVE  /\ k[1] \in Messages /\ row[k] \in Row /\ KeyInv(k) /\ MessageInv(k[1])
         /\ obj \in [Keys -> BOOLEAN] /\ row \in [Keys -> Row]
         /\ wr \in [Messages -> {"idle", "writing", "unsure", "rollback", "over"}]
         /\ own \in [Messages -> {"never", "owned", "retired"}]
         /\ pass \in [Passes -> Pass]
BY KeyFacts DEF OwnershipInv, TypeOK

\* A request: its intent, its enqueue and its end.
LEMMA TrackRequest ==
  ASSUME TrackingInv, ~ SlowWriters, NEW k \in Keys, NEW m \in Messages, Request(m)
  PROVE  SendInv(k)'
<1>1. SendInv(k) /\ OwnershipInv
  BY DEF TrackingInv
<1>2. /\ k[1] \in Messages /\ row[k] \in Row /\ KeyInv(k) /\ MessageInv(k[1])
      /\ obj \in [Keys -> BOOLEAN] /\ row \in [Keys -> Row]
      /\ wr \in [Messages -> {"idle", "writing", "unsure", "rollback", "over"}]
      /\ own \in [Messages -> {"never", "owned", "retired"}]
  BY <1>1, KeyTyped
<1>3. k \in KeysOf(m) <=> k[1] = m
  BY KeyFacts
<1>4. CASE k[1] \notin Sends
  BY <1>4 DEF SendInv
<1>5. CASE k[1] \in Sends
  <2>1. CASE RecordOutboundPromotionIntent(m)
    <3>1. row'[k] = IF k[1] = m /\ row[k].state = "none" THEN PendingRow(FALSE) ELSE row[k]
      BY <2>1, <1>3 DEF RecordOutboundPromotionIntent, Enqueued
    <3>2. UNCHANGED <<obj, own, pass>>
      BY <2>1 DEF RecordOutboundPromotionIntent, bucket
    <3>3. wr' = [wr EXCEPT ![m] = "writing"] /\ wr[m] = "idle"
      BY <2>1 DEF RecordOutboundPromotionIntent
    <3>4. CASE k[1] # m
      BY <1>1, <1>2, <3>1, <3>2, <3>3, <3>4, CalmKeeps DEF Calm
    <3>5. CASE k[1] = m
      <4>1. row[k] = NoRow /\ ~ obj[k]
        BY <1>1, <1>5, <3>3, <3>5 DEF SendInv
      <4>2. row'[k] = PendingRow(FALSE) /\ wr'[k[1]] = "writing" /\ ~ obj'[k]
        BY <1>2, <3>1, <3>2, <3>3, <3>5, <4>1, RowFields
      <4> QED BY <4>2, RowFields DEF SendInv
    <3> QED BY <3>4, <3>5
  <2>2. CASE \E answered \in BOOLEAN : EnqueueCommits(m, answered)
    <3>1. row'[k] = IF k[1] = m /\ row[k].state = "pending" THEN NoRow ELSE row[k]
      BY <2>2, <1>3 DEF EnqueueCommits, Adopted
    <3>2. UNCHANGED <<obj, pass>> /\ own' = [own EXCEPT ![m] = "owned"]
      BY <2>2 DEF EnqueueCommits, bucket
    <3>3. \E v \in {"over", "unsure"} : wr' = [wr EXCEPT ![m] = v]
      BY <2>2 DEF EnqueueCommits
    <3>4. CASE k[1] # m
      BY <1>1, <1>2, <3>1, <3>2, <3>3, <3>4, CalmKeeps DEF Calm
    <3>5. CASE k[1] = m
      <4>1. own'[k[1]] = "owned" /\ wr'[k[1]] \notin {"idle", "writing"}
        BY <1>2, <3>2, <3>3, <3>5
      <4>2. ASSUME NEW p \in Passes, k \in pass'[p].ok, StillHeld(p, k)'
            PROVE  ~ obj'[k]
        BY <1>1, <1>5, <3>1, <3>2, <4>2, RowFields DEF SendInv, StillHeld
      <4> QED BY <4>1, <4>2 DEF SendInv
    <3> QED BY <3>4, <3>5
  <2>3. CASE Retire(m)
    <3>1. row'[k] = IF k[1] = m /\ row[k].state = "none" THEN PendingRow(TRUE) ELSE row[k]
      BY <2>3, <1>3 DEF Retire, Enqueued
    <3>2. UNCHANGED <<obj, pass, wr>> /\ own' = [own EXCEPT ![m] = "retired"]
          /\ own[m] = "owned"
      BY <2>3 DEF Retire, bucket
    <3>4. CASE k[1] # m
      BY <1>1, <1>2, <3>1, <3>2, <3>4, CalmKeeps DEF Calm
    <3>5. CASE k[1] = m
      <4>1. wr[m] \notin {"idle", "writing"} /\ row'[k].state # "none"
        BY <1>2, <3>1, <3>2, <3>5, RowFields DEF MessageInv
      <4>2. ASSUME NEW p \in Passes, k \in pass'[p].ok, StillHeld(p, k)'
            PROVE  ~ obj'[k]
        BY <1>1, <1>5, <3>1, <3>2, <4>2, RowFields DEF SendInv, StillHeld
      <4> QED BY <3>2, <3>5, <4>1, <4>2 DEF SendInv
    <3> QED BY <3>4, <3>5
  <2>4. CASE Project(m) \/ ProjectRefused(m)
             \/ \E ks \in SUBSET KeysOf(m) :
                  EnqueueUnownedInboundDerivedContentCleanup(m, ks)
    <3>1. k[1] # m
      BY <2>4, <1>5, R2Assumption
         DEF Project, ProjectRefused, EnqueueUnownedInboundDerivedContentCleanup
    <3>2. row'[k] = row[k]
      BY <2>4, <1>3, <3>1
         DEF Project, ProjectRefused, EnqueueUnownedInboundDerivedContentCleanup,
             Adopted, Enqueued
    <3>3. UNCHANGED <<obj, pass>> /\ own'[k[1]] = own[k[1]] /\ wr'[k[1]] = wr[k[1]]
      BY <2>4, <1>2, <3>1
         DEF Project, ProjectRefused, EnqueueUnownedInboundDerivedContentCleanup, bucket
    <3> QED BY <1>1, <3>2, <3>3, CalmKeeps DEF Calm
  <2>5. CASE StartProjection(m)
    <3>1. k[1] # m
      BY <2>5, <1>5, R2Assumption DEF StartProjection
    <3> QED BY <1>1, <1>2, <2>5, <3>1, CalmKeeps DEF Calm, StartProjection, bucket, ledger
  <2>6. CASE GiveUp(m) \/ EnqueueFails(m) \/ EnqueueReplayed(m)
             \/ ReconcileAmbiguousOutboundEnqueue(m) \/ WriterStops(m)
    <3>1. UNCHANGED <<obj, row, own, pass>>
      BY <2>6 DEF GiveUp, EnqueueFails, EnqueueReplayed,
                  ReconcileAmbiguousOutboundEnqueue, WriterStops, bucket, ledger
    <3>2. \E v \in {"rollback", "unsure", "over"} : wr' = [wr EXCEPT ![m] = v]
      BY <2>6 DEF GiveUp, EnqueueFails, EnqueueReplayed,
                  ReconcileAmbiguousOutboundEnqueue, WriterStops
    <3> QED BY <1>1, <1>2, <3>1, <3>2, CalmKeeps DEF Calm
  <2>7. CASE RollbackDeletes(m) \/ \E gone \in SUBSET KeysOf(m) : RollbackQueues(m, gone)
    <3>1. UNCHANGED <<row, own, pass>> /\ (obj'[k] => obj[k])
      BY <2>7 DEF RollbackDeletes, RollbackQueues, ledger
    <3>2. wr' = [wr EXCEPT ![m] = "over"]
      BY <2>7 DEF RollbackDeletes, RollbackQueues
    <3> QED BY <1>1, <1>2, <3>1, <3>2, CalmKeeps DEF Calm
  <2> QED BY <2>1, <2>2, <2>3, <2>4, <2>5, <2>6, <2>7 DEF Request
<1> QED BY <1>4, <1>5

\* An object: its put, its cleanup, the clock of its row and a repair.
LEMMA TrackObject ==
  ASSUME TrackingInv, ~ SlowWriters, NEW k \in Keys, NEW key \in Keys, Object(key)
  PROVE  SendInv(k)'
<1>1. SendInv(k) /\ OwnershipInv
  BY DEF TrackingInv
<1>2. /\ k[1] \in Messages /\ row[k] \in Row
      /\ obj \in [Keys -> BOOLEAN] /\ row \in [Keys -> Row]
  BY <1>1, KeyTyped
<1>3. CASE k[1] \notin Sends
  BY <1>3 DEF SendInv
<1>4. CASE k[1] \in Sends
  <2>1. CASE PutObject(key)
    <3>1. UNCHANGED <<row, own, wr, pass>> /\ obj' = [obj EXCEPT ![key] = TRUE]
          /\ wr[key[1]] = "writing"
      BY <2>1 DEF PutObject, ledger
    <3>2. CASE k # key
      BY <1>1, <1>2, <3>1, <3>2, CalmKeeps DEF Calm
    <3>3. CASE k = key
      <4>1. row[k].state = "pending" /\ ~ row[k].due /\ ~ row[k].parked
        BY <1>1, <1>4, <3>1, <3>3 DEF SendInv
      <4> QED BY <3>1, <3>3, <4>1 DEF SendInv, StillHeld
    <3> QED BY <3>2, <3>3
  <2>2. CASE CleanupSucceeds(key) \/ CleanupFails(key)
             \/ RepairParkedAttachmentCleanupJob(key)
    <3>1. UNCHANGED <<row, own, wr, pass>>
      BY <2>2 DEF CleanupSucceeds, CleanupFails, RepairParkedAttachmentCleanupJob,
                  ledger, bucket
    <3>2. obj'[k] => obj[k]
      BY <1>2, <2>2 DEF CleanupSucceeds, CleanupFails, RepairParkedAttachmentCleanupJob,
                        bucket
    <3> QED BY <1>1, <3>1, <3>2, CalmKeeps DEF Calm
  <2>3. CASE RowDue(key)
    <3>1. UNCHANGED <<obj, own, wr, pass>> /\ row' = [row EXCEPT ![key] = DueRow(row[key])]
          /\ row[key].state # "none"
      BY <2>3 DEF RowDue, bucket
    <3>2. row[key].state = "pending" => wr[key[1]] # "writing"
      BY <2>3 DEF RowDue, Live
    <3>3. CASE k # key
      BY <1>1, <1>2, <3>1, <3>3, CalmKeeps DEF Calm
    <3>4. CASE k = key
      <4>1. row'[k].state = row[k].state /\ row'[k].lease = row[k].lease
        BY <1>2, <3>1, <3>4, RowFields
      <4>2. wr[k[1]] # "idle" /\ wr[k[1]] # "writing"
        BY <1>1, <1>4, <3>1, <3>2, <3>4, RowFields DEF SendInv
      <4> QED BY <1>1, <1>4, <3>1, <4>1, <4>2 DEF SendInv, StillHeld
    <3> QED BY <3>3, <3>4
  <2>4. CASE RepairParkedR2Deletion(key)
    <3>1. UNCHANGED <<obj, own, wr, pass>> /\ row' = [row EXCEPT ![key] = PendingRow(TRUE)]
          /\ row[key].parked
      BY <2>4 DEF RepairParkedR2Deletion, bucket, writers
    <3>2. CASE k # key
      BY <1>1, <1>2, <3>1, <3>2, CalmKeeps DEF Calm
    <3>3. CASE k = key
      <4>1. row'[k].state = "pending"
        BY <1>2, <3>1, <3>3, RowFields
      <4>2. wr[k[1]] # "idle" /\ wr[k[1]] # "writing"
        BY <1>1, <1>4, <3>1, <3>3 DEF SendInv, NoRow
      <4> QED BY <3>1, <4>1, <4>2 DEF SendInv, StillHeld
    <3> QED BY <3>2, <3>3
  <2> QED BY <2>1, <2>2, <2>3, <2>4 DEF Object
<1> QED BY <1>3, <1>4

\* A claim leaves the keys of a request at work alone, and no pass before it
\* holds its lease.
LEMMA TrackClaim ==
  ASSUME TrackingInv, NEW k \in Keys, k[1] \in Sends, NEW p \in Passes,
         NEW taken \in SUBSET Claimable, NEW expired \in SUBSET attFence,
         ClaimDue(p, taken, expired)
  PROVE  SendInv(k)'
<1> DEFINE t == CHOOSE u \in Leases : Fresh(u)
           due == taken \ OwnedKeys
<1>1. SendInv(k) /\ OwnershipInv
  BY DEF TrackingInv
<1>2. /\ k[1] \in Messages /\ row[k] \in Row /\ pass \in [Passes -> Pass]
  BY <1>1, KeyTyped
<1>3. row'[k] = IF k \in due THEN ClaimedRow(row[k], t)
                ELSE IF k \in taken THEN NoRow ELSE row[k]
  BY DEF ClaimDue
<1>4. pass' = [pass EXCEPT ![p] = IF due = {} THEN IdlePass ELSE PassOver(t, due)]
  BY DEF ClaimDue
<1>5. UNCHANGED <<obj, own, wr>>
  BY DEF ClaimDue, bucket, writers
<1>6. t \in Leases /\ Fresh(t)
  BY DEF ClaimDue
<1>7. k \in taken => row[k].due /\ row[k].state # "none"
  BY DEF Claimable
<1>8. k \in taken /\ k \notin due => own[k[1]] = "owned"
  BY DEF OwnedKeys
<1> HIDE DEF t, due
<1>9. ASSUME NEW q \in Passes, k \in pass'[q].ok
      PROVE  q # p /\ pass'[q] = pass[q]
  BY <1>2, <1>4, <1>9, DeletedFacts
<1>10. CASE k \notin taken
  <2>1. due \subseteq taken
    BY DEF due
  <2> QED BY <1>1, <1>3, <1>5, <1>9, <1>10, <2>1, CalmKeeps DEF Calm
<1>11. CASE k \in taken
  <2>1. wr[k[1]] # "idle" /\ wr[k[1]] # "writing"
    BY <1>1, <1>7, <1>11, RowFields DEF SendInv
  <2>2. own[k[1]] = "owned" \/ row'[k].state # "none"
    BY <1>2, <1>3, <1>6, <1>8, <1>11, RowFields
  <2>3. ASSUME NEW q \in Passes, k \in pass'[q].ok
        PROVE  ~ StillHeld(q, k)'
    <3>1. pass'[q] = pass[q] /\ pass[q].lease # t
      BY <1>6, <1>9, <2>3 DEF Fresh
    <3>2. row'[k].state = "deleting" => row'[k].lease = t
      BY <1>2, <1>3, <1>6, <1>11, RowFields
    <3> QED BY <3>1, <3>2 DEF StillHeld
  <2> QED BY <1>5, <2>1, <2>2, <2>3 DEF SendInv
<1> QED BY <1>10, <1>11

\* A row is withdrawn only for an object that its pass has deleted.
LEMMA TrackRecord ==
  ASSUME TrackingInv, NEW k \in Keys, k[1] \in Sends, NEW p \in Passes,
         RecordOutcomes(p)
  PROVE  SendInv(k)'
<1>1. SendInv(k) /\ OwnershipInv
  BY DEF TrackingInv
<1>2. row[k] \in Row /\ pass \in [Passes -> Pass]
  BY <1>1, KeyTyped
<1>3. row'[k] = IF k \in pass[p].ok /\ StillHeld(p, k) THEN NoRow
                ELSE IF k \in pass[p].bad /\ StillHeld(p, k) THEN FailedRow(row[k])
                ELSE row[k]
  BY DEF RecordOutcomes
<1>4. UNCHANGED <<obj, own, wr>> /\ pass' = [pass EXCEPT ![p] = IdlePass]
  BY DEF RecordOutcomes, bucket, writers
<1>5. ASSUME NEW q \in Passes, k \in pass'[q].ok
      PROVE  k \in pass[q].ok /\ pass'[q] = pass[q]
  BY <1>2, <1>4, <1>5, DeletedFacts
<1>6. CASE ~ StillHeld(p, k)
  BY <1>1, <1>3, <1>4, <1>5, <1>6, CalmKeeps DEF Calm
<1>7. CASE StillHeld(p, k)
  <2>1. wr[k[1]] # "idle" /\ wr[k[1]] # "writing"
    BY <1>1, <1>7, RowFields DEF SendInv, StillHeld
  <2>2. CASE k \in pass[p].ok
    <3>1. ~ obj[k]
      BY <1>1, <1>7, <2>2 DEF SendInv
    <3> QED BY <1>4, <2>1, <3>1 DEF SendInv
  <2>3. CASE k \notin pass[p].ok
    <3>1. row'[k].state = row[k].state /\ row'[k].lease = row[k].lease
      BY <1>2, <1>3, <2>3, RowFields
    <3>2. row[k].state = "deleting"
      BY <1>7 DEF StillHeld
    <3>3. ASSUME NEW q \in Passes, k \in pass'[q].ok, StillHeld(q, k)'
          PROVE  ~ obj'[k]
      BY <1>1, <1>4, <1>5, <3>1, <3>3 DEF SendInv, StillHeld
    <3> QED BY <1>4, <2>1, <3>1, <3>2, <3>3 DEF SendInv
  <2> QED BY <2>2, <2>3
<1> QED BY <1>6, <1>7

\* The calls of a pass, and its end.
LEMMA TrackPass ==
  ASSUME TrackingInv, NEW k \in Keys, NEW p \in Passes, DeletionPass(p)
  PROVE  SendInv(k)'
<1>1. SendInv(k) /\ OwnershipInv
  BY DEF TrackingInv
<1>2. obj \in [Keys -> BOOLEAN] /\ pass \in [Passes -> Pass]
  BY <1>1, KeyTyped
<1>3. CASE k[1] \notin Sends
  BY <1>3 DEF SendInv
<1>4. ASSUME NEW key \in Keys, AskDelete(p, key)
      PROVE  SendInv(k)'
  <2>1. UNCHANGED <<obj, row, own, wr>> /\ pass' = [pass EXCEPT ![p] = Asking(pass[p], key)]
    BY <1>4 DEF AskDelete, ledger, writers
  <2>2. ASSUME NEW q \in Passes, k \in pass'[q].ok
        PROVE  k \in pass[q].ok /\ pass'[q].lease = pass[q].lease
    BY <1>2, <1>4, <2>1, <2>2, DeletedFacts
  <2> QED BY <1>1, <2>1, <2>2, CalmKeeps DEF Calm
<1>5. ASSUME NEW key \in Keys, DeleteSucceeds(p, key)
      PROVE  SendInv(k)'
  <2>1. UNCHANGED <<row, own, wr>> /\ pass' = [pass EXCEPT ![p] = Answered(pass[p], key)]
        /\ obj' = [obj EXCEPT ![key] = FALSE]
    BY <1>5 DEF DeleteSucceeds, ledger, writers
  <2>2. ASSUME NEW q \in Passes, k \in pass'[q].ok, obj'[k]
        PROVE  k \in pass[q].ok /\ pass'[q].lease = pass[q].lease
    BY <1>2, <1>5, <2>1, <2>2, DeletedFacts
  <2> QED BY <1>1, <1>2, <2>1, <2>2, CalmKeeps DEF Calm
<1>6. ASSUME NEW key \in Keys, DeleteFails(p, key)
      PROVE  SendInv(k)'
  <2>1. UNCHANGED <<obj, row, own, wr>> /\ pass' = [pass EXCEPT ![p] = Refused(pass[p], key)]
    BY <1>6 DEF DeleteFails, bucket, ledger, writers
  <2>2. ASSUME NEW q \in Passes, k \in pass'[q].ok
        PROVE  k \in pass[q].ok /\ pass'[q].lease = pass[q].lease
    BY <1>2, <1>6, <2>1, <2>2, DeletedFacts
  <2> QED BY <1>1, <2>1, <2>2, CalmKeeps DEF Calm
<1>7. CASE PassStops(p)
  <2>1. UNCHANGED <<obj, row, own, wr>> /\ pass' = [pass EXCEPT ![p] = IdlePass]
    BY <1>7 DEF PassStops, bucket, ledger, writers
  <2>2. ASSUME NEW q \in Passes, k \in pass'[q].ok
        PROVE  k \in pass[q].ok /\ pass'[q].lease = pass[q].lease
    BY <1>2, <2>1, <2>2, DeletedFacts
  <2> QED BY <1>1, <2>1, <2>2, CalmKeeps DEF Calm
<1> QED BY <1>3, <1>4, <1>5, <1>6, <1>7, TrackClaim, TrackRecord DEF DeletionPass

\* A late deletion only removes.
LEMMA TrackR2 ==
  ASSUME TrackingInv, NEW k \in Keys, NEW r \in inflight, R2Deletes(r)
  PROVE  SendInv(k)'
<1>1. SendInv(k) /\ obj \in [Keys -> BOOLEAN]
  BY KeyTyped DEF TrackingInv
<1>2. UNCHANGED <<row, own, wr, pass>> /\ (obj'[k] => obj[k])
  BY <1>1 DEF R2Deletes, ledger, writers
<1> QED BY <1>1, <1>2, CalmKeeps DEF Calm

\* Initially no key has an object or a row, and every step keeps the sends'
\* keys tracked.
LEMMA TrackingKept ==
  ASSUME ~ SlowWriters
  PROVE  (Init => TrackingInv) /\ (TrackingInv /\ [Next]_vars => TrackingInv')
<1>1. Init => TrackingInv
  <2> SUFFICES ASSUME Init PROVE TrackingInv
    OBVIOUS
  <2>1. ASSUME NEW k \in Keys PROVE SendInv(k)
    BY KeyFacts, DeletedFacts DEF Init, SendInv
  <2> QED BY <2>1, InitKeeps DEF TrackingInv
<1>2. TrackingInv /\ [Next]_vars => TrackingInv'
  <2> SUFFICES ASSUME TrackingInv, [Next]_vars PROVE TrackingInv'
    OBVIOUS
  <2>1. OwnershipInv'
    BY StepKeeps DEF TrackingInv
  <2>2. ASSUME NEW k \in Keys PROVE SendInv(k)'
    <3>1. CASE UNCHANGED vars
      BY <2>2, <3>1 DEF TrackingInv, SendInv, StillHeld, vars
    <3> QED BY <2>2, <3>1, TrackRequest, TrackObject, TrackPass, TrackR2 DEF Next
  <2> QED BY <2>1, <2>2 DEF TrackingInv
<1> QED BY <1>1, <1>2

\* While no request outlives its promotion intent, an object written for a
\* send is owned or on its way to deletion, for any number of messages,
\* objects, passes and leases, wherever its request dies.
THEOREM SendObjectsAreTracked ==
  ASSUME ~ SlowWriters
  PROVE  Spec => []NothingIsForgotten
<1>1. TrackingInv => NothingIsForgotten
  BY DEF TrackingInv, SendInv, NothingIsForgotten
<1>2. (Init => TrackingInv) /\ (TrackingInv /\ [Next]_vars => TrackingInv')
  BY TrackingKept
<1> QED BY <1>1, <1>2, PTL DEF Spec

-----------------------------------------------------------------------------
(* Automation rules: induction, and the plan of a run                      *)

\* The least element of a set of numbers: what inductions over data rest on.
LEMMA LeastOf ==
  ASSUME NEW T \in SUBSET Nat, T # {}
  PROVE  \E n \in T : \A m \in T : n <= m
<1> DEFINE R == OpToRel(<, Nat)
<1>1. IsWellFoundedOn(R, Nat)
  BY NatLessThanWellFounded
<1>2. R = {s \in Nat \X Nat : s[1] < s[2]}
  BY DEF OpToRel
<1> HIDE DEF R
<1>3. PICK n \in T : \A m \in T : ~ (<<m, n>> \in R)
  BY <1>1, WFMin
<1>4. ASSUME NEW m \in T PROVE n <= m
  <2>1. m \in Nat /\ n \in Nat /\ <<m, n>> \in Nat \X Nat
    OBVIOUS
  <2>2. <<m, n>> \in R <=> m < n
    BY <1>2, <2>1
  <2> QED BY <1>3, <2>1, <2>2
<1> QED BY <1>4

\* What holds of 0 and, of a number below n, also of its successor, holds of n.
LEMMA UpTo ==
  ASSUME NEW n \in Nat, NEW S, 0 \in S, \A i \in 1..n : i - 1 \in S => i \in S
  PROVE  0..n \subseteq S
<1> DEFINE T == {i \in 0..n : i \notin S}
<1>1. CASE T # {}
  <2>1. PICK i \in T : \A j \in T : i <= j
    <3>1. T \in SUBSET Nat
      OBVIOUS
    <3> HIDE DEF T
    <3> QED BY <1>1, <3>1, LeastOf
  <2>2. i \in 1..n /\ i - 1 \in 0..n
    BY <2>1
  <2>3. i - 1 \in S
    BY <2>1, <2>2
  <2> QED BY <2>1, <2>2, <2>3
<1> QED BY <1>1

Plans == [matched : BOOLEAN, skips : BOOLEAN, stopped : BOOLEAN, labels : SUBSET Labels,
          move : Folders \cup {NoFolder}]

\* The plan after each of the first k rules.
Planned(m, ds, k, f) ==
  /\ f = [i \in 0..k |-> f[i]] /\ f[0] = NoPlan
  /\ \A i \in 1..k : f[i] = Considers(m, f[i - 1], ds[i])

\* There are these plans, and the last of them is the run's.
LEMMA PlanIs ==
  ASSUME NEW m, NEW ds \in Seq(Definitions)
  PROVE  \E f : Planned(m, ds, Len(ds), f) /\ Plan(m, ds) = f[Len(ds)]
<1> DEFINE n == Len(ds)
           Then(g) == [i \in 0..n |-> IF i = 0 THEN NoPlan ELSE Considers(m, g[i - 1], ds[i])]
           S == {k \in Nat : \E f : Planned(m, ds, k, f)}
<1>1. n \in Nat
  OBVIOUS
<1>2. 0 \in S
  <2>1. Planned(m, ds, 0, [i \in 0..0 |-> NoPlan])
    BY DEF Planned
  <2> QED BY <2>1
<1>3. ASSUME NEW k \in 1..n, k - 1 \in S PROVE k \in S
  <2>1. PICK f : Planned(m, ds, k - 1, f)
    BY <1>3
  <2> DEFINE g == [i \in 0..k |-> IF i = k THEN Considers(m, f[k - 1], ds[k]) ELSE f[i]]
  <2>2. g = [i \in 0..k |-> g[i]] /\ g[0] = NoPlan
    BY <1>1, <2>1 DEF Planned
  <2>3. ASSUME NEW i \in 1..k PROVE g[i] = Considers(m, g[i - 1], ds[i])
    <3>1. i \in 0..k /\ i - 1 \in 0..k /\ i - 1 # k
      BY <1>1
    <3>2. g[i - 1] = f[i - 1]
      BY <3>1
    <3>3. CASE i = k
      BY <3>1, <3>2, <3>3
    <3>4. CASE i # k
      <4>1. i \in 1..(k - 1)
        BY <1>1, <3>4
      <4>2. f[i] = Considers(m, f[i - 1], ds[i])
        BY <2>1, <4>1 DEF Planned
      <4> QED BY <3>1, <3>2, <3>4, <4>2
    <3> QED BY <3>3, <3>4
  <2> HIDE DEF g
  <2>4. Planned(m, ds, k, g)
    BY <2>2, <2>3 DEF Planned
  <2> QED BY <1>1, <2>4
<1>4. n \in S
  <2>1. 0..n \subseteq S
    <3> HIDE DEF S, n
    <3> QED BY <1>1, <1>2, <1>3, UpTo
  <2> QED BY <1>1, <2>1
<1>5. PICK f : Planned(m, ds, n, f)
  BY <1>4
<1>6. f = Then(f)
  <2>1. \A i \in 0..n : f[i] = Then(f)[i]
    <3> SUFFICES ASSUME NEW i \in 0..n PROVE f[i] = Then(f)[i]
      OBVIOUS
    <3>1. CASE i = 0
      BY <1>5, <3>1 DEF Planned
    <3>2. CASE i # 0
      <4>1. i \in 1..n
        BY <1>1, <3>2
      <4> QED BY <1>5, <4>1, <3>2 DEF Planned
    <3> QED BY <3>1, <3>2
  <2>2. f = [i \in 0..n |-> f[i]]
    BY <1>5 DEF Planned
  <2> QED BY <2>1, <2>2
<1> DEFINE g == CHOOSE h : h = Then(h)
<1>7. g = Then(g)
  <2> HIDE DEF Then
  <2> QED BY <1>6
<1>8. Planned(m, ds, n, g)
  <2>1. g = [i \in 0..n |-> IF i = 0 THEN NoPlan ELSE Considers(m, g[i - 1], ds[i])]
    BY <1>7
  <2> HIDE DEF g, Next
  <2>2. \A i \in 0..n : g[i] = IF i = 0 THEN NoPlan ELSE Considers(m, g[i - 1], ds[i])
    BY <2>1
  <2>3. g = [i \in 0..n |-> g[i]]
    BY <2>1
  <2> HIDE DEF n
  <2>4. \A i \in 1..n : i \in 0..n /\ i # 0
    BY <1>1
  <2> QED BY <1>1, <2>2, <2>3, <2>4 DEF Planned
<1>9. Plan(m, ds) = g[n]
  BY DEF Plan
<1> QED BY <1>8, <1>9

\* Of the first k rules, those that match, those of them that act, and those of
\* them that move the message.
Hits(m, ds, k) == {i \in 1..k : m \in ds[i].hits}
Acting(m, ds, k) == {i \in Hits(m, ds, k) : \A j \in Hits(m, ds, k) : j < i => ~ds[j].stop}
Moving(m, ds, k) == {i \in Acting(m, ds, k) : ds[i].move # NoFolder}

\* The next rule acts if it matches and no matching rule before it stops; those
\* before it act as they did.
LEMMA ActingGrows ==
  ASSUME NEW m, NEW ds, NEW k \in Nat \ {0}
  PROVE  /\ Hits(m, ds, k) = Hits(m, ds, k - 1) \cup (IF m \in ds[k].hits THEN {k} ELSE {})
         /\ Acting(m, ds, k) = Acting(m, ds, k - 1) \cup
              (IF m \in ds[k].hits /\ \A j \in Hits(m, ds, k - 1) : ~ds[j].stop THEN {k} ELSE {})
         /\ \A i \in Hits(m, ds, k - 1) : i \in Nat /\ i < k
<1>1. 1..k = 1..(k - 1) \cup {k} /\ \A i \in 1..(k - 1) : i < k /\ i \in Nat
  OBVIOUS
<1>2. Hits(m, ds, k) = Hits(m, ds, k - 1) \cup (IF m \in ds[k].hits THEN {k} ELSE {})
  BY <1>1 DEF Hits
<1>3. \A i \in Hits(m, ds, k - 1) : i \in Nat /\ i < k
  BY <1>1 DEF Hits
<1>4. \A i \in Hits(m, ds, k - 1) : i \in Acting(m, ds, k) <=> i \in Acting(m, ds, k - 1)
  BY <1>2, <1>3 DEF Acting
<1>5. k \in Acting(m, ds, k) <=>
        m \in ds[k].hits /\ \A j \in Hits(m, ds, k - 1) : ~ds[j].stop
  BY <1>2, <1>3 DEF Acting
<1>6. /\ Acting(m, ds, k) \subseteq Hits(m, ds, k)
      /\ Acting(m, ds, k - 1) \subseteq Hits(m, ds, k - 1)
  BY DEF Acting
<1> QED BY <1>2, <1>3, <1>4, <1>5, <1>6

\* What the plan says after the first k rules, x.
Says(m, ds, k, x) ==
  /\ x \in Plans
  /\ x.matched <=> Hits(m, ds, k) # {}
  /\ x.stopped => x.matched
  /\ m \notin InInbox => (x.matched => x.skips)
  /\ m \in InInbox =>
       /\ x.stopped <=> \E i \in Hits(m, ds, k) : ds[i].stop
       /\ x.labels = UNION {ds[i].labels : i \in Acting(m, ds, k)}
       /\ x.move = NoFolder <=> Moving(m, ds, k) = {}
       /\ \A i \in Moving(m, ds, k) :
            (\A j \in Moving(m, ds, k) : i <= j) => x.move = ds[i].move
       /\ ~x.skips => \A i \in Moving(m, ds, k) : ds[i].move = x.move

\* A plan of no rules says what it should.
LEMMA SaysFirst == ASSUME NEW m, NEW ds PROVE Says(m, ds, 0, NoPlan)
<1>1. Hits(m, ds, 0) = {}
  BY DEF Hits
<1>2. Acting(m, ds, 0) = {} /\ Moving(m, ds, 0) = {}
  BY <1>1 DEF Acting, Moving
<1> QED BY <1>1, <1>2 DEF Says, NoPlan, Plans

\* One rule more.
LEMMA SaysNext ==
  ASSUME NEW m, NEW ds, NEW k \in Nat \ {0}, NEW x, Says(m, ds, k - 1, x),
         ds[k] \in Definitions, TargetsOf(ds[k]) \subseteq exists
  PROVE  Says(m, ds, k, Considers(m, x, ds[k]))
<1> DEFINE d == ds[k]
           y == Considers(m, x, d)
           H == Hits(m, ds, k - 1)
           A == Acting(m, ds, k - 1)
           M == Moving(m, ds, k - 1)
<1>1. /\ Hits(m, ds, k) = H \cup (IF m \in d.hits THEN {k} ELSE {})
      /\ Acting(m, ds, k) = A \cup (IF m \in d.hits /\ \A j \in H : ~ds[j].stop THEN {k} ELSE {})
      /\ \A i \in H : i \in Nat /\ i < k
  BY ActingGrows
<1>2. d.labels \in SUBSET Labels /\ d.move \in Folders \cup {NoFolder} /\ d.stop \in BOOLEAN
  BY RulesAssumption
<1>3. /\ x \in Plans /\ (x.matched <=> H # {}) /\ (x.stopped => x.matched)
      /\ m \notin InInbox => (x.matched => x.skips)
      /\ m \in InInbox =>
           /\ x.stopped <=> \E i \in H : ds[i].stop
           /\ x.labels = UNION {ds[i].labels : i \in A}
           /\ x.move = NoFolder <=> M = {}
           /\ \A i \in M : (\A j \in M : i <= j) => x.move = ds[i].move
           /\ ~x.skips => \A i \in M : ds[i].move = x.move
  BY DEF Says
<1>4. A \subseteq H /\ M \subseteq A /\ \A i \in A : i \in M <=> ds[i].move # NoFolder
  BY DEF Acting, Moving
<1>5. \A i \in M : i \in Nat /\ i < k
  BY <1>1, <1>4
<1> HIDE DEF y, H, A, M
<1>6. CASE m \notin d.hits
  <2>1. y = x
    BY <1>6 DEF y, Considers
  <2>2. /\ Hits(m, ds, k) = H /\ Acting(m, ds, k) = A
    BY <1>1, <1>6
  <2>3. Moving(m, ds, k) = M
    BY <2>2 DEF Moving, M, A
  <2> QED BY <1>3, <2>1, <2>2, <2>3 DEF Says, y
<1>7. CASE m \in d.hits /\ x.stopped
  <2>1. y = x
    BY <1>7 DEF y, Considers
  <2>2. Hits(m, ds, k) = H \cup {k}
    BY <1>1, <1>7
  <2>3. x.matched
    BY <1>3, <1>7
  <2>4. CASE m \notin InInbox
    BY <1>3, <2>1, <2>2, <2>3, <2>4 DEF Says, y
  <2>5. CASE m \in InInbox
    <3>1. \E i \in H : ds[i].stop
      BY <1>3, <1>7, <2>5
    <3>2. Acting(m, ds, k) = A
      BY <1>1, <3>1
    <3>3. Moving(m, ds, k) = M
      BY <3>2 DEF Moving, M, A
    <3> QED BY <1>3, <1>7, <2>1, <2>2, <2>3, <2>5, <3>1, <3>2, <3>3 DEF Says, y
  <2> QED BY <2>4, <2>5
<1>8. CASE m \in d.hits /\ ~x.stopped /\ m \notin InInbox
  <2>1. y = [[x EXCEPT !.matched = TRUE] EXCEPT !.skips = TRUE, !.stopped = d.stop]
    BY <1>8 DEF y, Considers
  <2>2. y \in Plans /\ y.matched = TRUE /\ y.skips = TRUE
    BY <1>2, <1>3, <2>1 DEF Plans
  <2>3. Hits(m, ds, k) # {}
    BY <1>1, <1>8
  <2> QED BY <1>8, <2>2, <2>3 DEF Says, y
<1>9. CASE m \in d.hits /\ ~x.stopped /\ m \in InInbox
  <2> DEFINE conflict == x.move # NoFolder /\ d.move \notin {NoFolder, x.move}
             move == IF x.move = NoFolder THEN d.move ELSE x.move
  <2>1. y = [[x EXCEPT !.matched = TRUE]
               EXCEPT !.labels = @ \cup d.labels, !.move = move,
                      !.skips = @ \/ conflict, !.stopped = d.stop]
    BY <1>9 DEF y, Considers, FirstMove
  <2>2. conflict \in BOOLEAN /\ move \in Folders \cup {NoFolder}
    BY <1>2, <1>3 DEF Plans
  <2> HIDE DEF conflict, move
  <2>3. /\ y \in Plans /\ y.matched = TRUE /\ y.labels = x.labels \cup d.labels
        /\ y.move = move /\ y.skips = (x.skips \/ conflict) /\ y.stopped = d.stop
    BY <1>2, <1>3, <2>1, <2>2 DEF Plans
  <2>4. \A i \in H : ~ds[i].stop
    BY <1>3, <1>9
  <2>5. Hits(m, ds, k) = H \cup {k} /\ Acting(m, ds, k) = A \cup {k}
    BY <1>1, <1>9, <2>4
  <2>6. Moving(m, ds, k) = M \cup (IF d.move # NoFolder THEN {k} ELSE {})
    BY <1>4, <2>5 DEF Moving
  <2>7. y.stopped <=> \E i \in Hits(m, ds, k) : ds[i].stop
    BY <2>3, <2>4, <2>5
  <2>8. y.labels = UNION {ds[i].labels : i \in Acting(m, ds, k)}
    BY <1>3, <1>9, <2>3, <2>5
  <2>9. y.move = NoFolder <=> Moving(m, ds, k) = {}
    BY <1>3, <1>9, <2>3, <2>6 DEF move
  <2>10. ASSUME NEW i \in Moving(m, ds, k), \A j \in Moving(m, ds, k) : i <= j
         PROVE  y.move = ds[i].move
    <3>1. CASE M = {}
      <4>1. x.move = NoFolder /\ i = k
        BY <1>3, <1>9, <2>6, <3>1
      <4> QED BY <2>3, <4>1 DEF move
    <3>2. CASE M # {}
      <4>1. PICK j \in M : TRUE
        BY <3>2
      <4>2. i # k
        BY <1>5, <2>6, <2>10, <4>1
      <4>3. i \in M /\ \A l \in M : i <= l
        BY <2>6, <2>10, <4>2
      <4>4. x.move = ds[i].move /\ x.move # NoFolder
        BY <1>3, <1>9, <3>2, <4>3
      <4> QED BY <2>3, <4>4 DEF move
    <3> QED BY <3>1, <3>2
  <2>11. ASSUME ~y.skips, NEW i \in Moving(m, ds, k) PROVE ds[i].move = y.move
    <3>1. ~x.skips /\ ~conflict
      BY <2>3, <2>11
    <3>2. CASE i = k
      BY <2>3, <2>6, <3>1, <3>2, <1>3, <1>9, <2>11, <1>5 DEF conflict, move
    <3>3. CASE i # k
      <4>1. i \in M
        BY <2>6, <3>3
      <4>2. ds[i].move = x.move /\ x.move # NoFolder
        BY <1>3, <1>9, <3>1, <4>1
      <4> QED BY <2>3, <4>2 DEF move
    <3> QED BY <3>2, <3>3
  <2>12. Hits(m, ds, k) # {}
    BY <2>5
  <2> QED BY <1>9, <2>3, <2>7, <2>8, <2>9, <2>10, <2>11, <2>12 DEF Says, y
<1> QED BY <1>6, <1>7, <1>8, <1>9

\* The plan of a run whose targets exist.
LEMMA PlanSays ==
  ASSUME NEW m, NEW ds \in Seq(Definitions),
         \A i \in DOMAIN ds : TargetsOf(ds[i]) \subseteq exists
  PROVE  Says(m, ds, Len(ds), Plan(m, ds))
<1> DEFINE n == Len(ds)
<1>1. n \in Nat /\ \A i \in 1..n : ds[i] \in Definitions /\ TargetsOf(ds[i]) \subseteq exists
  OBVIOUS
<1>2. PICK f : Planned(m, ds, n, f) /\ Plan(m, ds) = f[n]
  BY PlanIs
<1> HIDE DEF n
<1> DEFINE S == {k \in 0..n : Says(m, ds, k, f[k])}
<1>3. 0 \in S
  BY <1>1, <1>2, SaysFirst DEF Planned
<1>4. ASSUME NEW k \in 1..n, k - 1 \in S PROVE k \in S
  <2>1. k \in Nat \ {0} /\ k \in 0..n
    BY <1>1
  <2>2. Says(m, ds, k - 1, f[k - 1]) /\ f[k] = Considers(m, f[k - 1], ds[k])
    BY <1>2, <1>4 DEF Planned
  <2>3. Says(m, ds, k, f[k])
    BY <1>1, <2>1, <2>2, SaysNext
  <2> QED BY <2>1, <2>3
<1>5. 0..n \subseteq S
  <2> HIDE DEF S
  <2> QED BY <1>1, <1>3, <1>4, UpTo
<1>6. n \in 0..n
  BY <1>1
<1> QED BY <1>2, <1>5, <1>6 DEF n

\* It is what the rules of the run ask for.
LEMMA PlanIsOrderly ==
  ASSUME NEW m \in Mails, NEW ds \in Seq(Definitions),
         \A i \in DOMAIN ds : TargetsOf(ds[i]) \subseteq exists
  PROVE  LET hits == {i \in DOMAIN ds : m \in ds[i].hits}
             acting == {i \in hits : \A j \in hits : j < i => ~ds[j].stop}
             moves == {i \in acting : ds[i].move # NoFolder}
             plan == Plan(m, ds)
             then == After(m, plan)[m]
         IN /\ Outcome(plan) = "no_match" <=> hits = {}
            /\ m \in InInbox =>
                 /\ then.labels = box[m].labels \cup UNION {ds[i].labels : i \in acting}
                 /\ then.folder = IF moves = {} THEN "inbox" ELSE ds[Min(moves)].move
            /\ Outcome(plan) = "applied" =>
                 m \in InInbox /\ \A i \in moves : ds[i].move = then.folder
<1> DEFINE n == Len(ds)
           plan == Plan(m, ds)
           then == After(m, plan)[m]
<1>1. DOMAIN ds = 1..n /\ n \in Nat
  OBVIOUS
<1>2. Says(m, ds, n, plan)
  BY PlanSays
<1> HIDE DEF plan, n
<1> DEFINE H == Hits(m, ds, n)
           A == Acting(m, ds, n)
           M == Moving(m, ds, n)
<1>3. H = {i \in DOMAIN ds : m \in ds[i].hits}
  BY <1>1 DEF Hits
<1>4. A = {i \in H : \A j \in H : j < i => ~ds[j].stop}
  BY DEF Acting
<1>5. M = {i \in A : ds[i].move # NoFolder}
  BY DEF Moving
<1>6. Outcome(plan) = "no_match" <=> H = {}
  BY <1>2 DEF Says, Outcome
<1>7. Outcome(plan) = "applied" => plan.matched /\ ~plan.skips
  BY DEF Outcome
<1>8. m \in InInbox =>
        then = [folder |-> IF plan.move = NoFolder THEN "inbox" ELSE plan.move,
                labels |-> box[m].labels \cup plan.labels]
  BY DEF After
<1>9. M \subseteq Nat
  BY <1>1 DEF Moving, Acting, Hits
<1> HIDE DEF H, A, M, then
<1>10. M # {} => /\ Min(M) \in M
                 /\ \A i \in M : Min(M) <= i
  <2> SUFFICES ASSUME M # {} PROVE Min(M) \in M /\ \A i \in M : Min(M) <= i
    OBVIOUS
  <2>1. \E i \in M : \A j \in M : i <= j
    BY <1>9, LeastOf
  <2> QED BY <2>1 DEF Min
<1>11. ASSUME m \in InInbox
       PROVE  /\ then.labels = box[m].labels \cup UNION {ds[i].labels : i \in A}
              /\ then.folder = IF M = {} THEN "inbox" ELSE ds[Min(M)].move
  <2>1. plan.labels = UNION {ds[i].labels : i \in A} /\ (plan.move = NoFolder <=> M = {})
    BY <1>2, <1>11 DEF Says, A, M
  <2>2. M # {} => plan.move = ds[Min(M)].move
    BY <1>2, <1>10, <1>11 DEF Says, M
  <2> QED BY <1>8, <1>11, <2>1, <2>2
<1>12. ASSUME Outcome(plan) = "applied"
       PROVE  m \in InInbox /\ \A i \in M : ds[i].move = then.folder
  <2>1. m \in InInbox
    BY <1>2, <1>7, <1>12 DEF Says
  <2>2. \A i \in M : ds[i].move = plan.move
    BY <1>2, <1>7, <1>12, <2>1 DEF Says, M
  <2>3. M # {} => plan.move # NoFolder
    BY <1>2, <2>1 DEF Says, M
  <2> QED BY <1>8, <2>1, <2>2, <2>3
<1> QED BY <1>3, <1>4, <1>5, <1>6, <1>11, <1>12 DEF then, plan

-----------------------------------------------------------------------------
(* The inductive invariant                                                 *)

RuleStates == {"none", "draft", "enabled", "disabled", "archived"}
RunStates == {"none", "no_match", "applied", "applied_with_skips", "failed"} \cup Open

\* Records as the rules and runs are, whatever the position and the definitions.
IsRule(x) ==
  x \in [state : RuleStates, active : Nat, draft : Nat, position : {x.position}, revision : Nat]
IsRun(x) == x \in [state : RunStates, attempts : Nat, rules : {x.rules}]

ShapeInv ==
  /\ DOMAIN rule = Rules /\ \A r \in Rules : IsRule(rule[r])
  /\ version \in [Rules -> Seq(Definitions)]
  /\ DOMAIN refs = Rules /\ order \in Nat
  /\ tests \in [Rules -> [Definitions -> {"none", "failed", "passed"}]]
  /\ DOMAIN proven = Rules
  /\ DOMAIN view = Members /\ DOMAIN run = Mails /\ DOMAIN runRefs = Mails
  /\ blind = FALSE

\* The versions of a rule that are in force are there, referred to and, if they
\* act, tested; what they refer to exists.
RuleParts(r) ==
  LET x == rule[r]
  IN /\ x.active <= Len(version[r]) /\ x.draft <= Len(version[r])
     /\ x.state = "none" => version[r] = <<>>
     /\ x.state \in {"enabled", "disabled"} => x.active > 0
     /\ x.state \notin {"none", "archived"} => InForce(r) \subseteq refs[r]
     /\ refs[r] \subseteq 1..Len(version[r])
     /\ \A v \in refs[r] : TargetsOf(version[r][v]) \subseteq exists
     /\ \A d \in Definitions : tests[r][d] = "passed" => d \in proven[r]
     /\ x.active # 0 => version[r][x.active] \in proven[r]

RulesInv == \A r \in Rules : RuleParts(r)

\* What a member looks at is past, or it is as the revisions say.
ViewParts(e) ==
  /\ view[e].order \in Nat /\ view[e].order <= order
  /\ view[e].order = order =>
       \A r \in Rules : view[e].rules[r].position = rule[r].position
  /\ \A r \in Rules :
       /\ view[e].rules[r].revision \in Nat
       /\ view[e].rules[r].revision <= rule[r].revision
       /\ view[e].rules[r].revision = rule[r].revision => view[e].rules[r] = rule[r]

ViewInv == \A e \in Members : ViewParts(e)

\* What an open run refers to exists, and it has an attempt left when it waits.
RunParts(m) ==
  /\ IsRun(run[m])
  /\ run[m].state \in Open =>
       \A i \in DOMAIN run[m].rules : TargetsOf(run[m].rules[i]) \subseteq runRefs[m]
  /\ runRefs[m] \subseteq exists
  /\ run[m].attempts <= MaxAttempts
  /\ run[m].state = "pending" => run[m].attempts < MaxAttempts

RunsInv == \A m \in Mails : RunParts(m)

AutoInv == ShapeInv /\ RulesInv /\ ViewInv /\ RunsInv

-----------------------------------------------------------------------------
(* Edits                                                                   *)

\* An edit of one rule leaves what members look at behind.
LEMMA ViewStep ==
  ASSUME ShapeInv, ViewInv, NEW r \in Rules, NEW x, IsRule(x),
         rule' = [rule EXCEPT ![r] = x], x.revision = rule[r].revision + 1,
         \/ order' = order /\ x.position = rule[r].position
         \/ order' = order + 1,
         view' = view
  PROVE  ViewInv'
<1> SUFFICES ASSUME NEW e \in Members PROVE ViewParts(e)'
  BY DEF ViewInv
<1>1. ViewParts(e) /\ order \in Nat /\ IsRule(rule[r]) /\ DOMAIN rule = Rules
  BY DEF ViewInv, ShapeInv
<1>2. rule[r].revision \in Nat
  BY <1>1 DEF IsRule
<1>3. \A s \in Rules : rule'[s] = IF s = r THEN x ELSE rule[s]
  BY <1>1
<1>4. view'[e].order \in Nat /\ view'[e].order <= order'
  BY <1>1 DEF ViewParts
<1>5. ASSUME view'[e].order = order', NEW s \in Rules
      PROVE  view'[e].rules[s].position = rule'[s].position
  BY <1>1, <1>3, <1>5 DEF ViewParts
<1>6. ASSUME NEW s \in Rules
      PROVE  /\ view'[e].rules[s].revision \in Nat
             /\ view'[e].rules[s].revision <= rule'[s].revision
             /\ view'[e].rules[s].revision = rule'[s].revision => view'[e].rules[s] = rule'[s]
  BY <1>1, <1>2, <1>3 DEF ViewParts
<1> QED BY <1>4, <1>5, <1>6 DEF ViewParts

\* The other rules stay as they are.
LEMMA RuleStep ==
  ASSUME RulesInv, NEW r \in Rules, RuleParts(r)', UNCHANGED exists,
         \A s \in Rules \ {r} :
           /\ rule'[s] = rule[s] /\ version'[s] = version[s] /\ refs'[s] = refs[s]
           /\ tests'[s] = tests[s] /\ proven'[s] = proven[s]
  PROVE  RulesInv'
<1> SUFFICES ASSUME NEW s \in Rules PROVE RuleParts(s)'
  BY DEF RulesInv
<1>1. CASE s = r
  BY <1>1
<1>2. CASE s # r
  <2>1. RuleParts(s) /\ s \in Rules \ {r}
    BY <1>2 DEF RulesInv
  <2>2. /\ rule'[s] = rule[s] /\ version'[s] = version[s] /\ refs'[s] = refs[s]
        /\ tests'[s] = tests[s] /\ proven'[s] = proven[s]
    BY <2>1
  <2>3. InForce(s)' = InForce(s)
    BY <2>2 DEF InForce
  <2> HIDE DEF InForce
  <2> QED BY <2>1, <2>2, <2>3 DEF RuleParts
<1> QED BY <1>1, <1>2

\* Nothing an edit does concerns runs.
LEMMA RunsKept ==
  ASSUME RunsInv, UNCHANGED <<exists, runVars>>
  PROVE  RunsInv'
BY DEF RunsInv, RunParts, IsRun, runVars, Open

\* A member whose revision is that of the rule has seen it.
LEMMA SeenAsIs ==
  ASSUME ShapeInv, ViewInv, NEW e \in Members, NEW r \in Rules, Checked(e, r), Notes(e, r)
  PROVE  blind' = FALSE
BY DEF ShapeInv, ViewInv, ViewParts, Checked, Notes

\* A member who looks sees the rules as they are (listRules).
LEMMA LooksStep == AutoInv /\ (\E e \in Members : Looks(e)) => AutoInv'
<1> SUFFICES ASSUME AutoInv, NEW e \in Members, Looks(e) PROVE AutoInv'
  OBVIOUS
<1>1. ShapeInv /\ RulesInv /\ ViewInv /\ RunsInv
  BY DEF AutoInv
<1>2. /\ UNCHANGED <<rule, version, refs, order, tests, proven, blind, exists, runVars>>
      /\ view' = [view EXCEPT ![e] = [rules |-> rule, order |-> order]]
  BY DEF Looks
<1>3. ShapeInv'
  BY <1>1, <1>2 DEF ShapeInv, IsRule, runVars
<1>4. RulesInv'
  BY <1>1, <1>2 DEF RulesInv, RuleParts, InForce
<1>5. ViewInv'
  <2> SUFFICES ASSUME NEW f \in Members PROVE ViewParts(f)'
    BY DEF ViewInv
  <2>1. CASE f = e
    <3>1. view'[f] = [rules |-> rule, order |-> order]
      BY <1>1, <1>2, <2>1 DEF ShapeInv
    <3>2. order \in Nat /\ \A r \in Rules : rule[r].revision \in Nat
      BY <1>1 DEF ShapeInv, IsRule
    <3> QED BY <1>2, <3>1, <3>2 DEF ViewParts
  <2>2. CASE f # e
    <3>1. view'[f] = view[f] /\ ViewParts(f)
      BY <1>1, <1>2, <2>2 DEF ShapeInv, ViewInv
    <3> QED BY <1>2, <3>1 DEF ViewParts
  <2> QED BY <2>1, <2>2
<1>6. RunsInv'
  BY <1>1, <1>2, RunsKept
<1> QED BY <1>3, <1>4, <1>5, <1>6 DEF AutoInv

\* A new rule is a draft of one version, and refers to what exists (createDraft).
LEMMA CreateDraftStep ==
  AutoInv /\ (\E e \in Members, r \in Rules, d \in Definitions : CreateDraft(e, r, d)) => AutoInv'
<1> SUFFICES ASSUME AutoInv, NEW e \in Members, NEW r \in Rules, NEW d \in Definitions,
                    CreateDraft(e, r, d)
             PROVE  AutoInv'
  OBVIOUS
<1>1. ShapeInv /\ RulesInv /\ ViewInv /\ RunsInv
  BY DEF AutoInv
<1>2. PICK x : /\ x.state = "draft" /\ x.active = 0 /\ x.draft = 1
               /\ x.revision = rule[r].revision + 1 /\ IsRule(x)
               /\ rule' = [rule EXCEPT ![r] = x]
  <2>1. rule[r].revision + 1 \in Nat
    BY <1>1 DEF ShapeInv, IsRule
  <2>2. IsRule(rule[r]) /\ rule[r].active = 0
    BY <1>1 DEF CreateDraft, ShapeInv, RulesInv, RuleParts, IsRule
  <2>3. PICK p : rule' = [rule EXCEPT ![r] =
                  [[rule[r] EXCEPT !.state = "draft", !.draft = 1, !.position = p]
                     EXCEPT !.revision = rule[r].revision + 1]]
    BY DEF CreateDraft, Rewrites
  <2> QED BY <2>1, <2>2, <2>3 DEF IsRule, RuleStates
<1>3. /\ rule[r].state = "none" /\ view[e].order = order /\ TargetsOf(d) \subseteq exists
      /\ version' = [version EXCEPT ![r] = <<d>>] /\ refs' = [refs EXCEPT ![r] = {1}]
      /\ order' = order + 1
      /\ UNCHANGED <<tests, view, proven, exists, runVars>>
      /\ blind' = (blind \/ \E s \in Rules : view[e].rules[s].position # rule[s].position)
  BY DEF CreateDraft
<1>4. blind' = FALSE
  BY <1>1, <1>3 DEF ShapeInv, ViewInv, ViewParts
<1>5. ShapeInv'
  BY <1>1, <1>2, <1>3, <1>4 DEF ShapeInv, IsRule, runVars
<1>6. /\ rule'[r] = x /\ version'[r] = <<d>> /\ refs'[r] = {1} /\ Len(version'[r]) = 1
      /\ version'[r][1] = d
  BY <1>1, <1>2, <1>3 DEF ShapeInv
<1>7. RuleParts(r)'
  <2>1. InForce(r)' = {1}
    BY <1>2, <1>6 DEF InForce
  <2>2. \A c \in Definitions : tests'[r][c] = "passed" => c \in proven'[r]
    BY <1>1, <1>3 DEF RulesInv, RuleParts
  <2> QED BY <1>2, <1>3, <1>6, <2>1, <2>2 DEF RuleParts
<1>8. RulesInv'
  BY <1>1, <1>2, <1>3, <1>7, RuleStep DEF ShapeInv
<1>9. ViewInv'
  BY <1>1, <1>2, <1>3, ViewStep
<1>10. RunsInv'
  BY <1>1, <1>3, RunsKept
<1> QED BY <1>5, <1>8, <1>9, <1>10 DEF AutoInv

\* What the edits of a rule a member has seen have in common.
LEMMA EditStep ==
  ASSUME AutoInv, NEW e \in Members, NEW r \in Rules, NEW x, Checked(e, r), Notes(e, r),
         IsRule(x), rule' = [rule EXCEPT ![r] = x], x.revision = rule[r].revision + 1,
         \/ order' = order /\ x.position = rule[r].position
         \/ order' = order + 1,
         version' \in [Rules -> Seq(Definitions)], DOMAIN refs' = Rules,
         \A s \in Rules \ {r} : version'[s] = version[s] /\ refs'[s] = refs[s],
         RuleParts(r)',
         UNCHANGED <<tests, view, proven, exists, runVars>>
  PROVE  AutoInv'
<1>1. ShapeInv /\ RulesInv /\ ViewInv /\ RunsInv
  BY DEF AutoInv
<1>2. blind' = FALSE
  BY <1>1, SeenAsIs
<1>3. ShapeInv'
  BY <1>1, <1>2 DEF ShapeInv, IsRule, runVars
<1>4. \A s \in Rules \ {r} : rule'[s] = rule[s]
  BY <1>1 DEF ShapeInv
<1>5. RulesInv'
  BY <1>1, <1>4, RuleStep
<1>6. ViewInv'
  BY <1>1, ViewStep
<1>7. RunsInv'
  BY <1>1, RunsKept
<1> QED BY <1>3, <1>5, <1>6, <1>7 DEF AutoInv

\* A new version keeps the references of the active one (updateDraft).
LEMMA UpdateDraftStep ==
  AutoInv /\ (\E e \in Members, r \in Rules, d \in Definitions : UpdateDraft(e, r, d)) => AutoInv'
<1> SUFFICES ASSUME AutoInv, NEW e \in Members, NEW r \in Rules, NEW d \in Definitions,
                    UpdateDraft(e, r, d)
             PROVE  AutoInv'
  OBVIOUS
<1>1. ShapeInv /\ RuleParts(r) /\ IsRule(rule[r])
  BY DEF AutoInv, RulesInv, ShapeInv
<1> DEFINE n == Len(version[r]) + 1
           record == [rule[r] EXCEPT !.draft = n, !.state = IF rule[r].active = 0 THEN "draft" ELSE @]
           x == [record EXCEPT !.revision = rule[r].revision + 1]
<1>2. /\ rule[r].state \notin {"none", "archived"} /\ Checked(e, r) /\ Notes(e, r)
      /\ TargetsOf(d) \subseteq exists
      /\ rule' = [rule EXCEPT ![r] = x] /\ refs' = [refs EXCEPT ![r] = Referred(r, record, n)]
      /\ version' = [version EXCEPT ![r] = Append(@, d)]
      /\ UNCHANGED <<order, tests, view, proven, exists, runVars>>
  BY DEF UpdateDraft, Rewrites
<1>3. n \in Nat \ {0} /\ version[r] \in Seq(Definitions)
  BY <1>1 DEF ShapeInv
<1>4. /\ IsRule(x) /\ x.draft = n /\ x.active = rule[r].active /\ x.position = rule[r].position
      /\ x.revision = rule[r].revision + 1
      /\ x.state = IF rule[r].active = 0 THEN "draft" ELSE rule[r].state
      /\ record.active = x.active /\ record.draft = n
  <2> HIDE DEF n
  <2>1. rule[r].revision + 1 \in Nat
    BY <1>1 DEF IsRule
  <2> QED BY <1>1, <1>3, <2>1 DEF IsRule, RuleStates
<1>5. /\ version'[r] = Append(version[r], d) /\ Len(version'[r]) = n
      /\ version'[r][n] = d /\ \A v \in 1..Len(version[r]) : version'[r][v] = version[r][v]
      /\ version' \in [Rules -> Seq(Definitions)]
  BY <1>1, <1>2, <1>3 DEF ShapeInv
<1>6. rule'[r] = x /\ refs'[r] = (refs[r] \cup {n}) \cap {rule[r].active, n}
  BY <1>1, <1>2, <1>4 DEF ShapeInv, Referred
<1>7. RuleParts(r)'
  <2> HIDE DEF x, record, n
  <2>1. InForce(r)' = {rule[r].active, n} \ {0}
    BY <1>4, <1>6 DEF InForce
  <2>2. rule[r].active # 0 => rule[r].active \in refs[r]
    BY <1>1, <1>2 DEF RuleParts, InForce
  <2>3. refs'[r] \subseteq 1..n
    BY <1>1, <1>3, <1>6 DEF RuleParts, n
  <2>4. ASSUME NEW v \in refs'[r] PROVE TargetsOf(version'[r][v]) \subseteq exists'
    <3>1. CASE v = n
      BY <1>2, <1>5, <3>1
    <3>2. CASE v # n
      <4>1. v \in refs[r] /\ v \in 1..Len(version[r])
        BY <1>1, <1>6, <3>2 DEF RuleParts
      <4> QED BY <1>1, <1>2, <1>5, <4>1 DEF RuleParts
    <3> QED BY <3>1, <3>2
  <2>5. x.active <= n /\ x.draft <= n
    BY <1>1, <1>3, <1>4 DEF RuleParts, IsRule, n
  <2>6. x.active # 0 => version'[r][x.active] \in proven'[r]
    <3>1. x.active # 0 => x.active \in 1..Len(version[r])
      BY <1>1, <1>3, <1>4 DEF RuleParts, IsRule
    <3> QED BY <1>1, <1>2, <1>4, <1>5, <3>1 DEF RuleParts
  <2>7. x.state # "none" /\ (x.state \in {"enabled", "disabled"} => x.active > 0)
    BY <1>1, <1>2, <1>4 DEF RuleParts
  <2>8. \A c \in Definitions : tests'[r][c] = "passed" => c \in proven'[r]
    BY <1>1, <1>2 DEF RuleParts
  <2> QED BY <1>5, <1>6, <2>1, <2>2, <2>3, <2>4, <2>5, <2>6, <2>7, <2>8 DEF RuleParts
<1>8. DOMAIN refs' = Rules /\ \A s \in Rules \ {r} : version'[s] = version[s] /\ refs'[s] = refs[s]
  BY <1>1, <1>2 DEF ShapeInv
<1> HIDE DEF x, record, n
<1> QED BY <1>2, <1>4, <1>5, <1>7, <1>8, EditStep

\* A test changes nothing but what is proven.
LEMMA DryRunStep ==
  AutoInv /\ (\E e \in Members, r \in Rules, d \in Definitions : DryRun(e, r, d)) => AutoInv'
<1> SUFFICES ASSUME AutoInv, NEW e \in Members, NEW r \in Rules, NEW d \in Definitions,
                    DryRun(e, r, d)
             PROVE  AutoInv'
  OBVIOUS
<1>1. ShapeInv /\ RulesInv /\ ViewInv /\ RunsInv
  BY DEF AutoInv
<1>2. PICK outcome \in {"failed", "passed"} :
        /\ tests' = [tests EXCEPT ![r][d] = outcome]
        /\ proven' = [proven EXCEPT ![r] = IF outcome = "passed" THEN @ \cup {d} ELSE @]
  BY DEF DryRun
<1>3. UNCHANGED <<rule, version, refs, order, view, blind, exists, runVars>>
  BY DEF DryRun
<1>4. /\ proven'[r] = IF outcome = "passed" THEN proven[r] \cup {d} ELSE proven[r]
      /\ \A c \in Definitions : tests'[r][c] = IF c = d THEN outcome ELSE tests[r][c]
      /\ \A s \in Rules \ {r} : proven'[s] = proven[s] /\ tests'[s] = tests[s]
  BY <1>1, <1>2 DEF ShapeInv
<1>5. ShapeInv'
  <2>1. tests' \in [Rules -> [Definitions -> {"none", "failed", "passed"}]]
    BY <1>1, <1>2 DEF ShapeInv
  <2> QED BY <1>1, <1>2, <1>3, <2>1 DEF ShapeInv, IsRule, runVars
<1>6. RuleParts(r)'
  <2>1. RuleParts(r)
    BY <1>1 DEF RulesInv
  <2>2. InForce(r)' = InForce(r)
    BY <1>3 DEF InForce
  <2>3. proven[r] \subseteq proven'[r]
    BY <1>4
  <2>4. \A c \in Definitions : tests'[r][c] = "passed" => c \in proven'[r]
    BY <1>4, <2>1, <2>3 DEF RuleParts
  <2> QED BY <1>3, <2>1, <2>2, <2>3, <2>4 DEF RuleParts
<1>7. RulesInv'
  BY <1>1, <1>3, <1>4, <1>6, RuleStep
<1>8. ViewInv'
  BY <1>1, <1>3 DEF ViewInv, ViewParts
<1>9. RunsInv'
  BY <1>1, <1>3, RunsKept
<1> QED BY <1>5, <1>7, <1>8, <1>9 DEF AutoInv

\* What a test that has expired has shown stays shown.
LEMMA ForgetsStep ==
  AutoInv /\ (\E r \in Rules, d \in Definitions : Forgets(r, d)) => AutoInv'
<1> SUFFICES ASSUME AutoInv, NEW r \in Rules, NEW d \in Definitions, Forgets(r, d)
             PROVE  AutoInv'
  OBVIOUS
<1>1. ShapeInv /\ RulesInv /\ ViewInv /\ RunsInv
  BY DEF AutoInv
<1>2. /\ tests' = [tests EXCEPT ![r][d] = "none"]
      /\ UNCHANGED <<rule, version, refs, order, view, proven, blind, exists, runVars>>
  BY DEF Forgets
<1>3. ShapeInv'
  <2>1. tests' \in [Rules -> [Definitions -> {"none", "failed", "passed"}]]
    BY <1>1, <1>2 DEF ShapeInv
  <2> QED BY <1>1, <1>2, <2>1 DEF ShapeInv, IsRule, runVars
<1>4. RulesInv'
  <2>1. \A s \in Rules, c \in Definitions : tests'[s][c] = "passed" => tests[s][c] = "passed"
    BY <1>1, <1>2 DEF ShapeInv
  <2> QED BY <1>1, <1>2, <2>1 DEF RulesInv, RuleParts, InForce
<1>5. ViewInv'
  BY <1>1, <1>2 DEF ViewInv, ViewParts
<1>6. RunsInv'
  BY <1>1, <1>2, RunsKept
<1> QED BY <1>3, <1>4, <1>5, <1>6 DEF AutoInv

\* The draft that becomes active has passed a test of its definition (enable).
LEMMA EnableStep ==
  AutoInv /\ (\E e \in Members, r \in Rules : Enable(e, r)) => AutoInv'
<1> SUFFICES ASSUME AutoInv, NEW e \in Members, NEW r \in Rules, Enable(e, r)
             PROVE  AutoInv'
  OBVIOUS
<1>1. ShapeInv /\ RuleParts(r) /\ IsRule(rule[r])
  BY DEF AutoInv, RulesInv, ShapeInv
<1> DEFINE n == rule[r].draft
           record == [rule[r] EXCEPT !.state = "enabled", !.active = n, !.draft = 0]
           x == [record EXCEPT !.revision = rule[r].revision + 1]
<1>2. /\ rule[r].state \notin {"none", "archived"} /\ n # 0 /\ Checked(e, r) /\ Notes(e, r)
      /\ tests[r][version[r][n]] = "passed"
      /\ rule' = [rule EXCEPT ![r] = x]
      /\ refs' = [refs EXCEPT ![r] = Referred(r, record, record.active)]
      /\ UNCHANGED <<version, order, tests, view, proven, exists, runVars>>
  BY DEF Enable, Rewrites, Listed, DraftPassed
<1>3. /\ IsRule(x) /\ x.draft = 0 /\ x.active = n /\ x.position = rule[r].position
      /\ x.revision = rule[r].revision + 1 /\ x.state = "enabled"
      /\ record.active = n /\ record.draft = 0
  <2>1. rule[r].revision + 1 \in Nat
    BY <1>1 DEF IsRule
  <2> QED BY <1>1, <2>1 DEF IsRule, RuleStates
<1>4. rule'[r] = x /\ refs'[r] = (refs[r] \cup {n}) \cap {n, 0}
  BY <1>1, <1>2, <1>3 DEF ShapeInv, Referred
<1>5. n \in refs[r] /\ n \in 1..Len(version[r])
  BY <1>1, <1>2 DEF RuleParts, InForce
<1>6. version[r][n] \in Definitions /\ version[r] # <<>>
  BY <1>1, <1>5 DEF ShapeInv
<1>7. RuleParts(r)'
  <2> HIDE DEF x, record, n
  <2>1. InForce(r)' = {n}
    BY <1>2, <1>3, <1>4 DEF InForce
  <2>2. refs'[r] \subseteq refs[r] /\ n \in refs'[r]
    BY <1>4, <1>5
  <2>3. x.active <= Len(version[r]) /\ x.draft <= Len(version[r]) /\ x.active > 0
    BY <1>1, <1>3, <1>5 DEF ShapeInv
  <2>4. version[r][n] \in proven[r]
    BY <1>1, <1>2, <1>6 DEF RuleParts
  <2> QED BY <1>1, <1>2, <1>3, <1>4, <2>1, <2>2, <2>3, <2>4 DEF RuleParts
<1>8. /\ DOMAIN refs' = Rules /\ version' \in [Rules -> Seq(Definitions)]
      /\ \A s \in Rules \ {r} : version'[s] = version[s] /\ refs'[s] = refs[s]
  BY <1>1, <1>2 DEF ShapeInv
<1> HIDE DEF x, record, n
<1> QED BY <1>2, <1>3, <1>7, <1>8, EditStep

\* A rule is switched on or off as it is (setEnabled).
LEMMA SetEnabledStep ==
  AutoInv /\ (\E e \in Members, r \in Rules : SetEnabled(e, r)) => AutoInv'
<1> SUFFICES ASSUME AutoInv, NEW e \in Members, NEW r \in Rules, SetEnabled(e, r)
             PROVE  AutoInv'
  OBVIOUS
<1>1. ShapeInv /\ RuleParts(r) /\ IsRule(rule[r])
  BY DEF AutoInv, RulesInv, ShapeInv
<1> DEFINE x == [[rule[r] EXCEPT !.state = IF @ = "enabled" THEN "disabled" ELSE "enabled"]
                   EXCEPT !.revision = rule[r].revision + 1]
<1>2. /\ rule[r].state \notin {"none", "archived"} /\ rule[r].active # 0
      /\ Checked(e, r) /\ Notes(e, r) /\ rule' = [rule EXCEPT ![r] = x]
      /\ UNCHANGED <<version, refs, order, tests, view, proven, exists, runVars>>
  BY DEF SetEnabled, Rewrites, Listed
<1>3. /\ IsRule(x) /\ x.draft = rule[r].draft /\ x.active = rule[r].active
      /\ x.position = rule[r].position
      /\ x.revision = rule[r].revision + 1 /\ x.state \in {"enabled", "disabled"}
  <2>1. rule[r].revision + 1 \in Nat
    BY <1>1 DEF IsRule
  <2> QED BY <1>1, <2>1 DEF IsRule, RuleStates
<1>4. rule'[r] = x
  BY <1>1, <1>2 DEF ShapeInv
<1> HIDE DEF x
<1>5. InForce(r)' = InForce(r)
  BY <1>3, <1>4 DEF InForce
<1>6. x.active > 0
  BY <1>2, <1>3 DEF IsRule
<1>7. RuleParts(r)'
  BY <1>1, <1>2, <1>3, <1>4, <1>5, <1>6 DEF RuleParts
<1>8. /\ DOMAIN refs' = Rules /\ version' \in [Rules -> Seq(Definitions)]
      /\ \A s \in Rules \ {r} : version'[s] = version[s] /\ refs'[s] = refs[s]
  BY <1>1, <1>2 DEF ShapeInv
<1> QED BY <1>2, <1>3, <1>7, <1>8, EditStep

\* An archived rule needs nothing any more (archive).
LEMMA ArchiveStep ==
  AutoInv /\ (\E e \in Members, r \in Rules : Archive(e, r)) => AutoInv'
<1> SUFFICES ASSUME AutoInv, NEW e \in Members, NEW r \in Rules, Archive(e, r)
             PROVE  AutoInv'
  OBVIOUS
<1>1. ShapeInv /\ RuleParts(r) /\ IsRule(rule[r])
  BY DEF AutoInv, RulesInv, ShapeInv
<1> DEFINE x == [[rule[r] EXCEPT !.state = "archived"] EXCEPT !.revision = rule[r].revision + 1]
<1>2. /\ Checked(e, r) /\ Notes(e, r) /\ rule' = [rule EXCEPT ![r] = x]
      /\ refs' = [refs EXCEPT ![r] = {}] /\ order' = order + 1
      /\ UNCHANGED <<version, tests, view, proven, exists, runVars>>
  BY DEF Archive, Rewrites
<1>3. /\ IsRule(x) /\ x.draft = rule[r].draft /\ x.active = rule[r].active
      /\ x.revision = rule[r].revision + 1 /\ x.state = "archived"
  <2>1. rule[r].revision + 1 \in Nat
    BY <1>1 DEF IsRule
  <2> QED BY <1>1, <2>1 DEF IsRule, RuleStates
<1>4. rule'[r] = x /\ refs'[r] = {}
  BY <1>1, <1>2 DEF ShapeInv
<1> HIDE DEF x
<1>5. RuleParts(r)'
  BY <1>1, <1>2, <1>3, <1>4 DEF RuleParts
<1>6. /\ DOMAIN refs' = Rules /\ version' \in [Rules -> Seq(Definitions)]
      /\ \A s \in Rules \ {r} : version'[s] = version[s] /\ refs'[s] = refs[s]
  BY <1>1, <1>2 DEF ShapeInv
<1> QED BY <1>2, <1>3, <1>5, <1>6, EditStep

\* Positions change and every moved rule gets a new revision (reorder).
LEMMA ReorderStep == AutoInv /\ (\E e \in Members : Reorder(e)) => AutoInv'
<1> SUFFICES ASSUME AutoInv, NEW e \in Members, Reorder(e) PROVE AutoInv'
  OBVIOUS
<1>1. ShapeInv /\ RulesInv /\ ViewInv /\ RunsInv
  BY DEF AutoInv
<1>2. PICK p : rule' = Moved(p)
  BY DEF Reorder
<1>3. /\ view[e].order = order /\ order' = order + 1
      /\ blind' = (blind \/ \E s \in Rules : view[e].rules[s].position # rule[s].position)
      /\ UNCHANGED <<version, refs, tests, view, proven, exists, runVars>>
  BY DEF Reorder
<1>4. blind' = FALSE
  BY <1>1, <1>3 DEF ShapeInv, ViewInv, ViewParts
<1>5. DOMAIN rule' = Rules
  BY <1>2 DEF Moved
<1>6. ASSUME NEW r \in Rules
      PROVE  /\ IsRule(rule'[r]) /\ rule'[r].state = rule[r].state
             /\ rule'[r].active = rule[r].active /\ rule'[r].draft = rule[r].draft
             /\ rule'[r] = rule[r] \/ rule'[r].revision = rule[r].revision + 1
  <2>1. IsRule(rule[r]) /\ rule[r].revision + 1 \in Nat
    BY <1>1 DEF ShapeInv, IsRule
  <2>2. CASE r \in Listed
    <3>1. rule'[r] = [rule[r] EXCEPT !.position = p[r], !.revision = @ + 1]
      BY <1>2, <2>2 DEF Moved
    <3> QED BY <2>1, <3>1 DEF IsRule
  <2>3. CASE r \notin Listed
    <3>1. rule'[r] = rule[r]
      BY <1>2, <2>3 DEF Moved
    <3> QED BY <2>1, <3>1
  <2> QED BY <2>2, <2>3
<1>7. ShapeInv'
  BY <1>1, <1>3, <1>4, <1>5, <1>6 DEF ShapeInv, runVars
<1>8. RulesInv'
  <2> SUFFICES ASSUME NEW r \in Rules PROVE RuleParts(r)'
    BY DEF RulesInv
  <2>1. RuleParts(r) /\ InForce(r)' = InForce(r)
    BY <1>1, <1>6 DEF RulesInv, InForce
  <2> QED BY <1>3, <1>6, <2>1 DEF RuleParts
<1>9. ViewInv'
  <2> SUFFICES ASSUME NEW f \in Members PROVE ViewParts(f)'
    BY DEF ViewInv
  <2>1. ViewParts(f) /\ order \in Nat /\ view'[f] = view[f]
    BY <1>1, <1>3 DEF ViewInv, ShapeInv
  <2>2. \A r \in Rules : rule[r].revision \in Nat
    BY <1>1 DEF ShapeInv, IsRule
  <2>3. view'[f].order <= order' /\ view'[f].order # order'
    BY <1>3, <2>1 DEF ViewParts
  <2>4. ASSUME NEW r \in Rules
        PROVE  /\ view[f].rules[r].revision <= rule'[r].revision
               /\ view[f].rules[r].revision = rule'[r].revision => view[f].rules[r] = rule'[r]
    BY <1>6, <2>1, <2>2 DEF ViewParts
  <2> QED BY <2>1, <2>3, <2>4 DEF ViewParts
<1>10. RunsInv'
  BY <1>1, <1>3, RunsKept
<1> QED BY <1>7, <1>8, <1>9, <1>10 DEF AutoInv

-----------------------------------------------------------------------------
(* Labels, folders and runs                                                *)

\* What runs do leaves the rules alone.
LEMMA EditsKept ==
  ASSUME AutoInv, UNCHANGED <<editVars, exists>>, DOMAIN run' = Mails,
         DOMAIN runRefs' = Mails, RunsInv'
  PROVE  AutoInv'
<1>1. ShapeInv /\ RulesInv /\ ViewInv
  BY DEF AutoInv
<1>2. ShapeInv'
  BY <1>1 DEF ShapeInv, IsRule, editVars
<1>3. RulesInv'
  BY <1>1 DEF RulesInv, RuleParts, InForce, editVars
<1>4. ViewInv'
  BY <1>1 DEF ViewInv, ViewParts, editVars
<1> QED BY <1>2, <1>3, <1>4 DEF AutoInv

\* A label or folder is deleted when nothing refers to it.
LEMMA DeleteTargetStep == AutoInv /\ (\E t \in Targets : DeleteTarget(t)) => AutoInv'
<1> SUFFICES ASSUME AutoInv, NEW t \in Targets, DeleteTarget(t) PROVE AutoInv'
  OBVIOUS
<1>1. ShapeInv /\ RulesInv /\ ViewInv /\ RunsInv
  BY DEF AutoInv
<1>2. ~InUse(t) /\ exists' = exists \ {t} /\ UNCHANGED <<editVars, runVars>>
  BY DEF DeleteTarget
<1>3. /\ \A r \in Rules : \A v \in refs[r] : t \notin TargetsOf(version[r][v])
      /\ \A m \in Mails : t \notin runRefs[m]
  BY <1>2 DEF InUse
<1>4. ShapeInv'
  BY <1>1, <1>2 DEF ShapeInv, IsRule, editVars, runVars
<1>5. RulesInv'
  <2> SUFFICES ASSUME NEW r \in Rules PROVE RuleParts(r)'
    BY DEF RulesInv
  <2>1. RuleParts(r) /\ InForce(r)' = InForce(r)
    BY <1>1, <1>2 DEF RulesInv, InForce, editVars
  <2>2. \A v \in refs'[r] : TargetsOf(version'[r][v]) \subseteq exists'
    BY <1>2, <1>3, <2>1 DEF RuleParts, editVars
  <2> QED BY <1>2, <2>1, <2>2 DEF RuleParts, editVars
<1>6. ViewInv'
  BY <1>1, <1>2 DEF ViewInv, ViewParts, editVars
<1>7. RunsInv'
  BY <1>1, <1>2, <1>3 DEF RunsInv, RunParts, IsRun, runVars
<1> QED BY <1>4, <1>5, <1>6, <1>7 DEF AutoInv

\* A message captures what the active versions of enabled rules refer to.
LEMMA AcceptStep == AutoInv /\ (\E m \in Mails : Accept(m)) => AutoInv'
<1> SUFFICES ASSUME AutoInv, NEW m \in Mails, Accept(m) PROVE AutoInv'
  OBVIOUS
<1>1. ShapeInv /\ RulesInv /\ ViewInv /\ RunsInv
  BY DEF AutoInv
<1>2. PICK list \in InOrder : Captures(m, list)
  BY DEF Accept
<1>3. UNCHANGED <<editVars, exists>>
  BY DEF Accept
<1> DEFINE rules == [i \in {j \in DOMAIN list : j <= MaxEnabled} |->
                       version[list[i]][rule[list[i]].active]]
           referred == {i \in DOMAIN rules : rule[list[i]].active \in refs[list[i]]}
           kept == UNION {TargetsOf(rules[i]) : i \in referred}
           outcome == IF rules = <<>> THEN "no_match" ELSE "pending"
<1>4. \A i \in DOMAIN rules : list[i] \in Rules /\ rule[list[i]].state = "enabled"
  BY <1>2 DEF InOrder, Bijection, Injection, Enabled
<1>5. ASSUME NEW i \in DOMAIN rules
      PROVE  /\ rule[list[i]].active \in refs[list[i]]
             /\ TargetsOf(rules[i]) \subseteq exists
  <2> DEFINE r == list[i]
  <2>1. r \in Rules /\ rule[r].state = "enabled" /\ RuleParts(r)
    BY <1>1, <1>4 DEF RulesInv
  <2>2. rule[r].active \in Nat /\ rule[r].active > 0
    BY <1>1, <2>1 DEF RuleParts, ShapeInv, IsRule
  <2>3. rule[r].active \in refs[r]
    BY <2>1, <2>2 DEF RuleParts, InForce
  <2> QED BY <2>1, <2>3 DEF RuleParts
<1>6. /\ run' = [run EXCEPT ![m] = [NoRun EXCEPT !.state = outcome, !.rules = rules]]
      /\ runRefs' = [runRefs EXCEPT ![m] = kept]
  BY <1>2 DEF Captures
<1>7. referred = DOMAIN rules
  BY <1>5
<1>8. kept \subseteq exists /\ \A i \in DOMAIN rules : TargetsOf(rules[i]) \subseteq kept
  BY <1>5, <1>7
<1>9. outcome \in {"no_match", "pending"}
  OBVIOUS
<1> HIDE DEF rules, referred, kept, outcome
<1>10. run'[m] = [state |-> outcome, attempts |-> 0, rules |-> rules]
  BY <1>1, <1>6 DEF ShapeInv, NoRun
<1>11. RunParts(m)'
  <2>1. IsRun(run'[m])
    BY <1>9, <1>10 DEF IsRun, RunStates, Open
  <2>2. runRefs'[m] = kept
    BY <1>1, <1>6 DEF ShapeInv
  <2> QED BY <1>3, <1>8, <1>10, <2>1, <2>2, RulesAssumption DEF RunParts
<1>12. RunsInv'
  <2> SUFFICES ASSUME NEW x \in Mails PROVE RunParts(x)'
    BY DEF RunsInv
  <2>1. CASE x # m
    <3>1. run'[x] = run[x] /\ runRefs'[x] = runRefs[x] /\ RunParts(x)
      BY <1>1, <1>6, <2>1 DEF ShapeInv, RunsInv
    <3> QED BY <1>3, <3>1 DEF RunParts, IsRun
  <2> QED BY <1>11, <2>1
<1> QED BY <1>1, <1>3, <1>6, <1>12, EditsKept DEF ShapeInv

\* Filing a message leaves its run, deleting it ends it.
LEMMA FileMailStep == AutoInv /\ (\E m \in Mails : FileMail(m)) => AutoInv'
<1> SUFFICES ASSUME AutoInv, NEW m \in Mails, FileMail(m) PROVE AutoInv'
  OBVIOUS
<1>1. ShapeInv /\ RunsInv
  BY DEF AutoInv
<1>2. UNCHANGED <<editVars, exists>>
  BY DEF FileMail
<1>3. \/ UNCHANGED runVars
      \/ run' = [run EXCEPT ![m] = NoRun] /\ runRefs' = [runRefs EXCEPT ![m] = {}]
  BY DEF FileMail
<1>4. CASE UNCHANGED runVars
  BY <1>1, <1>2, <1>4, RunsKept, EditsKept DEF ShapeInv, runVars
<1>5. CASE run' = [run EXCEPT ![m] = NoRun] /\ runRefs' = [runRefs EXCEPT ![m] = {}]
  <2>1. run'[m] = NoRun /\ runRefs'[m] = {}
    BY <1>1, <1>5 DEF ShapeInv
  <2>2. RunParts(m)'
    BY <2>1, RulesAssumption DEF RunParts, IsRun, RunStates, Open, NoRun
  <2>3. ASSUME NEW x \in Mails, x # m PROVE RunParts(x)'
    <3>1. run'[x] = run[x] /\ runRefs'[x] = runRefs[x] /\ RunParts(x)
      BY <1>1, <1>5, <2>3 DEF ShapeInv, RunsInv
    <3> QED BY <1>2, <3>1 DEF RunParts, IsRun
  <2>4. RunsInv'
    BY <2>2, <2>3 DEF RunsInv
  <2> QED BY <1>1, <1>2, <1>5, <2>4, EditsKept DEF ShapeInv
<1> QED BY <1>3, <1>4, <1>5

\* A run whose lease ran out waits again with an attempt left, or has failed and
\* refers to nothing.
LEMMA SettledIs ==
  ASSUME RunsInv, NEW lapsed \in SUBSET {m \in Mails : run[m].state = "processing"},
         NEW m \in Mails
  PROVE  LET x == Settled(lapsed)[m]
         IN /\ IsRun(x) /\ x.rules = run[m].rules /\ x.attempts = run[m].attempts
            /\ x.state \in Open => run[m].state \in Open
            /\ x.state = "pending" => x.attempts < MaxAttempts
            /\ Kept(Settled(lapsed))[m] \subseteq runRefs[m]
            /\ x.state \in Open => Kept(Settled(lapsed))[m] = runRefs[m]
<1> DEFINE x == Settled(lapsed)[m]
           outcome == IF run[m].attempts < MaxAttempts THEN "pending" ELSE "failed"
<1>1. RunParts(m) /\ IsRun(run[m])
  BY DEF RunsInv, RunParts
<1>2. x = IF m \in lapsed THEN [run[m] EXCEPT !.state = outcome] ELSE run[m]
  BY DEF Settled
<1>3. m \in lapsed => run[m].state = "processing"
  OBVIOUS
<1>4. /\ IsRun(x) /\ x.rules = run[m].rules /\ x.attempts = run[m].attempts
      /\ x.state = IF m \in lapsed THEN outcome ELSE run[m].state
  <2>1. outcome \in {"pending", "failed"}
    OBVIOUS
  <2> HIDE DEF outcome, x
  <2>2. CASE m \in lapsed
    BY <1>1, <1>2, <2>1, <2>2 DEF IsRun, RunStates, Open
  <2>3. CASE m \notin lapsed
    BY <1>1, <1>2, <2>3
  <2> QED BY <2>2, <2>3
<1>5. Kept(Settled(lapsed))[m] = IF x.state = "failed" THEN {} ELSE runRefs[m]
  BY DEF Kept
<1> HIDE DEF x
<1>6. x.state \in Open => run[m].state \in Open
  BY <1>3, <1>4 DEF Open
<1>7. x.state = "pending" => x.attempts < MaxAttempts
  BY <1>1, <1>4 DEF RunParts
<1>8. x.state \in Open => x.state # "failed"
  BY DEF Open
<1> QED BY <1>4, <1>5, <1>6, <1>7, <1>8 DEF x

\* A turn of one run ends in a state, and its references are kept or dropped.
TurnEnds(lapsed, m, outcome, kept) ==
  /\ run' = [Settled(lapsed) EXCEPT ![m].state = outcome, ![m].attempts = @ + 1]
  /\ runRefs' = [Kept(Settled(lapsed)) EXCEPT ![m] = IF kept THEN @ ELSE {}]

\* A run that stays open keeps its references, and its attempts are counted
\* (claimNextRun, finalizeClaim and failClaim).
LEMMA RunTurnStep == AutoInv /\ Turn => AutoInv'
<1> SUFFICES ASSUME AutoInv, Turn PROVE AutoInv'
  OBVIOUS
<1>1. ShapeInv /\ RunsInv /\ MaxAttempts \in Nat
  BY RulesAssumption DEF AutoInv
<1>2. UNCHANGED <<editVars, exists>>
  BY DEF Turn
<1>3. PICK lapsed \in SUBSET {m \in Mails : run[m].state = "processing"} :
        \/ run' = Settled(lapsed) /\ runRefs' = Kept(Settled(lapsed))
        \/ \E m \in Mails, outcome \in RunStates, kept \in BOOLEAN :
             /\ Settled(lapsed)[m].state = "pending"
             /\ outcome \in Open => kept
             /\ outcome = "pending" => Settled(lapsed)[m].attempts + 1 < MaxAttempts
             /\ TurnEnds(lapsed, m, outcome, kept)
  <2>1. \A plan : Outcome(plan) \in RunStates \ Open
    BY DEF Outcome, RunStates, Open
  <2>2. PICK lapsed \in SUBSET {m \in Mails : run[m].state = "processing"} :
          \/ run' = Settled(lapsed) /\ runRefs' = Kept(Settled(lapsed))
          \/ \E m \in Mails :
               /\ Settled(lapsed)[m].state = "pending"
               /\ \/ TurnEnds(lapsed, m, Outcome(Plan(m, run[m].rules)), FALSE)
                  \/ IF Settled(lapsed)[m].attempts + 1 < MaxAttempts
                     THEN TurnEnds(lapsed, m, "pending", TRUE)
                     ELSE TurnEnds(lapsed, m, "failed", FALSE)
                  \/ TurnEnds(lapsed, m, "processing", TRUE)
    BY ZenonT(90) DEF Turn, TurnEnds
  <2>3. ASSUME NEW m \in Mails, Settled(lapsed)[m].state = "pending",
               NEW outcome \in RunStates, NEW kept \in BOOLEAN, outcome \in Open => kept,
               outcome = "pending" => Settled(lapsed)[m].attempts + 1 < MaxAttempts,
               TurnEnds(lapsed, m, outcome, kept)
        PROVE  \E n \in Mails, st \in RunStates, k \in BOOLEAN :
             /\ Settled(lapsed)[n].state = "pending"
             /\ st \in Open => k
             /\ st = "pending" => Settled(lapsed)[n].attempts + 1 < MaxAttempts
             /\ TurnEnds(lapsed, n, st, k)
    BY <2>3, Zenon
  <2> QED BY <2>1, <2>2, <2>3, Zenon DEF RunStates, Open
<1> DEFINE runs == Settled(lapsed)
           rest == Kept(Settled(lapsed))
<1>4. DOMAIN runs = Mails /\ DOMAIN rest = Mails
  BY DEF Settled, Kept
<1>5. \A m \in Mails :
        /\ IsRun(runs[m]) /\ runs[m].rules = run[m].rules /\ runs[m].attempts = run[m].attempts
        /\ runs[m].state \in Open => run[m].state \in Open
        /\ runs[m].state = "pending" => runs[m].attempts < MaxAttempts
        /\ rest[m] \subseteq runRefs[m]
        /\ runs[m].state \in Open => rest[m] = runRefs[m]
  BY <1>1, SettledIs
<1> HIDE DEF runs, rest
<1>6. ASSUME NEW m \in Mails, run'[m] = runs[m], runRefs'[m] = rest[m]
      PROVE  RunParts(m)'
  <2>1. RunParts(m)
    BY <1>1 DEF RunsInv
  <2> QED BY <1>2, <1>5, <1>6, <2>1 DEF RunParts, IsRun
<1>7. CASE run' = runs /\ runRefs' = rest
  <2>1. RunsInv'
    BY <1>6, <1>7 DEF RunsInv
  <2> QED BY <1>2, <1>4, <1>7, <2>1, EditsKept
<1>8. CASE \E m \in Mails, outcome \in RunStates, kept \in BOOLEAN :
             /\ runs[m].state = "pending"
             /\ outcome \in Open => kept
             /\ outcome = "pending" => runs[m].attempts + 1 < MaxAttempts
             /\ run' = [runs EXCEPT ![m].state = outcome, ![m].attempts = @ + 1]
             /\ runRefs' = [rest EXCEPT ![m] = IF kept THEN @ ELSE {}]
  <2>1. PICK m \in Mails, outcome \in RunStates, kept \in BOOLEAN :
             /\ runs[m].state = "pending"
             /\ outcome \in Open => kept
             /\ outcome = "pending" => runs[m].attempts + 1 < MaxAttempts
             /\ run' = [runs EXCEPT ![m].state = outcome, ![m].attempts = @ + 1]
             /\ runRefs' = [rest EXCEPT ![m] = IF kept THEN @ ELSE {}]
    BY <1>8
  <2>2. runs[m].attempts \in Nat /\ runs[m].attempts < MaxAttempts /\ IsRun(runs[m])
    BY <1>5, <2>1 DEF IsRun
  <2>3. run'[m] = [[runs[m] EXCEPT !.state = outcome] EXCEPT !.attempts = runs[m].attempts + 1]
    BY <1>4, <2>1, <2>2 DEF IsRun
  <2>4. /\ IsRun(run'[m]) /\ run'[m].state = outcome /\ run'[m].rules = runs[m].rules
        /\ run'[m].attempts = runs[m].attempts + 1
    <3>1. runs[m].attempts + 1 \in Nat
      BY <2>2
    <3> DEFINE first == [runs[m] EXCEPT !.state = outcome]
    <3>2. IsRun(first) /\ first.state = outcome /\ first.rules = runs[m].rules
      BY <2>1, <2>2 DEF IsRun
    <3> HIDE DEF first
    <3> QED BY <2>3, <3>1, <3>2 DEF IsRun, first
  <2>5. runRefs'[m] = IF kept THEN rest[m] ELSE {}
    BY <1>4, <2>1
  <2>6. RunParts(m)'
    <3>1. RunParts(m) /\ rest[m] = runRefs[m] /\ run[m].state \in Open
      BY <1>1, <1>5, <2>1 DEF RunsInv, Open
    <3>2. outcome \in Open =>
            \A i \in DOMAIN run'[m].rules : TargetsOf(run'[m].rules[i]) \subseteq runRefs'[m]
      BY <1>5, <2>1, <2>4, <2>5, <3>1 DEF RunParts
    <3>3. runRefs'[m] \subseteq exists'
      BY <1>2, <2>5, <3>1 DEF RunParts
    <3>4. run'[m].attempts <= MaxAttempts
      BY <1>1, <2>2, <2>4
    <3>5. run'[m].state = "pending" => run'[m].attempts < MaxAttempts
      BY <2>1, <2>4
    <3> QED BY <2>4, <3>2, <3>3, <3>4, <3>5 DEF RunParts
  <2>7. \A x \in Mails \ {m} : run'[x] = runs[x] /\ runRefs'[x] = rest[x]
    BY <1>4, <2>1
  <2>8. RunsInv'
    BY <1>6, <2>6, <2>7 DEF RunsInv
  <2>9. DOMAIN run' = Mails /\ DOMAIN runRefs' = Mails
    BY <1>4, <2>1
  <2> QED BY <1>2, <2>8, <2>9, EditsKept
<1> QED BY <1>3, <1>7, <1>8 DEF runs, rest, TurnEnds

-----------------------------------------------------------------------------
(* Messages and captured definitions                                       *)

MailBoxes == [folder : Places \cup Folders, labels : SUBSET Labels]

\* Where messages are, and what their runs have captured.
MailInv ==
  /\ exists \subseteq Targets /\ box \in [Mails -> MailBoxes]
  /\ \A m \in Mails : run[m].rules \in Seq(Definitions)

\* What does not touch mail or runs keeps MailInv.
LEMMA MailKept == MailInv /\ UNCHANGED <<exists, box, run>> => MailInv'
BY DEF MailInv

\* What an arriving message captures is a sequence of definitions.
LEMMA CapturesStep ==
  ASSUME AutoInv, NEW m \in Mails, NEW list \in InOrder, Captures(m, list)
  PROVE  run'[m].rules \in Seq(Definitions) /\ \A x \in Mails \ {m} : run'[x] = run[x]
<1> DEFINE n == Cardinality(Enabled)
           some == {j \in DOMAIN list : j <= MaxEnabled}
           rules == [i \in some |-> version[list[i]][rule[list[i]].active]]
           outcome == IF rules = <<>> THEN "no_match" ELSE "pending"
<1>1. DOMAIN run = Mails /\ \A r \in Rules : version[r] \in Seq(Definitions) /\ RuleParts(r)
  BY DEF AutoInv, ShapeInv, RulesInv
<1>2. run' = [run EXCEPT ![m] = [NoRun EXCEPT !.state = outcome, !.rules = rules]]
  BY DEF Captures
<1>3. n \in Nat /\ MaxEnabled \in Nat
  <2>1. Enabled \subseteq Rules
    BY DEF Enabled
  <2> QED BY <2>1, RulesAssumption, FS_Subset, FS_CardinalityType
<1>4. list \in [1..n -> Enabled]
  BY DEF InOrder, Bijection, Injection
<1> HIDE DEF n
<1>5. PICK k \in Nat : some = 1..k
  <2>1. some = 1..(IF n <= MaxEnabled THEN n ELSE MaxEnabled)
    BY <1>3, <1>4
  <2> HIDE DEF some
  <2> QED BY <1>3, <2>1
<1>6. ASSUME NEW i \in some PROVE version[list[i]][rule[list[i]].active] \in Definitions
  <2> DEFINE r == list[i]
  <2>1. r \in Rules /\ rule[r].state = "enabled"
    BY <1>4 DEF Enabled
  <2>2. rule[r].active \in 1..Len(version[r])
    BY <1>1, <2>1 DEF RuleParts, AutoInv, ShapeInv, IsRule
  <2> QED BY <1>1, <2>1, <2>2
<1> HIDE DEF some
<1>7. rules \in [1..k -> Definitions]
  BY <1>5, <1>6
<1>8. rules \in Seq(Definitions)
  <2> HIDE DEF rules
  <2> QED BY <1>7
<1> HIDE DEF rules, outcome
<1>9. run'[m] = [state |-> outcome, attempts |-> 0, rules |-> rules]
  BY <1>1, <1>2 DEF NoRun
<1> QED BY <1>1, <1>2, <1>8, <1>9

\* Runs that are carried out, retried or given up keep what they captured, and
\* leave messages in folders there are.
LEMMA TurnMail ==
  ASSUME AutoInv, MailInv, Turn
  PROVE  box' \in [Mails -> MailBoxes] /\ \A m \in Mails : run'[m].rules = run[m].rules
<1>1. PICK lapsed \in SUBSET {m \in Mails : run[m].state = "processing"} :
        \/ run' = Settled(lapsed) /\ UNCHANGED box
        \/ \E m \in Mails :
             /\ Settled(lapsed)[m].state = "pending"
             /\ \E outcome : run' = [Settled(lapsed) EXCEPT ![m].state = outcome, ![m].attempts = @ + 1]
             /\ UNCHANGED box \/ box' = After(m, Plan(m, run[m].rules))
  BY Zenon DEF Turn
<1>2. \A m \in Mails :
        /\ IsRun(Settled(lapsed)[m]) /\ Settled(lapsed)[m].rules = run[m].rules
        /\ Settled(lapsed)[m].state \in Open => run[m].state \in Open
  BY SettledIs DEF AutoInv
<1>3. DOMAIN Settled(lapsed) = Mails
  BY DEF Settled
<1>4. CASE run' = Settled(lapsed) /\ UNCHANGED box
  BY <1>2, <1>4 DEF MailInv
<1>5. ASSUME NEW m \in Mails, Settled(lapsed)[m].state = "pending", NEW outcome,
             run' = [Settled(lapsed) EXCEPT ![m].state = outcome, ![m].attempts = @ + 1],
             UNCHANGED box \/ box' = After(m, Plan(m, run[m].rules))
      PROVE  box' \in [Mails -> MailBoxes] /\ \A x \in Mails : run'[x].rules = run[x].rules
  <2> DEFINE runs == Settled(lapsed)
             plan == Plan(m, run[m].rules)
  <2>1. run'[m] = [[runs[m] EXCEPT !.state = outcome] EXCEPT !.attempts = runs[m].attempts + 1]
    BY <1>2, <1>3, <1>5 DEF IsRun
  <2> HIDE DEF runs
  <2>2. run'[m].rules = runs[m].rules
    BY <1>2, <2>1 DEF IsRun, runs
  <2>3. \A x \in Mails \ {m} : run'[x] = runs[x]
    BY <1>3, <1>5 DEF runs
  <2>4. \A x \in Mails : run'[x].rules = run[x].rules
    BY <1>2, <2>2, <2>3 DEF runs
  <2>5. plan \in Plans
    <3>1. run[m].state \in Open
      BY <1>2, <1>5 DEF Open
    <3>2. \A i \in DOMAIN run[m].rules : TargetsOf(run[m].rules[i]) \subseteq exists
      BY <3>1 DEF AutoInv, RunsInv, RunParts
    <3>3. Says(m, run[m].rules, Len(run[m].rules), plan)
      BY <3>2, PlanSays DEF MailInv
    <3> QED BY <3>3 DEF Says
  <2>6. box' \in [Mails -> MailBoxes]
    <3> HIDE DEF plan
    <3>1. After(m, plan) \in [Mails -> MailBoxes]
      <4>1. plan.labels \in SUBSET Labels /\ plan.move \in Folders \cup {NoFolder}
        BY <2>5 DEF Plans
      <4>2. ASSUME NEW x \in Mails PROVE After(m, plan)[x] \in MailBoxes
        <5>1. box[x] \in MailBoxes
          BY DEF MailInv
        <5> QED BY <4>1, <5>1 DEF After, MailBoxes, Places
      <4> QED BY <4>2 DEF After
    <3> QED BY <1>5, <3>1 DEF MailInv, plan
  <2> QED BY <2>4, <2>6
<1> QED BY <1>1, <1>4, <1>5

\* A message without a run has captured nothing.
LEMMA NoRunIsEmpty == NoRun.rules \in Seq(Definitions)
<1>1. NoRun.rules = <<>>
  BY DEF NoRun
<1>2. <<>> \in Seq(Definitions)
  OBVIOUS
<1> QED BY <1>1, <1>2

\* Every step keeps messages in their places and runs sequences of definitions.
LEMMA MailNext == AutoInv /\ MailInv /\ RulesNext => MailInv'
<1> SUFFICES ASSUME AutoInv, MailInv, RulesNext PROVE MailInv'
  OBVIOUS
<1>1. DOMAIN run = Mails /\ exists \subseteq Targets /\ box \in [Mails -> MailBoxes]
  BY DEF AutoInv, ShapeInv, MailInv
<1>2. CASE UNCHANGED <<exists, box, run>>
  BY <1>2, MailKept
<1>3. ASSUME NEW t \in Targets, DeleteTarget(t) PROVE MailInv'
  <2>1. /\ exists' \subseteq exists /\ UNCHANGED run
        /\ box' = [m \in Mails |-> [box[m] EXCEPT !.labels = @ \ {t}]]
    BY <1>3 DEF DeleteTarget, runVars
  <2>2. ASSUME NEW m \in Mails PROVE [box[m] EXCEPT !.labels = @ \ {t}] \in MailBoxes
    <3>1. box[m] \in MailBoxes
      BY <1>1
    <3> QED BY <3>1 DEF MailBoxes
  <2> QED BY <1>1, <2>1, <2>2 DEF MailInv
<1>4. ASSUME NEW m \in Mails, Accept(m) PROVE MailInv'
  <2>1. UNCHANGED exists /\ box' = [box EXCEPT ![m].folder = "inbox"]
    BY <1>4 DEF Accept
  <2>2. PICK list \in InOrder : Captures(m, list)
    BY <1>4 DEF Accept
  <2>3. run'[m].rules \in Seq(Definitions) /\ \A x \in Mails \ {m} : run'[x] = run[x]
    BY <2>2, CapturesStep
  <2>4. box' \in [Mails -> MailBoxes]
    BY <1>1, <2>1 DEF MailBoxes, Places
  <2> QED BY <1>1, <2>1, <2>3, <2>4 DEF MailInv
<1>5. ASSUME NEW m \in Mails, FileMail(m) PROVE MailInv'
  <2>1. UNCHANGED exists
    BY <1>5 DEF FileMail
  <2>2. \A x \in Mails : run'[x].rules \in Seq(Definitions)
    <3>1. UNCHANGED run \/ run' = [run EXCEPT ![m] = NoRun]
      BY <1>5 DEF FileMail, runVars
    <3>2. NoRun.rules \in Seq(Definitions)
      BY NoRunIsEmpty
    <3>3. \A x \in Mails : run'[x] = run[x] \/ run'[x] = NoRun
      BY <1>1, <3>1
    <3>4. \A x \in Mails : run[x].rules \in Seq(Definitions)
      BY DEF MailInv
    <3> QED BY <3>2, <3>3, <3>4
  <2>3. box' \in [Mails -> MailBoxes]
    <3>1. \/ \E f \in {"inbox", "elsewhere"} \cup (Folders \cap exists) :
                box' = [box EXCEPT ![m].folder = f]
          \/ \E l \in Labels \cap exists : box' = [box EXCEPT ![m].labels = @ \cup {l}]
          \/ box' = [box EXCEPT ![m] = [folder |-> "gone", labels |-> {}]]
      BY <1>5 DEF FileMail
    <3> QED BY <1>1, <3>1 DEF MailBoxes, Places
  <2> QED BY <2>1, <2>2, <2>3 DEF MailInv
<1>6. ASSUME Turn PROVE MailInv'
  <2>1. UNCHANGED exists
    BY <1>6 DEF Turn
  <2> QED BY <1>1, <1>6, <2>1, TurnMail DEF MailInv
<1>7. ASSUME NEW e \in Members, Looks(e) \/ Reorder(e)
      PROVE  UNCHANGED <<exists, box, run>>
  BY <1>7 DEF Looks, Reorder, runVars
<1>8. ASSUME NEW e \in Members, NEW r \in Rules, Enable(e, r) \/ SetEnabled(e, r) \/ Archive(e, r)
      PROVE  UNCHANGED <<exists, box, run>>
  BY <1>8 DEF Enable, SetEnabled, Archive, runVars
<1>9. ASSUME NEW e \in Members, NEW r \in Rules, NEW d \in Definitions,
             CreateDraft(e, r, d) \/ UpdateDraft(e, r, d) \/ DryRun(e, r, d)
      PROVE  UNCHANGED <<exists, box, run>>
  <2>1. CASE CreateDraft(e, r, d)
    BY <2>1 DEF CreateDraft, runVars
  <2>2. CASE UpdateDraft(e, r, d)
    BY <2>2 DEF UpdateDraft, runVars
  <2>3. CASE DryRun(e, r, d)
    BY <2>3 DEF DryRun, runVars
  <2> QED BY <1>9, <2>1, <2>2, <2>3
<1>10. ASSUME NEW r \in Rules, NEW d \in Definitions, Forgets(r, d)
       PROVE  UNCHANGED <<exists, box, run>>
  BY <1>10 DEF Forgets, runVars
<1> QED BY <1>2, <1>3, <1>4, <1>5, <1>6, <1>7, <1>8, <1>9, <1>10 DEF RulesNext

-----------------------------------------------------------------------------
(* The theorems                                                            *)

LEMMA AutoInit == RulesInit => AutoInv
<1> SUFFICES ASSUME RulesInit PROVE AutoInv
  OBVIOUS
<1>1. /\ rule = [r \in Rules |-> NoRule] /\ version = [r \in Rules |-> <<>>]
      /\ refs = [r \in Rules |-> {}] /\ order = 0
      /\ tests = [r \in Rules |-> [d \in Definitions |-> "none"]]
      /\ view = [e \in Members |-> [rules |-> rule, order |-> order]]
      /\ run = [m \in Mails |-> NoRun] /\ runRefs = [m \in Mails |-> {}]
      /\ proven = [r \in Rules |-> {}] /\ blind = FALSE
  BY DEF RulesInit
<1>2. IsRule(NoRule) /\ IsRun(NoRun)
  BY DEF IsRule, IsRun, NoRule, NoRun, RuleStates, RunStates
<1>3. ShapeInv
  BY <1>1, <1>2 DEF ShapeInv
<1>4. RulesInv
  BY <1>1 DEF RulesInv, RuleParts, NoRule, InForce
<1>5. ViewInv
  BY <1>1 DEF ViewInv, ViewParts, NoRule
<1>6. RunsInv
  BY <1>1, <1>2, RulesAssumption DEF RunsInv, RunParts, NoRun, Open
<1> QED BY <1>3, <1>4, <1>5, <1>6 DEF AutoInv

\* Every step keeps the rules, the views and the runs as they should be.
LEMMA AutoNext == AutoInv /\ [RulesNext]_autoVars => AutoInv'
<1>1. AutoInv /\ UNCHANGED autoVars => AutoInv'
  <2> SUFFICES ASSUME AutoInv, UNCHANGED autoVars PROVE AutoInv'
    OBVIOUS
  <2>1. UNCHANGED <<editVars, exists>> /\ UNCHANGED <<exists, runVars>> /\ ShapeInv /\ RunsInv
    BY DEF autoVars, AutoInv
  <2> QED BY <2>1, RunsKept, EditsKept DEF ShapeInv, runVars
<1> QED BY <1>1, LooksStep, ReorderStep, EnableStep, SetEnabledStep, ArchiveStep, CreateDraftStep,
           UpdateDraftStep, DryRunStep, ForgetsStep, DeleteTargetStep, AcceptStep, FileMailStep,
           RunTurnStep
        DEF RulesNext

\* The invariants hold whatever members edit side by side, whatever arrives and
\* whenever it is run.
THEOREM AutoInvariant == RulesSpec => [](AutoInv /\ MailInv)
<1>1. RulesInit => MailInv
  <2> SUFFICES ASSUME RulesInit PROVE MailInv
    OBVIOUS
  <2>1. /\ exists = Targets /\ box = [m \in Mails |-> [folder |-> "none", labels |-> {}]]
        /\ run = [m \in Mails |-> NoRun]
    BY DEF RulesInit
  <2>2. [folder |-> "none", labels |-> {}] \in MailBoxes
    BY DEF MailBoxes, Places
  <2>3. \A m \in Mails : run[m].rules \in Seq(Definitions)
    BY <2>1, NoRunIsEmpty
  <2> QED BY <2>1, <2>2, <2>3 DEF MailInv
<1>2. MailInv /\ UNCHANGED autoVars => MailInv'
  BY MailKept DEF autoVars, runVars
<1>3. AutoInv /\ MailInv /\ [RulesNext]_autoVars => (AutoInv /\ MailInv)'
  BY <1>2, AutoNext, MailNext
<1> QED BY <1>1, <1>3, AutoInit, PTL DEF RulesSpec

\* A label or folder outlives every version in force and every open run that
\* refers to it (removeInactiveReferences, captureLiveInbound, deleteLabel and
\* deleteFolder); what acts on mail has passed a test of exactly its definition
\* (enable); no edit lands on what its author has not seen (assertRevision); and a
\* run does what the rules it captured ask for, in order (planAutomationRun).
THEOREM RulesStayKept == RulesSpec => []RulesAreKept
<1> SUFFICES ASSUME AutoInv, MailInv PROVE RulesAreKept
  BY AutoInvariant, PTL
<1>1. TargetsAreKept
  <2>1. ASSUME NEW r \in Listed, NEW v \in InForce(r)
        PROVE  TargetsOf(version[r][v]) \subseteq exists
    <3>1. RuleParts(r) /\ rule[r].state \notin {"none", "archived"}
      BY DEF Listed, AutoInv, RulesInv
    <3>2. v \in refs[r]
      BY <3>1 DEF RuleParts
    <3> QED BY <3>1, <3>2 DEF RuleParts
  <2>2. ASSUME NEW m \in Mails, run[m].state \in Open, NEW i \in DOMAIN run[m].rules
        PROVE  TargetsOf(run[m].rules[i]) \subseteq exists
    BY <2>2 DEF AutoInv, RunsInv, RunParts
  <2> QED BY <2>1, <2>2 DEF TargetsAreKept
<1>2. ActiveWasTested
  BY DEF AutoInv, RulesInv, RuleParts, ActiveWasTested
<1>3. EditsAreSeen
  BY DEF AutoInv, ShapeInv, EditsAreSeen
<1>4. RulesTypeOK
  <2>1. ASSUME NEW r \in Rules
        PROVE  /\ rule[r].state \in {"none", "draft", "enabled", "disabled", "archived"}
               /\ {rule[r].active, rule[r].draft} \subseteq 0..Len(version[r])
               /\ rule[r].state \in {"enabled", "disabled"} => rule[r].active > 0
               /\ refs[r] \subseteq 1..Len(version[r])
               /\ tests[r] \in [Definitions -> {"none", "failed", "passed"}]
    <3>1. IsRule(rule[r]) /\ RuleParts(r) /\ version[r] \in Seq(Definitions)
      BY DEF AutoInv, ShapeInv, RulesInv
    <3>2. tests[r] \in [Definitions -> {"none", "failed", "passed"}]
      BY DEF AutoInv, ShapeInv
    <3> QED BY <3>1, <3>2 DEF IsRule, RuleParts, RuleStates
  <2>2. ASSUME NEW m \in Mails
        PROVE  /\ box[m].folder \in Places \cup Folders /\ box[m].labels \subseteq Labels
               /\ run[m].state \in RunStates
               /\ run[m].attempts \in 0..MaxAttempts /\ runRefs[m] \subseteq Targets
    <3>1. RunParts(m) /\ box[m] \in MailBoxes /\ exists \subseteq Targets
      BY DEF AutoInv, RunsInv, MailInv
    <3> QED BY <3>1, RulesAssumption DEF RunParts, IsRun, MailBoxes
  <2>3. exists \subseteq Targets /\ blind \in BOOLEAN
    BY DEF MailInv, AutoInv, ShapeInv
  <2> QED BY <2>1, <2>2, <2>3 DEF RulesTypeOK, RunStates
<1>5. RunsAreOrderly
  <2> SUFFICES ASSUME NEW m \in Mails, run[m].state \in Open
               PROVE  RunsAreOrderly!(m)!2
    BY DEF RunsAreOrderly
  <2>1. /\ run[m].rules \in Seq(Definitions)
        /\ \A i \in DOMAIN run[m].rules : TargetsOf(run[m].rules[i]) \subseteq exists
    BY DEF MailInv, AutoInv, RunsInv, RunParts
  <2> QED BY <2>1, PlanIsOrderly
<1> QED BY <1>1, <1>2, <1>3, <1>4, <1>5 DEF RulesAreKept

-----------------------------------------------------------------------------
(* The semantic index: the invariant                                       *)

Ops == {"upsert", "delete"}
States == {NoState} \cup
  [status : {"building", "ready", "failed"}, cursor : Nat, files : {"building", "ready"}, fcursor : Nat]
ASource == [of : Emails, kind : {"text", "file"}, version : Nat]
AJob == [op : Ops, state : {"pending", "processing", "submitted", "failed"},
         tries : 0..MaxJobTries, old : BOOLEAN]
AFile == [state : {"pending", "processing", "failed", "ready", "unsupported"},
          tries : 0..MaxJobTries, old : BOOLEAN]
Turns ==
  [pc : Awaits \cup {"prepare", "page", "confirm", "lease"},
   why : {"none", "backfill", "replay", "again"}, todo : SUBSET Emails, page : SUBSET Emails,
   upto : Nat, last : BOOLEAN, snap : Nat, since : SUBSET Emails, seen : SUBSET Tokens,
   sends : SUBSET (Ops \X Tokens), file : 0..N]

\* The values variables take.
IndexShape ==
  /\ mail \in [Emails -> [place : {"in", "out", "gone"}, version : Nat]]
  /\ object \in [Emails -> Nat] /\ behind \subseteq Emails /\ state \in States
  /\ source \in [Tokens -> {NoSource} \cup ASource] /\ jobs \in [Tokens -> {NoJob} \cup AJob]
  /\ files \in [Emails -> {NoFile} \cup AFile]
  /\ visible \subseteq Tokens /\ flying \subseteq Ops \X Tokens
  /\ turn \in Turns /\ raced \in BOOLEAN

\* What a turn holds at each of its steps.
Projecting == turn.pc \in {"page", "digest"}
TurnShape ==
  /\ turn.why # "none" <=> Projecting
  /\ turn.sends # {} => turn.pc \in {"embed", "upsert", "delete"}
  /\ turn.pc \in {"read", "convert"} => turn.file \in Emails
  /\ turn.pc = "digest" => turn.todo # {}
  /\ turn.why \in {"replay", "again"} => turn.todo \subseteq turn.page

\* A source has no delete under way, and is visible when no upsert is; a vector
\* without a source has a delete; old submissions have landed; what is being
\* sent is leased, unless it lost its source meanwhile.
TokenParts(t) ==
  /\ source[t] # NoSource =>
       /\ In(source[t].of)
       /\ source[t].kind = "text" => source[t].version = mail[source[t].of].version
       /\ jobs[t].op # "delete" /\ <<"delete", t>> \notin flying
       /\ jobs[t] = NoJob => t \in visible
  /\ jobs[t].op = "upsert" => source[t] # NoSource
  /\ t \in visible \/ <<"upsert", t>> \in flying => source[t] # NoSource \/ jobs[t].op = "delete"
  /\ jobs[t].state = "submitted" /\ jobs[t].old => \A op \in Ops : <<op, t>> \notin flying
  /\ jobs[t].state = "processing" => jobs[t].tries > 0
  /\ <<"delete", t>> \in turn.sends => jobs[t].op = "delete" /\ jobs[t].state = "processing"
  /\ <<"upsert", t>> \in turn.sends =>
       \/ jobs[t].op = "upsert" /\ jobs[t].state = "processing"
       \/ jobs[t].op = "delete" /\ jobs[t].state = "pending"

\* A message with a source of each kind.
HasText(m) == \E t \in Tokens : source[t].of = m /\ source[t].kind = "text"
HasFile(m) == \E t \in Tokens : source[t].of = m /\ source[t].kind = "file"

\* A message that may be searched and has no source lies before the turn.
Missed(m) == In(m) /\ ~HasText(m) /\ m \notin behind
Unlisted(m) == In(m) /\ m \in Files /\ files[m] = NoFile /\ m \notin behind

EmailParts(m) ==
  /\ files[m].state = "ready" => HasFile(m)
  /\ Missed(m) /\ state.status = "building" => m > state.cursor
  /\ Missed(m) /\ state.status = "ready" => raced
  /\ Unlisted(m) /\ state # NoState => state.files = "building" /\ m > state.fcursor

\* What the turn has read of a message still holds, or the log has it.
ReadParts ==
  turn.pc = "digest" =>
    LET m == Next1
    IN \/ In(m) /\ mail[m].version = turn.snap
       \/ m \in IF turn.why = "backfill" THEN behind ELSE turn.since

\* What a turn has projected, and what it has yet to.
TurnParts(m) ==
  /\ turn.why = "backfill" /\ Missed(m) /\ state # NoState =>
       m \in turn.todo \/ (~turn.last /\ m > turn.upto)
  /\ turn.why = "replay" /\ Missed(m) /\ state # NoState => raced
  /\ /\ turn.why \in {"replay", "again"} /\ state # NoState
     /\ m \in turn.page \ turn.todo /\ In(m) /\ m \notin turn.since
     => HasText(m) /\ (m \in Files => files[m] # NoFile)

\* A state that goes during the last page of a backfill is a race.
StatusParts ==
  /\ turn.why = "backfill" /\ state # NoState => state.status = "building"
  /\ turn.why = "backfill" /\ turn.last /\ state = NoState => raced

ShapesInv == IndexShape /\ TurnShape
TokensInv == \A t \in Tokens : TokenParts(t)
EmailsInv == ReadParts /\ StatusParts /\ \A m \in Emails : EmailParts(m) /\ TurnParts(m)

IndexInv == ShapesInv /\ TokensInv /\ EmailsInv

-----------------------------------------------------------------------------
(* What a step leaves alone                                                *)

\* Fields by name: what a source, a job, an extraction and a turn are made of.
LEMMA IndexFields ==
  ASSUME IndexShape
  PROVE  /\ \A t \in Tokens :
              /\ source[t] = NoSource \/ source[t] \in ASource
              /\ jobs[t] = NoJob \/ jobs[t] \in AJob
              /\ source[t] = NoSource <=> source[t].kind = "none"
              /\ source[t] # NoSource => source[t].of \in Emails /\ source[t].kind \in Both
              /\ jobs[t] = NoJob <=> jobs[t].op = "none"
              /\ jobs[t] = NoJob <=> jobs[t].state = "none"
         /\ \A m \in Emails :
              /\ files[m] = NoFile \/ files[m] \in AFile
              /\ files[m] = NoFile <=> files[m].state = "none"
         /\ state = NoState <=> state.status = "none"
         /\ NoSource.kind = "none" /\ NoSource.of = 0
<1>1. ASSUME NEW t \in Tokens
      PROVE  /\ source[t] = NoSource \/ source[t] \in ASource
             /\ jobs[t] = NoJob \/ jobs[t] \in AJob
  BY DEF IndexShape
<1>2. NoSource.kind = "none" /\ NoSource.of = 0 /\ NoJob.op = "none" /\ NoJob.state = "none"
      /\ NoFile.state = "none" /\ NoState.status = "none"
  BY DEF NoSource, NoJob, NoFile, NoState
<1>3. \A s \in ASource : s.kind \in Both /\ s.of \in Emails /\ s.kind # "none"
  BY DEF ASource, Both
<1>4. \A j \in AJob : j.op # "none" /\ j.state # "none"
  BY DEF AJob, Ops
<1>5. \A f \in AFile : f.state # "none"
  BY DEF AFile
<1>6. \A m \in Emails : files[m] = NoFile \/ files[m] \in AFile
  BY DEF IndexShape
<1>7. state = NoState \/ state.status # "none"
  BY DEF IndexShape, States
<1> QED BY <1>1, <1>2, <1>3, <1>4, <1>5, <1>6, <1>7

\* A step that touches no source, job or vector, and sends nothing new.
LEMMA TokensKept ==
  ASSUME TokensInv, UNCHANGED <<mail, source, jobs, visible, flying>>,
         turn'.sends \in {turn.sends, {}}
  PROVE  TokensInv'
<1> SUFFICES ASSUME NEW t \in Tokens PROVE TokenParts(t)'
  BY DEF TokensInv
<1>1. TokenParts(t)
  BY DEF TokensInv
<1>2. \A op \in Ops : <<op, t>> \in turn'.sends => <<op, t>> \in turn.sends
  OBVIOUS
<1> QED BY <1>1, <1>2 DEF TokenParts, In, Ops

\* What the projection looks at in a turn.
SameTurn ==
  /\ turn'.pc = turn.pc /\ turn'.why = turn.why /\ turn'.todo = turn.todo /\ turn'.page = turn.page
  /\ turn'.upto = turn.upto /\ turn'.last = turn.last /\ turn'.snap = turn.snap
  /\ turn'.since = turn.since

\* A step beside the projection: extractions may begin, fail or be queued, and the
\* projection as a whole may fail.
LEMMA EmailsKept ==
  ASSUME IndexShape, TurnShape, EmailsInv, UNCHANGED <<mail, behind, source, raced>>,
         SameTurn \/ (turn'.why = "none" /\ turn'.pc \notin {"page", "digest"}),
         state' = state \/ (state' = WithState([state EXCEPT !.status = "failed"])
                             /\ turn'.why = "none"),
         \A m \in Emails : /\ files'[m].state = "ready" => files[m].state = "ready"
                           /\ files'[m] = NoFile => files[m] = NoFile
  PROVE  EmailsInv'
<1>1. ASSUME NEW m \in Emails
      PROVE  /\ HasText(m)' <=> HasText(m)
             /\ HasFile(m)' <=> HasFile(m)
             /\ In(m)' <=> In(m)
             /\ Missed(m)' <=> Missed(m)
             /\ Unlisted(m)' => Unlisted(m)
  BY DEF HasText, HasFile, In, Missed, Unlisted
<1>2. /\ state'.cursor = state.cursor /\ state'.fcursor = state.fcursor /\ state'.files = state.files
      /\ state' = NoState <=> state = NoState
      /\ state'.status \in {state.status, "failed"}
      /\ turn'.why # "none" => state' = state
  <2>1. CASE state' = state
    BY <2>1
  <2>2. CASE state = NoState
    BY <2>2 DEF WithState
  <2>3. CASE state # NoState /\ state' = WithState([state EXCEPT !.status = "failed"])
                             /\ turn'.why = "none"
    <3>1. state \in [status : {"building", "ready", "failed"}, cursor : Nat,
                     files : {"building", "ready"}, fcursor : Nat]
      BY <2>3 DEF IndexShape, States
    <3>2. state' = [state EXCEPT !.status = "failed"]
      BY <2>3 DEF WithState
    <3>3. state'.status = "failed" /\ NoState.status = "none"
      BY <3>1, <3>2 DEF NoState
    <3> QED BY <2>3, <3>1, <3>2, <3>3
  <2> QED BY <2>1, <2>2, <2>3
<1>3. ASSUME NEW m \in Emails PROVE EmailParts(m)'
  <2>1. EmailParts(m)
    BY DEF EmailsInv
  <2> QED BY <1>1, <1>2, <2>1 DEF EmailParts
<1>4. CASE turn'.why = "none" /\ turn'.pc \notin {"page", "digest"}
  <2>1. ReadParts' /\ StatusParts' /\ \A m \in Emails : TurnParts(m)'
    BY <1>4 DEF ReadParts, StatusParts, TurnParts
  <2> QED BY <1>3, <2>1 DEF EmailsInv
<1>5. CASE SameTurn /\ turn'.why # "none"
  <2>1. ReadParts' /\ StatusParts'
    BY <1>2, <1>5 DEF EmailsInv, ReadParts, StatusParts, SameTurn, In, Next1
  <2>2. ASSUME NEW m \in Emails PROVE TurnParts(m)'
    <3>1. TurnParts(m)
      BY DEF EmailsInv
    <3> QED BY <1>1, <1>2, <1>5, <3>1 DEF TurnParts, SameTurn
  <2> QED BY <1>3, <2>1, <2>2 DEF EmailsInv
<1> QED BY <1>3, <1>4, <1>5 DEF SameTurn, TurnShape, Projecting

-----------------------------------------------------------------------------
(* Sources that come and go                                                *)

\* What the triggers make of the sources and jobs.
LEMMA RewriteEffect ==
  ASSUME IndexShape, NEW gone, NEW new, NEW s, Rewrite(gone, new, s), new = {} \/ s \in ASource
  PROVE  /\ source' \in [Tokens -> {NoSource} \cup ASource]
         /\ jobs' \in [Tokens -> {NoJob} \cup AJob]
         /\ \A t \in Tokens :
              /\ t \in new => source'[t] = s /\ jobs'[t] = Pending("upsert")
              /\ t \in gone /\ t \notin new => source'[t] = NoSource /\ jobs'[t] = Pending("delete")
              /\ t \notin gone /\ t \notin new => source'[t] = source[t] /\ jobs'[t] = jobs[t]
<1>1. Pending("upsert") \in AJob /\ Pending("delete") \in AJob
  <2>1. MaxJobTries \in Nat
    BY IndexAssumption
  <2> QED BY <2>1 DEF Pending, AJob, Ops
<1>2. /\ source' = [t \in Tokens |-> IF t \in new THEN s ELSE IF t \in gone THEN NoSource ELSE source[t]]
      /\ jobs' = [t \in Tokens |-> IF t \in new THEN Pending("upsert")
                                   ELSE IF t \in gone THEN Pending("delete") ELSE jobs[t]]
  BY DEF Rewrite
<1>3. \A t \in Tokens : source[t] \in {NoSource} \cup ASource /\ jobs[t] \in {NoJob} \cup AJob
  BY DEF IndexShape
<1>4. source' \in [Tokens -> {NoSource} \cup ASource]
  BY <1>2, <1>3
<1>5. jobs' \in [Tokens -> {NoJob} \cup AJob]
  BY <1>1, <1>2, <1>3
<1>6. ASSUME NEW t \in Tokens
      PROVE  /\ t \in new => source'[t] = s /\ jobs'[t] = Pending("upsert")
             /\ t \in gone /\ t \notin new => source'[t] = NoSource /\ jobs'[t] = Pending("delete")
             /\ t \notin gone /\ t \notin new => source'[t] = source[t] /\ jobs'[t] = jobs[t]
  BY <1>2
<1> QED BY <1>4, <1>5, <1>6

\* A source that goes leaves its delete behind, a new one has a token that nothing
\* remembers; those that stay are of messages that stay as they are.
LEMMA TokensRewritten ==
  ASSUME IndexShape, TokensInv, NEW gone, NEW new, NEW s, Rewrite(gone, new, s),
         new = {} \/ s \in ASource, new \subseteq Unused,
         \A t \in Tokens : t \in gone => source[t] # NoSource,
         UNCHANGED <<visible, flying>>, turn'.sends \in {turn.sends, {}},
         turn.sends # {} => turn'.sends = turn.sends,
         \A t \in Tokens : source'[t] # NoSource =>
           /\ mail'[source'[t].of].place = "in"
           /\ source'[t].kind = "text" => source'[t].version = mail'[source'[t].of].version
  PROVE  TokensInv'
<1> SUFFICES ASSUME NEW t \in Tokens PROVE TokenParts(t)'
  BY DEF TokensInv
<1>1. TokenParts(t)
  BY DEF TokensInv
<1>2. /\ t \in new => source'[t] = s /\ jobs'[t] = Pending("upsert")
      /\ t \in gone /\ t \notin new => source'[t] = NoSource /\ jobs'[t] = Pending("delete")
      /\ t \notin gone /\ t \notin new => source'[t] = source[t] /\ jobs'[t] = jobs[t]
  BY RewriteEffect
<1>3. turn'.sends = turn.sends
  OBVIOUS
<1>4. \A op \in Ops : /\ Pending(op).op = op /\ Pending(op).state = "pending"
                      /\ Pending(op) # NoJob
  BY DEF Pending, NoJob, Ops
<1>5. CASE t \in new
  <2>1. source'[t] # NoSource
    <3>1. \A x \in ASource : x.kind # "none"
      BY DEF ASource
    <3> QED BY <1>2, <1>5, <3>1 DEF NoSource
  <2>2. /\ source[t] = NoSource /\ jobs[t] = NoJob /\ t \notin visible
        /\ \A op \in Ops : <<op, t>> \notin flying \cup turn.sends
    BY <1>5 DEF Unused, Ops
  <2>3. /\ <<"delete", t>> \notin flying /\ <<"upsert", t>> \notin flying
        /\ <<"delete", t>> \notin turn.sends /\ <<"upsert", t>> \notin turn.sends
    BY <2>2 DEF Ops
  <2>4. jobs'[t].op = "upsert" /\ jobs'[t].state = "pending" /\ jobs'[t] # NoJob
    BY <1>2, <1>4, <1>5 DEF Ops
  <2> QED BY <1>3, <2>1, <2>3, <2>4 DEF TokenParts, In
<1>6. CASE t \in gone /\ t \notin new
  <2>1. /\ source'[t] = NoSource
        /\ jobs'[t].op = "delete" /\ jobs'[t].state = "pending"
    BY <1>2, <1>4, <1>6 DEF Ops
  <2>2. source[t] # NoSource
    BY <1>6
  <2> QED BY <1>1, <1>3, <2>1, <2>2 DEF TokenParts, In
<1>7. CASE t \notin gone /\ t \notin new
  <2>1. source'[t] = source[t] /\ jobs'[t] = jobs[t]
    BY <1>2, <1>7
  <2> QED BY <1>1, <1>3, <2>1 DEF TokenParts, In
<1> QED BY <1>5, <1>6, <1>7

\* Sources of a message are sources.
LEMMA SourcesAreSources ==
  ASSUME IndexShape, NEW S, NEW kinds \in SUBSET Both, NEW t \in Sources(S, kinds)
  PROVE  t \in Tokens /\ source[t] # NoSource /\ source[t].of \in S /\ source[t].kind \in kinds
BY IndexFields DEF Sources, Both

-----------------------------------------------------------------------------
(* Least and last messages                                                 *)

\* The least of a set of messages.
LEMMA LeastMail ==
  ASSUME NEW S \in SUBSET Emails, S # {}
  PROVE  \E m \in S : \A k \in S : m <= k
<1>1. S \in SUBSET Nat
  BY DEF Emails
<1> QED BY <1>1, LeastOf

\* The last of a set of messages.
LEMMA LastMail ==
  ASSUME NEW S \in SUBSET Emails, S # {}
  PROVE  \E m \in S : \A k \in S : k <= m
<1> DEFINE T == {N - m : m \in S}
<1>1. N \in Nat
  BY IndexAssumption
<1>2. T \in SUBSET Nat /\ T # {}
  <2>1. \A m \in S : m \in Nat /\ m <= N /\ N - m \in Nat
    BY <1>1 DEF Emails
  <2> QED BY <2>1
<1>3. PICK n \in T : \A k \in T : n <= k
  <2> HIDE DEF T
  <2> QED BY <1>2, LeastOf
<1>4. PICK m \in S : n = N - m
  BY <1>3
<1>5. ASSUME NEW k \in S PROVE k <= m
  <2>1. N - m <= N - k
    BY <1>3, <1>4
  <2>2. m \in Nat /\ k \in Nat
    BY DEF Emails
  <2> QED BY <1>1, <2>1, <2>2
<1> QED BY <1>5

\* The next message to project is one of those that are left.
LEMMA NextToDo ==
  ASSUME IndexShape, TurnShape, turn.todo # {}
  PROVE  Next1 \in turn.todo /\ Next1 \in Emails
<1>1. turn.todo \in SUBSET Emails
  BY DEF IndexShape, Turns
<1>2. \E m \in turn.todo : \A k \in turn.todo : m <= k
  BY <1>1, LeastMail
<1> QED BY <1>1, <1>2 DEF Next1

-----------------------------------------------------------------------------
(* The mail                                                                *)

\* A change is in the log behind what the turn has read, and in what it has to
\* leave there.
LEMMA ChangedTurn ==
  ASSUME IndexShape, TurnShape, NEW m \in Emails, Changed(m)
  PROVE  /\ turn' \in Turns /\ behind' = behind \cup {m} /\ behind' \subseteq Emails
         /\ turn'.pc = turn.pc /\ turn'.why = turn.why /\ turn'.todo = turn.todo
         /\ turn'.page = turn.page /\ turn'.upto = turn.upto /\ turn'.last = turn.last
         /\ turn'.snap = turn.snap /\ turn'.sends = turn.sends /\ turn'.file = turn.file
         /\ turn.why \in {"replay", "again"} => turn'.since = turn.since \cup {m}
         /\ turn.why \notin {"replay", "again"} => turn' = turn
         /\ UNCHANGED <<state, indexVars, raced, faults>> /\ TurnShape'
<1>1. /\ turn' = IF turn.why \in {"replay", "again"} THEN [turn EXCEPT !.since = @ \cup {m}] ELSE turn
      /\ behind' = behind \cup {m} /\ UNCHANGED <<state, indexVars, raced, faults>>
  BY DEF Changed
<1>2. turn \in Turns /\ behind \subseteq Emails
  BY DEF IndexShape
<1>3. turn' \in Turns
  BY <1>1, <1>2 DEF Turns
<1>4. /\ turn'.pc = turn.pc /\ turn'.why = turn.why /\ turn'.todo = turn.todo
      /\ turn'.page = turn.page /\ turn'.upto = turn.upto /\ turn'.last = turn.last
      /\ turn'.snap = turn.snap /\ turn'.sends = turn.sends /\ turn'.file = turn.file
      /\ turn.why \in {"replay", "again"} => turn'.since = turn.since \cup {m}
  BY <1>1, <1>2 DEF Turns
<1>5. TurnShape'
  BY <1>4 DEF TurnShape, Projecting
<1> QED BY <1>1, <1>2, <1>3, <1>4, <1>5

\* What the projection owes a message that has changed is in the log; it owes the
\* others what it did.
LEMMA MailEmails ==
  ASSUME IndexShape, TurnShape, EmailsInv, NEW m \in Emails, Changed(m),
         \A x \in Emails \ {m} : /\ mail'[x] = mail[x] /\ files'[x] = files[x]
                                 /\ HasText(x)' <=> HasText(x)
                                 /\ HasFile(x)' <=> HasFile(x),
         files'[m].state = "ready" => HasFile(m)'
  PROVE  EmailsInv'
<1>1. /\ behind' = behind \cup {m} /\ state' = state /\ raced' = raced
      /\ turn'.pc = turn.pc /\ turn'.why = turn.why /\ turn'.todo = turn.todo
      /\ turn'.page = turn.page /\ turn'.upto = turn.upto /\ turn'.last = turn.last
      /\ turn'.snap = turn.snap
      /\ turn.why \in {"replay", "again"} => turn'.since = turn.since \cup {m}
  BY ChangedTurn
<1>2. ASSUME NEW x \in Emails \ {m}
      PROVE  /\ HasText(x)' <=> HasText(x)
             /\ HasFile(x)' <=> HasFile(x)
             /\ In(x)' <=> In(x)
             /\ Missed(x)' <=> Missed(x)
             /\ Unlisted(x)' <=> Unlisted(x)
  <2>1. (x \in behind') <=> (x \in behind)
    BY <1>1
  <2>2. In(x)' <=> In(x)
    BY DEF In
  <2> QED BY <2>1, <2>2 DEF Missed, Unlisted
<1>3. ~Missed(m)' /\ ~Unlisted(m)'
  BY <1>1 DEF Missed, Unlisted
<1>4. ASSUME NEW x \in Emails PROVE EmailParts(x)'
  <2>1. CASE x = m
    BY <1>3, <2>1 DEF EmailParts
  <2>2. CASE x # m
    <3>1. EmailParts(x)
      BY DEF EmailsInv
    <3> QED BY <1>1, <1>2, <2>2, <3>1 DEF EmailParts
  <2> QED BY <2>1, <2>2
<1>5. ASSUME NEW x \in Emails PROVE TurnParts(x)'
  <2>1. CASE x = m
    BY <1>1, <1>3, <2>1 DEF TurnParts
  <2>2. CASE x # m
    <3>1. TurnParts(x)
      BY DEF EmailsInv
    <3>2. turn.why \in {"replay", "again"} => (x \in turn'.since <=> x \in turn.since)
      BY <1>1, <2>2
    <3> QED BY <1>1, <1>2, <2>2, <3>1, <3>2 DEF TurnParts
  <2> QED BY <2>1, <2>2
<1>6. ReadParts'
  <2> SUFFICES ASSUME turn.pc = "digest" PROVE ReadParts'
    BY <1>1 DEF ReadParts
  <2>1. Next1' = Next1
    BY <1>1 DEF Next1
  <2>2. turn.why \in {"backfill", "replay", "again"}
    BY DEF TurnShape, Projecting, IndexShape, Turns
  <2>3. \/ In(Next1) /\ mail[Next1].version = turn.snap
        \/ Next1 \in IF turn.why = "backfill" THEN behind ELSE turn.since
    BY DEF EmailsInv, ReadParts
  <2>4. CASE Next1 = m
    <3>1. m \in IF turn.why = "backfill" THEN behind' ELSE turn'.since
      BY <1>1, <2>2
    <3> QED BY <1>1, <2>1, <2>4, <3>1 DEF ReadParts
  <2>5. CASE Next1 \in IF turn.why = "backfill" THEN behind ELSE turn.since
    <3>1. Next1 \in IF turn.why = "backfill" THEN behind' ELSE turn'.since
      BY <1>1, <2>2, <2>5
    <3> QED BY <1>1, <2>1, <3>1 DEF ReadParts
  <2>6. CASE Next1 # m /\ In(Next1) /\ mail[Next1].version = turn.snap
    <3>1. Next1 \in Emails
      <4>1. turn.todo # {}
        BY DEF TurnShape
      <4> QED BY <4>1, NextToDo
    <3>2. mail'[Next1] = mail[Next1]
      BY <2>6, <3>1
    <3> QED BY <1>1, <2>1, <2>6, <3>2 DEF ReadParts, In
  <2> QED BY <2>3, <2>4, <2>5, <2>6
<1>7. StatusParts'
  BY <1>1 DEF EmailsInv, StatusParts
<1> QED BY <1>4, <1>5, <1>6, <1>7 DEF EmailsInv

\* A change of a message drops some of its sources; those that stay are current.
LEMMA MailMoves ==
  ASSUME IndexInv, NEW m \in Emails, Changed(m), NEW gone, Rewrite(gone, {}, NoSource),
         gone \subseteq Sources({m}, Both),
         mail' \in [Emails -> [place : {"in", "out", "gone"}, version : Nat]],
         \A x \in Emails \ {m} : mail'[x] = mail[x],
         \A t \in Tokens : source[t].of = m /\ t \notin gone /\ source[t] # NoSource =>
           mail'[m].place = "in" /\ (source[t].kind = "text" => source[t].version = mail'[m].version),
         files' = Forget({m}) \/ (files' = files /\ \A t \in gone : source[t].kind = "text"),
         object' \in [Emails -> Nat]
  PROVE  IndexInv'
<1>1. IndexShape /\ TurnShape /\ TokensInv /\ EmailsInv
  BY DEF IndexInv, ShapesInv
<1>2. /\ turn' \in Turns /\ behind' \subseteq Emails /\ TurnShape' /\ turn'.sends = turn.sends
      /\ UNCHANGED <<state, visible, flying, raced>>
  BY <1>1, ChangedTurn DEF indexVars
<1>3. /\ source' \in [Tokens -> {NoSource} \cup ASource]
      /\ jobs' \in [Tokens -> {NoJob} \cup AJob]
      /\ \A t \in Tokens : /\ t \in gone => source'[t] = NoSource
                           /\ t \notin gone => source'[t] = source[t]
  BY <1>1, RewriteEffect
<1>4. \A t \in gone : t \in Tokens /\ source[t] # NoSource /\ source[t].of = m /\ source[t].kind # "none"
  BY <1>1, SourcesAreSources DEF Both
<1>5. files' \in [Emails -> {NoFile} \cup AFile] /\ \A x \in Emails \ {m} : files'[x] = files[x]
  BY <1>1 DEF IndexShape, Forget
<1>6. IndexShape'
  BY <1>1, <1>2, <1>3, <1>5 DEF IndexShape
<1>7. TokensInv'
  <2>1. ASSUME NEW t \in Tokens, source'[t] # NoSource
        PROVE  /\ mail'[source'[t].of].place = "in"
               /\ source'[t].kind = "text" => source'[t].version = mail'[source'[t].of].version
    <3>1. t \notin gone /\ source'[t] = source[t] /\ source[t] # NoSource /\ source[t].of \in Emails
      BY <1>1, <1>3, <2>1, IndexFields
    <3>2. TokenParts(t)
      BY <1>1 DEF TokensInv
    <3>3. CASE source[t].of = m
      BY <3>1, <3>3
    <3>4. CASE source[t].of # m
      BY <3>1, <3>2, <3>4 DEF TokenParts, In
    <3> QED BY <3>3, <3>4
  <2> QED BY <1>1, <1>2, <1>4, <2>1, TokensRewritten
<1>8. ASSUME NEW x \in Emails \ {m}
      PROVE  /\ HasText(x)' <=> HasText(x)
             /\ HasFile(x)' <=> HasFile(x)
  <2>1. ASSUME NEW t \in Tokens
        PROVE  /\ source'[t].of = x /\ source'[t].kind # "none"
                    <=> source[t].of = x /\ source[t].kind # "none"
               /\ source[t].of = x /\ source[t].kind # "none" => source'[t] = source[t]
    BY <1>3, <1>4, IndexFields, <1>1
  <2> QED BY <2>1 DEF HasText, HasFile
<1>9. files'[m].state = "ready" => HasFile(m)'
  <2>1. CASE files' = Forget({m})
    BY <2>1 DEF Forget, NoFile
  <2>2. CASE files' = files /\ \A t \in gone : source[t].kind = "text"
    <3>1. HasFile(m) => HasFile(m)'
      BY <1>3, <2>2 DEF HasFile
    <3>2. EmailParts(m)
      BY <1>1 DEF EmailsInv
    <3> QED BY <2>2, <3>1, <3>2 DEF EmailParts
  <2> QED BY <2>1, <2>2
<1>10. EmailsInv'
  BY <1>1, <1>5, <1>8, <1>9, MailEmails
<1> QED BY <1>2, <1>6, <1>7, <1>10 DEF IndexInv, ShapesInv

\* A message that is not searched has no sources.
LEMMA NoSourcesOutside ==
  ASSUME IndexInv, NEW m \in Emails, mail[m].place # "in", NEW t \in Tokens, source[t] # NoSource
  PROVE  source[t].of # m
<1>1. TokenParts(t)
  BY DEF IndexInv, TokensInv
<1> QED BY <1>1 DEF TokenParts, In

\* Nothing is dropped when nothing changes.
LEMMA NothingDropped ==
  ASSUME IndexShape, UNCHANGED <<source, jobs>>
  PROVE  Rewrite({}, {}, NoSource)
<1>1. source = [t \in Tokens |-> source[t]] /\ jobs = [t \in Tokens |-> jobs[t]]
  BY DEF IndexShape
<1> QED BY <1>1 DEF Rewrite

\* The triggers drop the sources of a message whose content changes or that may no
\* longer be searched, and the log has it.
LEMMA MailSteps ==
  ASSUME IndexInv, NEW m \in Emails,
         Arrive(m) \/ Edit(m) \/ Exclude(m) \/ Restore(m) \/ Remove(m)
  PROVE  IndexInv'
<1>1. IndexShape /\ mail[m].version \in Nat /\ mail \in [Emails -> [place : {"in", "out", "gone"}, version : Nat]]
  BY DEF IndexInv, ShapesInv, IndexShape
<1>2. \A t \in Tokens : source[t] # NoSource => source[t].kind \in Both
  BY <1>1, IndexFields
<1>3. CASE Arrive(m) \/ Restore(m)
  <2>1. /\ Changed(m) /\ UNCHANGED <<source, jobs, files>> /\ mail[m].place # "in"
        /\ mail' \in [Emails -> [place : {"in", "out", "gone"}, version : Nat]]
        /\ \A x \in Emails \ {m} : mail'[x] = mail[x]
        /\ object' \in [Emails -> Nat]
    <3>1. object \in [Emails -> Nat]
      BY <1>1 DEF IndexShape
    <3>2. CASE Arrive(m)
      BY <1>1, <3>1, <3>2 DEF Arrive
    <3>3. CASE Restore(m)
      BY <1>1, <3>1, <3>3 DEF Restore
    <3> QED BY <1>3, <3>2, <3>3
  <2>2. Rewrite({}, {}, NoSource)
    BY <1>1, <2>1, NothingDropped
  <2>3. \A t \in Tokens : source[t] # NoSource => source[t].of # m
    BY <2>1, NoSourcesOutside
  <2> QED BY <2>1, <2>2, <2>3, MailMoves
<1>4. CASE Edit(m)
  <2>1. /\ Changed(m) /\ Rewrite(Sources({m}, {"text"}), {}, NoSource) /\ UNCHANGED <<object, files>>
        /\ mail' = [mail EXCEPT ![m].version = @ + 1]
    BY <1>4 DEF Edit, Dropped
  <2>2. PICK gone : gone = Sources({m}, {"text"})
    OBVIOUS
  <2>3. /\ gone \subseteq Sources({m}, Both)
        /\ \A t \in gone : source[t].kind = "text"
        /\ \A t \in Tokens : source[t].of = m /\ source[t].kind = "text" => t \in gone
    BY <2>2 DEF Sources, Both
  <2>4. /\ mail' \in [Emails -> [place : {"in", "out", "gone"}, version : Nat]]
        /\ \A x \in Emails \ {m} : mail'[x] = mail[x]
        /\ mail'[m].place = mail[m].place
    BY <1>1, <2>1
  <2>5. ASSUME NEW t \in Tokens, source[t].of = m, t \notin gone, source[t] # NoSource
        PROVE  mail'[m].place = "in" /\ source[t].kind # "text"
    <3>1. mail[m].place = "in"
      BY <2>5, NoSourcesOutside
    <3> QED BY <2>3, <2>4, <2>5, <3>1
  <2>6. object' \in [Emails -> Nat]
    BY <1>1, <2>1 DEF IndexShape
  <2>7. Rewrite(gone, {}, NoSource)
    BY <2>1, <2>2
  <2>8. files' = files
    BY <2>1
  <2> QED BY <2>1, <2>3, <2>4, <2>5, <2>6, <2>7, <2>8, MailMoves
<1>5. CASE Exclude(m) \/ Remove(m)
  <2>1. /\ Changed(m) /\ Rewrite(Sources({m}, Both), {}, NoSource) /\ UNCHANGED object
        /\ files' = Forget({m})
        /\ mail' = [mail EXCEPT ![m].place = "out"] \/ mail' = [mail EXCEPT ![m].place = "gone"]
    BY <1>5 DEF Exclude, Remove, Dropped
  <2>2. PICK gone : gone = Sources({m}, Both)
    OBVIOUS
  <2>3. \A t \in Tokens : source[t].of = m /\ source[t] # NoSource => t \in gone
    BY <1>2, <2>2 DEF Sources
  <2>4. /\ mail' \in [Emails -> [place : {"in", "out", "gone"}, version : Nat]]
        /\ \A x \in Emails \ {m} : mail'[x] = mail[x]
    BY <1>1, <2>1
  <2>5. object' \in [Emails -> Nat]
    BY <1>1, <2>1 DEF IndexShape
  <2>6. Rewrite(gone, {}, NoSource) /\ gone \subseteq Sources({m}, Both)
    BY <2>1, <2>2
  <2> QED BY <2>1, <2>3, <2>4, <2>5, <2>6, MailMoves
<1> QED BY <1>3, <1>4, <1>5

\* An object that changes is nobody's business until it is read.
LEMMA ObjectStep ==
  ASSUME IndexInv, NEW m \in Emails, ObjectChanges(m)
  PROVE  IndexInv'
<1>1. IndexShape /\ TurnShape /\ TokensInv /\ EmailsInv
  BY DEF IndexInv, ShapesInv
<1>2. /\ UNCHANGED <<mail, behind, state, source, jobs, files, visible, flying, turn, raced>>
      /\ object' = [object EXCEPT ![m] = IF @ = 1 THEN 2 ELSE 0]
  BY DEF ObjectChanges, indexVars
<1>3. object' \in [Emails -> Nat]
  BY <1>1, <1>2 DEF IndexShape
<1>4. IndexShape' /\ TurnShape'
  BY <1>1, <1>2, <1>3 DEF IndexShape, TurnShape, Projecting
<1>5. TokensInv'
  BY <1>1, <1>2, TokensKept
<1>6. EmailsInv'
  BY <1>1, <1>2, EmailsKept DEF SameTurn
<1> QED BY <1>4, <1>5, <1>6 DEF IndexInv, ShapesInv

\* A search that drops a source of an attachment queues the attachment.
LEMMA SearchStep ==
  ASSUME IndexInv, NEW t \in Tokens, Search(t)
  PROVE  IndexInv'
<1>1. IndexShape /\ TurnShape /\ TokensInv /\ EmailsInv
  BY DEF IndexInv, ShapesInv
<1>2. PICK m : m = source[t].of
  OBVIOUS
<1>3. /\ source[t].kind = "file" /\ Rewrite({t}, {}, NoSource) /\ files' = [files EXCEPT ![m] = Queued]
      /\ UNCHANGED <<mail, object, behind, state, visible, flying, turn, raced>>
  BY <1>2 DEF Search, Dropped, mailVars, indexVars
<1>4. source[t] # NoSource /\ m \in Emails
  BY <1>1, <1>2, <1>3, IndexFields
<1>5. /\ source' \in [Tokens -> {NoSource} \cup ASource]
      /\ jobs' \in [Tokens -> {NoJob} \cup AJob]
      /\ source'[t] = NoSource /\ \A u \in Tokens \ {t} : source'[u] = source[u]
  BY <1>1, <1>3, RewriteEffect
<1>6. Queued \in AFile /\ Queued # NoFile /\ Queued.state # "ready"
  <2>1. MaxJobTries \in Nat
    BY IndexAssumption
  <2> QED BY <2>1 DEF Queued, AFile, NoFile
<1>7. /\ files' \in [Emails -> {NoFile} \cup AFile] /\ files'[m] = Queued
      /\ \A x \in Emails \ {m} : files'[x] = files[x]
  BY <1>1, <1>3, <1>4, <1>6 DEF IndexShape
<1>8. IndexShape' /\ TurnShape'
  BY <1>1, <1>3, <1>5, <1>7 DEF IndexShape, TurnShape, Projecting
<1>9. TokensInv'
  <2>1. ASSUME NEW u \in Tokens, source'[u] # NoSource
        PROVE  /\ mail'[source'[u].of].place = "in"
               /\ source'[u].kind = "text" => source'[u].version = mail'[source'[u].of].version
    <3>1. source'[u] = source[u] /\ TokenParts(u)
      BY <1>1, <1>5, <2>1 DEF TokensInv
    <3> QED BY <1>3, <2>1, <3>1 DEF TokenParts, In
  <2>2. PICK gone : gone = {t}
    OBVIOUS
  <2> QED BY <1>1, <1>3, <1>4, <2>1, <2>2, TokensRewritten
<1>10. ASSUME NEW x \in Emails
       PROVE  /\ HasText(x)' <=> HasText(x)
              /\ x # m => (HasFile(x)' <=> HasFile(x))
  <2>1. NoSource.kind = "none"
    BY DEF NoSource
  <2> QED BY <1>2, <1>3, <1>5, <2>1 DEF HasText, HasFile
<1>11. ASSUME NEW x \in Emails
       PROVE  /\ EmailParts(x)' /\ TurnParts(x)'
  <2>1. /\ In(x)' <=> In(x)
        /\ Missed(x)' <=> Missed(x)
        /\ Unlisted(x)' => Unlisted(x)
        /\ files'[x].state = "ready" => HasFile(x)' \/ files[x].state = "ready"
        /\ files[x] # NoFile => files'[x] # NoFile
    BY <1>3, <1>6, <1>7, <1>10 DEF In, Missed, Unlisted
  <2>2. EmailParts(x) /\ TurnParts(x)
    BY <1>1 DEF EmailsInv
  <2>3. EmailParts(x)'
    BY <1>3, <1>6, <1>7, <1>10, <2>1, <2>2 DEF EmailParts
  <2>4. TurnParts(x)'
    BY <1>3, <1>10, <2>1, <2>2 DEF TurnParts
  <2> QED BY <2>3, <2>4
<1>12. ReadParts' /\ StatusParts'
  BY <1>1, <1>3 DEF EmailsInv, ReadParts, StatusParts, In, Next1
<1> QED BY <1>8, <1>9, <1>11, <1>12 DEF IndexInv, ShapesInv, EmailsInv

\* A rebuild starts over, or is the race it is said to be.
LEMMA RebuildStep ==
  ASSUME IndexInv, Rebuild
  PROVE  IndexInv'
<1>1. IndexShape /\ TurnShape /\ TokensInv /\ EmailsInv
  BY DEF IndexInv, ShapesInv
<1>2. PICK gone : gone = {t \in Tokens : source[t] # NoSource}
  OBVIOUS
<1>3. /\ Rewrite(gone, {}, NoSource) /\ files' = Forget(Emails) /\ state' = NoState
      /\ raced' = (turn.pc = "digest" /\ turn.why = "backfill" /\ turn.last)
      /\ UNCHANGED <<mail, object, behind, visible, flying, turn>>
      /\ turn.pc \in Awaits
  BY <1>2 DEF Rebuild, Dropped, indexVars, Waiting
<1>4. /\ source' \in [Tokens -> {NoSource} \cup ASource]
      /\ jobs' \in [Tokens -> {NoJob} \cup AJob]
      /\ \A t \in Tokens : source'[t] = NoSource
  <2>1. \A t \in Tokens : t \notin gone => source[t] = NoSource
    BY <1>2
  <2> QED BY <1>1, <1>3, <2>1, RewriteEffect
<1>5. files' \in [Emails -> {NoFile} \cup AFile] /\ \A m \in Emails : files'[m] = NoFile
  BY <1>3 DEF Forget
<1>6. raced' \in BOOLEAN /\ state' \in States
  BY <1>1, <1>3 DEF IndexShape, Turns, States
<1>7. IndexShape'
  BY <1>1, <1>3, <1>4, <1>5, <1>6 DEF IndexShape
<1>8. TurnShape'
  BY <1>1, <1>3 DEF TurnShape, Projecting
<1>9. TokensInv'
  <2>1. \A t \in Tokens : t \in gone => source[t] # NoSource
    BY <1>2
  <2> QED BY <1>1, <1>3, <1>4, <2>1, TokensRewritten
<1>10. ASSUME NEW m \in Emails PROVE EmailParts(m)' /\ TurnParts(m)'
  <2>1. files'[m].state # "ready" /\ state'.status = "none" /\ state' = NoState
    BY <1>3, <1>5 DEF NoFile, NoState
  <2> QED BY <2>1 DEF EmailParts, TurnParts
<1>11. ReadParts'
  BY <1>1, <1>3 DEF EmailsInv, ReadParts, In, Next1
<1>12. StatusParts'
  <2>1. turn.why = "backfill" => turn.pc = "digest"
    BY <1>1, <1>3 DEF TurnShape, Projecting, Awaits
  <2> QED BY <1>3, <2>1 DEF StatusParts
<1> QED BY <1>7, <1>8, <1>9, <1>10, <1>11, <1>12 DEF IndexInv, ShapesInv, EmailsInv

-----------------------------------------------------------------------------
(* A turn: one attachment                                                  *)

\* A turn that holds nothing.
LEMMA IdleTurn ==
  /\ Idle \in Turns
  /\ \A pc \in Awaits \cup {"prepare", "page", "confirm", "lease"} :
       LET next == [Idle EXCEPT !.pc = pc]
       IN /\ next \in Turns /\ next.pc = pc /\ next.why = "none" /\ next.sends = {}
          /\ next.todo = {} /\ next.seen = {}
  /\ \A m \in Emails : LET next == [Idle EXCEPT !.pc = "read", !.file = m]
                       IN /\ next \in Turns /\ next.pc = "read" /\ next.why = "none"
                          /\ next.sends = {} /\ next.file = m
  /\ Idle.pc = "idle" /\ Idle.why = "none" /\ Idle.sends = {}
<1>1. N \in Nat
  BY IndexAssumption
<1>2. Idle \in Turns
  BY <1>1 DEF Idle, Turns, Awaits
<1>3. ASSUME NEW pc \in Awaits \cup {"prepare", "page", "confirm", "lease"}
      PROVE  [Idle EXCEPT !.pc = pc] \in Turns
  BY <1>2 DEF Turns
<1>4. ASSUME NEW m \in Emails PROVE [Idle EXCEPT !.pc = "read", !.file = m] \in Turns
  <2>1. m \in 0..N
    BY <1>1 DEF Emails
  <2>2. [Idle EXCEPT !.pc = "read"] \in Turns
    BY <1>3 DEF Awaits
  <2>3. [[Idle EXCEPT !.pc = "read"] EXCEPT !.file = m] \in Turns
    BY <2>1, <2>2 DEF Turns
  <2>4. [Idle EXCEPT !.pc = "read", !.file = m] = [[Idle EXCEPT !.pc = "read"] EXCEPT !.file = m]
    BY DEF Idle
  <2> QED BY <2>3, <2>4
<1> QED BY <1>2, <1>3, <1>4 DEF Idle

\* The fields of an extraction.
LEMMA FileFields ==
  ASSUME IndexShape, NEW m \in Emails, files[m].state # "none"
  PROVE  /\ files[m] \in AFile
         /\ \A s \in {"pending", "processing", "failed", "ready", "unsupported"} :
              [files[m] EXCEPT !.state = s] \in AFile /\ [files[m] EXCEPT !.state = s].state = s
<1>1. files[m] \in AFile
  BY DEF IndexShape, NoFile
<1> QED BY <1>1 DEF AFile

\* A turn begins: it leases an extraction, or goes on to the projection.
LEMMA StartStep ==
  ASSUME IndexInv, StartTurn
  PROVE  IndexInv'
<1>1. IndexShape /\ TurnShape /\ TokensInv /\ EmailsInv
  BY DEF IndexInv, ShapesInv
<1> DEFINE freed == [m \in Emails |->
                      IF files[m].state = "processing" /\ files[m].old
                      THEN [files[m] EXCEPT !.state = "failed", !.old = FALSE] ELSE files[m]]
<1>2. ASSUME NEW m \in Emails
      PROVE  /\ freed[m] \in {NoFile} \cup AFile
             /\ freed[m].state = "ready" => files[m].state = "ready"
             /\ freed[m] = NoFile => files[m] = NoFile
  <2>1. CASE files[m].state = "processing" /\ files[m].old
    <3>1. files[m] \in AFile
      BY <1>1, <2>1, FileFields
    <3>2. [files[m] EXCEPT !.state = "failed", !.old = FALSE] \in AFile
      BY <3>1 DEF AFile
    <3>3. [files[m] EXCEPT !.state = "failed", !.old = FALSE].state = "failed"
      BY <3>1 DEF AFile
    <3>4. freed[m] = [files[m] EXCEPT !.state = "failed", !.old = FALSE]
      BY <2>1
    <3>5. NoFile.state = "none"
      BY DEF NoFile
    <3> HIDE DEF freed
    <3> QED BY <3>2, <3>3, <3>4, <3>5
  <2>2. CASE ~(files[m].state = "processing" /\ files[m].old)
    <3>1. freed[m] = files[m]
      BY <2>2
    <3> HIDE DEF freed
    <3> QED BY <1>1, <3>1 DEF IndexShape
  <2> QED BY <2>1, <2>2
<1>3. PICK fs : fs = freed /\ fs \in [Emails -> {NoFile} \cup AFile]
  <2>1. freed \in [Emails -> {NoFile} \cup AFile]
    BY <1>2
  <2> HIDE DEF freed
  <2> QED BY <2>1
<1>4. \/ files' = fs /\ turn' = [Idle EXCEPT !.pc = "prepare"]
      \/ \E m \in Emails : /\ fs[m].state \in {"pending", "failed"} /\ fs[m].tries < MaxJobTries
                           /\ files' = [fs EXCEPT ![m].state = "processing", ![m].tries = @ + 1]
                           /\ turn' = [Idle EXCEPT !.pc = "read", !.file = m]
  BY <1>3 DEF StartTurn, Go
<1>5. /\ UNCHANGED <<mail, object, behind, state, source, jobs, visible, flying, raced>>
  BY DEF StartTurn, mailVars, indexVars
<1>6. ASSUME NEW m \in Emails
      PROVE  /\ fs[m].state = "ready" => files[m].state = "ready"
             /\ fs[m] = NoFile => files[m] = NoFile
  BY <1>2, <1>3
<1> HIDE DEF freed
<1>7. /\ files' \in [Emails -> {NoFile} \cup AFile]
      /\ \A m \in Emails : /\ files'[m].state = "ready" => files[m].state = "ready"
                           /\ files'[m] = NoFile => files[m] = NoFile
      /\ turn' \in Turns /\ turn'.why = "none" /\ turn'.sends = {} /\ turn'.pc \in {"prepare", "read"}
      /\ turn'.pc = "read" => turn'.file \in Emails
  <2>1. CASE files' = fs /\ turn' = [Idle EXCEPT !.pc = "prepare"]
    <3>1. LET next == [Idle EXCEPT !.pc = "prepare"]
          IN next \in Turns /\ next.pc = "prepare" /\ next.why = "none" /\ next.sends = {}
      BY IdleTurn
    <3> QED BY <1>3, <1>6, <2>1, <3>1
  <2>2. ASSUME NEW m \in Emails, fs[m].state \in {"pending", "failed"}, fs[m].tries < MaxJobTries,
               files' = [fs EXCEPT ![m].state = "processing", ![m].tries = @ + 1],
               turn' = [Idle EXCEPT !.pc = "read", !.file = m]
        PROVE  <1>7
    <3>1. fs[m] \in AFile
      BY <1>3, <2>2 DEF NoFile
    <3>2. files'[m] \in AFile /\ files'[m].state = "processing"
      <4>1. files'[m] = [fs[m] EXCEPT !.state = "processing", !.tries = @ + 1]
        BY <1>3, <2>2
      <4>2. MaxJobTries \in Nat /\ fs[m].tries \in 0..MaxJobTries
        BY <3>1, IndexAssumption DEF AFile
      <4>3. fs[m].tries + 1 \in 0..MaxJobTries
        BY <2>2, <4>2
      <4> QED BY <3>1, <4>1, <4>3 DEF AFile
    <3>3. \A x \in Emails \ {m} : files'[x] = fs[x]
      BY <1>3, <2>2
    <3>4. files' \in [Emails -> {NoFile} \cup AFile]
      <4>1. DOMAIN files' = Emails /\ files' = [x \in Emails |-> files'[x]]
        BY <1>3, <2>2
      <4> QED BY <1>3, <3>2, <3>3, <4>1
    <3>5. ASSUME NEW x \in Emails
          PROVE  /\ files'[x].state = "ready" => files[x].state = "ready"
                 /\ files'[x] = NoFile => files[x] = NoFile
      BY <1>6, <3>2, <3>3 DEF NoFile
    <3> QED BY <2>2, <3>4, <3>5, IdleTurn
  <2> QED BY <1>4, <2>1, <2>2
<1>8. IndexShape' /\ TurnShape'
  BY <1>1, <1>5, <1>7 DEF IndexShape, TurnShape, Projecting
<1>9. TokensInv'
  BY <1>1, <1>5, <1>7, TokensKept
<1>10. EmailsInv'
  BY <1>1, <1>5, <1>7, EmailsKept
<1> QED BY <1>8, <1>9, <1>10 DEF IndexInv, ShapesInv

\* The object is read.
LEMMA ReadStep ==
  ASSUME IndexInv, ReadObject
  PROVE  IndexInv'
<1>1. IndexShape /\ TurnShape /\ TokensInv /\ EmailsInv
  BY DEF IndexInv, ShapesInv
<1>2. /\ turn.pc = "read" /\ turn' = [turn EXCEPT !.pc = "convert", !.snap = object[turn.file]]
      /\ UNCHANGED <<mail, object, behind, state, source, jobs, files, visible, flying, raced>>
  BY DEF ReadObject, Go, mailVars, indexVars
<1>3. object[turn.file] \in Nat /\ turn.why = "none"
  BY <1>1, <1>2 DEF IndexShape, TurnShape, Projecting
<1>4. /\ turn' \in Turns /\ turn'.pc = "convert" /\ turn'.why = "none" /\ turn'.sends = turn.sends
      /\ turn'.file = turn.file
  BY <1>1, <1>2, <1>3 DEF IndexShape, Turns, Awaits
<1>5. IndexShape' /\ TurnShape'
  BY <1>1, <1>2, <1>4 DEF IndexShape, TurnShape, Projecting
<1>6. TokensInv'
  BY <1>1, <1>2, <1>4, TokensKept
<1>7. EmailsInv'
  BY <1>1, <1>2, <1>4, EmailsKept
<1> QED BY <1>5, <1>6, <1>7 DEF IndexInv, ShapesInv

\* The end of an extraction, or of a projection that leaves the mail's sources
\* better than they were.
LEMMA EmailsLeft ==
  ASSUME IndexShape, EmailsInv, UNCHANGED <<mail, behind, state, raced>>,
         turn'.why = "none", turn'.pc \notin {"page", "digest"},
         \A m \in Emails : /\ HasText(m) => HasText(m)'
                           /\ files'[m].state = "ready" => HasFile(m)'
                           /\ files'[m] = NoFile => files[m] = NoFile
  PROVE  EmailsInv'
<1>1. ASSUME NEW m \in Emails PROVE EmailParts(m)' /\ TurnParts(m)'
  <2>1. EmailParts(m)
    BY DEF EmailsInv
  <2>2. (Missed(m)' => Missed(m)) /\ (Unlisted(m)' => Unlisted(m))
    BY DEF Missed, Unlisted, In
  <2>3. EmailParts(m)'
    BY <2>1, <2>2 DEF EmailParts
  <2> QED BY <2>3 DEF TurnParts
<1>2. ReadParts' /\ StatusParts'
  BY DEF ReadParts, StatusParts
<1> QED BY <1>1, <1>2 DEF EmailsInv

\* What was read of an attachment replaces its source.
LEMMA CompleteStep ==
  ASSUME IndexInv, FinishExtraction, NEW m \in Emails, m = turn.file, CompleteExtraction(m),
         Holds(m), In(m)
  PROVE  IndexInv'
<1>1. IndexShape /\ TurnShape /\ TokensInv /\ EmailsInv
  BY DEF IndexInv, ShapesInv
<1>2. PICK t \in Unused : /\ Rewrite(Sources({m}, {"file"}), {t},
                                     [of |-> m, kind |-> "file", version |-> turn.snap])
                          /\ files' = [files EXCEPT ![m].state = "ready"]
  BY DEF CompleteExtraction
<1>3. PICK gone, new, s : /\ gone = Sources({m}, {"file"}) /\ new = {t}
                          /\ s = [of |-> m, kind |-> "file", version |-> turn.snap]
  OBVIOUS
<1>4. /\ turn.pc = "convert" /\ turn' = [Idle EXCEPT !.pc = "prepare"]
      /\ UNCHANGED <<mail, object, behind, state, visible, flying, raced>>
  BY DEF FinishExtraction, Go, mailVars, indexVars
<1>5. turn' \in Turns /\ turn'.pc = "prepare" /\ turn'.why = "none" /\ turn'.sends = {}
      /\ turn.sends = {}
  <2>1. LET next == [Idle EXCEPT !.pc = "prepare"]
        IN next \in Turns /\ next.pc = "prepare" /\ next.why = "none" /\ next.sends = {}
    BY IdleTurn
  <2> QED BY <1>1, <1>4, <2>1 DEF TurnShape
<1>6. s \in ASource /\ s.of = m /\ s.kind = "file" /\ t \in Tokens /\ source[t] = NoSource
  <2>1. turn.snap \in Nat
    BY <1>1 DEF IndexShape, Turns
  <2> QED BY <1>3, <2>1 DEF ASource, Unused
<1>7. \A u \in gone : u \in Tokens /\ source[u] # NoSource /\ source[u].of = m /\ source[u].kind = "file"
  BY <1>1, <1>3, SourcesAreSources DEF Both
<1>8. /\ source' \in [Tokens -> {NoSource} \cup ASource]
      /\ jobs' \in [Tokens -> {NoJob} \cup AJob]
      /\ source'[t] = s
      /\ \A u \in Tokens : u \in gone /\ u # t => source'[u] = NoSource
      /\ \A u \in Tokens : u \notin gone /\ u # t => source'[u] = source[u]
  <2>1. Rewrite(gone, new, s)
    BY <1>2, <1>3
  <2> QED BY <1>1, <1>3, <1>6, <2>1, RewriteEffect
<1>9. /\ files' \in [Emails -> {NoFile} \cup AFile] /\ files[m] # NoFile /\ files'[m] # NoFile
      /\ \A x \in Emails \ {m} : files'[x] = files[x]
  <2>1. files[m].state = "processing"
    BY DEF Holds
  <2>2. [files[m] EXCEPT !.state = "ready"] \in AFile /\ [files[m] EXCEPT !.state = "ready"].state = "ready"
    BY <1>1, <2>1, FileFields
  <2> QED BY <1>1, <1>2, <2>1, <2>2 DEF IndexShape, NoFile
<1>10. IndexShape' /\ TurnShape'
  BY <1>1, <1>4, <1>5, <1>8, <1>9 DEF IndexShape, TurnShape, Projecting
<1>11. TokensInv'
  <2>1. ASSUME NEW u \in Tokens, source'[u] # NoSource
        PROVE  /\ mail'[source'[u].of].place = "in"
               /\ source'[u].kind = "text" => source'[u].version = mail'[source'[u].of].version
    <3>1. CASE u = t
      BY <1>4, <1>6, <1>8, <3>1 DEF In
    <3>2. CASE u # t
      <4>1. source'[u] = source[u] /\ TokenParts(u)
        BY <1>1, <1>8, <2>1, <3>2 DEF TokensInv
      <4> QED BY <1>4, <2>1, <4>1 DEF TokenParts, In
    <3> QED BY <3>1, <3>2
  <2>2. Rewrite(gone, new, s) /\ new \subseteq Unused
    BY <1>2, <1>3
  <2>3. turn'.sends = turn.sends
    BY <1>5
  <2>4. UNCHANGED <<visible, flying>>
    BY <1>4
  <2> QED BY <1>1, <1>6, <1>7, <2>1, <2>2, <2>3, <2>4, TokensRewritten
<1>12. ASSUME NEW x \in Emails
       PROVE  /\ HasText(x) => HasText(x)'
              /\ files'[x].state = "ready" => HasFile(x)'
              /\ files'[x] = NoFile => files[x] = NoFile
  <2>1. NoSource.kind = "none"
    BY DEF NoSource
  <2>2. HasText(x) => HasText(x)'
    BY <1>6, <1>7, <1>8, <2>1 DEF HasText
  <2>3. HasFile(m)' /\ (x # m => (HasFile(x) => HasFile(x)'))
    BY <1>6, <1>7, <1>8, <2>1 DEF HasFile
  <2>4. EmailParts(x)
    BY <1>1 DEF EmailsInv
  <2> QED BY <1>9, <2>2, <2>3, <2>4 DEF EmailParts
<1>13. EmailsInv'
  BY <1>1, <1>4, <1>5, <1>12, EmailsLeft
<1> QED BY <1>10, <1>11, <1>13 DEF IndexInv, ShapesInv

\* An extraction ends.
LEMMA ExtractionStep ==
  ASSUME IndexInv, FinishExtraction
  PROVE  IndexInv'
<1>1. IndexShape /\ TurnShape /\ TokensInv /\ EmailsInv
  BY DEF IndexInv, ShapesInv
<1>2. PICK m \in Emails : m = turn.file
  BY <1>1 DEF FinishExtraction, TurnShape
<1>3. /\ turn.pc = "convert" /\ turn' = [Idle EXCEPT !.pc = "prepare"]
      /\ UNCHANGED <<mail, object, behind, state, visible, flying, raced>>
      /\ CompleteExtraction(m) \/ RetryExtraction(m) \/ RejectExtraction(m)
  BY <1>2 DEF FinishExtraction, Go, mailVars, indexVars
<1>4. turn' \in Turns /\ turn'.pc = "prepare" /\ turn'.why = "none" /\ turn'.sends = {}
  <2>1. LET next == [Idle EXCEPT !.pc = "prepare"]
        IN next \in Turns /\ next.pc = "prepare" /\ next.why = "none" /\ next.sends = {}
    BY IdleTurn
  <2> QED BY <1>3, <2>1
<1>5. CASE CompleteExtraction(m) /\ Holds(m) /\ In(m)
  BY <1>2, <1>5, CompleteStep
<1>6. ASSUME \/ CompleteExtraction(m) /\ ~(Holds(m) /\ In(m))
             \/ RetryExtraction(m)
             \/ RejectExtraction(m)
      PROVE  IndexInv'
  <2>1. UNCHANGED <<source, jobs>>
    BY <1>6 DEF CompleteExtraction, RetryExtraction, RejectExtraction
  <2>2. \/ files' = files
        \/ \E f \in AFile : /\ f.state # "ready" /\ files' = [files EXCEPT ![m] = f]
    <3>1. CASE CompleteExtraction(m) /\ ~(Holds(m) /\ In(m))
      BY <3>1 DEF CompleteExtraction
    <3>2. CASE RetryExtraction(m)
      <4>1. CASE ~Holds(m)
        <5>1. files' = [files EXCEPT ![m] = [files[m] EXCEPT !.state = files[m].state]]
          BY <1>1, <3>2, <4>1 DEF RetryExtraction, IndexShape
        <5>2. files[m] = NoFile \/ files[m] \in AFile
          BY <1>1 DEF IndexShape
        <5>3. [files[m] EXCEPT !.state = files[m].state] = files[m]
          BY <5>2 DEF NoFile, AFile
        <5> QED BY <1>1, <5>1, <5>3 DEF IndexShape
      <4>2. CASE Holds(m)
        <5>1. files[m].state = "processing"
          BY <4>2 DEF Holds
        <5>2. /\ [files[m] EXCEPT !.state = "failed"] \in AFile
              /\ [files[m] EXCEPT !.state = "failed"].state = "failed"
          BY <1>1, <5>1, FileFields
        <5>3. files' = [files EXCEPT ![m] = [files[m] EXCEPT !.state = "failed"]]
          BY <1>1, <3>2, <4>2 DEF RetryExtraction, IndexShape
        <5> QED BY <5>2, <5>3
      <4> QED BY <4>1, <4>2
    <3>3. CASE RejectExtraction(m)
      <4>1. PICK reject \in {[files[m] EXCEPT !.state = "failed", !.tries = MaxJobTries],
                             [files[m] EXCEPT !.state = "unsupported"]} :
              files' = [files EXCEPT ![m] = IF Holds(m) THEN reject ELSE @]
        BY <3>3 DEF RejectExtraction
      <4>2. CASE ~Holds(m)
        BY <1>1, <4>1, <4>2 DEF IndexShape
      <4>3. CASE Holds(m)
        <5>1. files[m].state = "processing"
          BY <4>3 DEF Holds
        <5>2. files[m] \in AFile
          BY <1>1, <5>1, FileFields
        <5>3. reject \in AFile /\ reject.state # "ready"
          <6>1. MaxJobTries \in 0..MaxJobTries
            BY IndexAssumption
          <6> QED BY <4>1, <5>2, <6>1 DEF AFile
        <5>4. files' = [files EXCEPT ![m] = reject]
          BY <4>1, <4>3
        <5> QED BY <5>3, <5>4
      <4> QED BY <4>2, <4>3
    <3> QED BY <1>6, <3>1, <3>2, <3>3
  <2>3. /\ files' \in [Emails -> {NoFile} \cup AFile]
        /\ \A x \in Emails : /\ files'[x].state = "ready" => files[x].state = "ready"
                             /\ files'[x] = NoFile => files[x] = NoFile
    <3>1. CASE files' = files
      BY <1>1, <3>1 DEF IndexShape
    <3>2. ASSUME NEW f \in AFile, f.state # "ready", files' = [files EXCEPT ![m] = f] PROVE <2>3
      <4>1. f # NoFile
        BY DEF AFile, NoFile
      <4> QED BY <1>1, <3>2, <4>1 DEF IndexShape
    <3> QED BY <2>2, <3>1, <3>2
  <2>4. IndexShape' /\ TurnShape'
    BY <1>1, <1>3, <1>4, <2>1, <2>3 DEF IndexShape, TurnShape, Projecting
  <2>5. TokensInv'
    BY <1>1, <1>3, <1>4, <2>1, TokensKept
  <2>6. EmailsInv'
    BY <1>1, <1>3, <1>4, <2>1, <2>3, EmailsKept
  <2> QED BY <2>4, <2>5, <2>6 DEF IndexInv, ShapesInv
<1> QED BY <1>3, <1>5, <1>6

\* The lease of an extraction runs out.
LEMMA FileLapseStep ==
  ASSUME IndexInv, NEW m \in Emails, FileLapses(m)
  PROVE  IndexInv'
<1>1. IndexShape /\ TurnShape /\ TokensInv /\ EmailsInv
  BY DEF IndexInv, ShapesInv
<1>2. /\ files' = [files EXCEPT ![m].old = TRUE] /\ files[m].state = "processing"
      /\ UNCHANGED <<mail, object, behind, state, source, jobs, visible, flying, turn, raced>>
  BY DEF FileLapses, Holds, mailVars, indexVars
<1>3. files[m] \in AFile
  BY <1>1, <1>2, FileFields
<1>4. [files[m] EXCEPT !.old = TRUE] \in AFile /\ [files[m] EXCEPT !.old = TRUE].state = "processing"
  BY <1>2, <1>3 DEF AFile
<1>5. /\ files' \in [Emails -> {NoFile} \cup AFile]
      /\ \A x \in Emails : /\ files'[x].state = "ready" => files[x].state = "ready"
                           /\ files'[x] = NoFile => files[x] = NoFile
  BY <1>1, <1>2, <1>4 DEF IndexShape, NoFile
<1>6. IndexShape' /\ TurnShape'
  BY <1>1, <1>2, <1>5 DEF IndexShape, TurnShape, Projecting
<1>7. TokensInv'
  BY <1>1, <1>2, TokensKept
<1>8. EmailsInv'
  BY <1>1, <1>2, <1>5, EmailsKept DEF SameTurn
<1> QED BY <1>6, <1>7, <1>8 DEF IndexInv, ShapesInv

-----------------------------------------------------------------------------
(* A turn: the projection                                                  *)

\* A page has the first of the rows: the others come after all of them.
LEMMA FirstPage ==
  ASSUME NEW S \in SUBSET Emails, batch \in Nat
  PROVE  /\ FirstOf(S) \subseteq S
         /\ \A m \in S : m \in FirstOf(S) \/ \A k \in FirstOf(S) : k < m
<1> DEFINE Upto(m) == {k \in S : k <= m}
<1>1. IsFiniteSet(S)
  <2>1. N \in Nat
    BY IndexAssumption
  <2>2. IsFiniteSet(Emails)
    BY <2>1, FS_Interval DEF Emails
  <2> QED BY <2>2, FS_Subset
<1>2. ASSUME NEW m \in S, m \notin FirstOf(S), NEW k \in FirstOf(S), ~(k < m) PROVE FALSE
  <2>1. k \in S /\ Cardinality(Upto(k)) <= batch /\ ~(Cardinality(Upto(m)) <= batch)
    BY <1>2 DEF FirstOf
  <2>2. m \in Nat /\ k \in Nat /\ \A x \in S : x \in Nat
    BY <2>1 DEF Emails
  <2>3. m <= k
    BY <1>2, <2>2
  <2>4. \A x \in S : x <= m => x <= k
    BY <2>2, <2>3
  <2>5. Upto(m) \subseteq Upto(k) /\ Upto(k) \subseteq S
    BY <2>4
  <2> HIDE DEF Upto
  <2>6. IsFiniteSet(Upto(k))
    BY <1>1, <2>5, FS_Subset
  <2>7. IsFiniteSet(Upto(m)) /\ Cardinality(Upto(m)) <= Cardinality(Upto(k))
    BY <2>5, <2>6, FS_Subset
  <2>8. Cardinality(Upto(m)) \in Nat /\ Cardinality(Upto(k)) \in Nat
    BY <2>6, <2>7, FS_CardinalityType
  <2> QED BY <2>1, <2>7, <2>8
<1>3. FirstOf(S) \subseteq S
  BY DEF FirstOf
<1> QED BY <1>2, <1>3

\* What lies after a page lies after the cursor that the page leaves.
LEMMA PageLeavesCursor ==
  ASSUME NEW S \in SUBSET Emails, batch \in Nat, NEW c \in Nat, \A m \in S : m > c
  PROVE  /\ LastOf(FirstOf(S), c) \in Nat
         /\ \A m \in S : m \in FirstOf(S) \/ (S # FirstOf(S) /\ m > LastOf(FirstOf(S), c))
<1>1. FirstOf(S) \subseteq S /\ \A m \in S : m \in FirstOf(S) \/ \A k \in FirstOf(S) : k < m
  BY FirstPage
<1>2. CASE FirstOf(S) = {}
  <2>1. LastOf(FirstOf(S), c) = c
    BY <1>2 DEF LastOf
  <2> QED BY <1>1, <2>1
<1>3. CASE FirstOf(S) # {}
  <2>1. \E m \in FirstOf(S) : \A k \in FirstOf(S) : k <= m
    BY <1>1, <1>3, LastMail
  <2>2. LastOf(FirstOf(S), c) \in FirstOf(S)
    BY <1>3, <2>1 DEF LastOf
  <2>3. LastOf(FirstOf(S), c) \in Nat /\ \A m \in S : m \in Nat
    <3>1. LastOf(FirstOf(S), c) \in S
      BY <1>1, <2>2
    <3>2. \A m \in S : m \in Nat
      BY DEF Emails
    <3> QED BY <3>1, <3>2
  <2>4. \A k \in FirstOf(S) : k \in S
    BY <1>1
  <2> QED BY <1>1, <2>2, <2>3, <2>4
<1> QED BY <1>2, <1>3

\* The page of a backfill.
LEMMA BackfillTurn ==
  ASSUME NEW s, s.cursor \in Nat, batch \in Nat, IndexShape
  PROVE  LET t == Backfilling(s)
         IN /\ t \in Turns /\ t.pc = "page" /\ t.why = "backfill" /\ t.sends = {}
            /\ \A m \in Emails : In(m) /\ m > s.cursor => m \in t.todo \/ (~t.last /\ m > t.upto)
<1> DEFINE rows == {m \in Emails : In(m) /\ m > s.cursor}
           page == FirstOf(rows)
           t == [Idle EXCEPT !.pc = "page", !.why = "backfill", !.todo = page,
                             !.upto = LastOf(page, s.cursor), !.last = (rows = page)]
<1>1. Backfilling(s) = t
  BY DEF Backfilling
<1>2. rows \in SUBSET Emails /\ \A m \in rows : m > s.cursor
  OBVIOUS
<1> HIDE DEF rows
<1>3. page \subseteq rows /\ LastOf(page, s.cursor) \in Nat
      /\ \A m \in rows : m \in page \/ (rows # page /\ m > LastOf(page, s.cursor))
  <2>1. FirstOf(rows) \subseteq rows
    BY <1>2, FirstPage
  <2> QED BY <1>2, <2>1, PageLeavesCursor
<1> HIDE DEF page
<1>4. page \in SUBSET Emails /\ (rows = page) \in BOOLEAN
  BY <1>2, <1>3
<1>5. t \in Turns
  BY <1>3, <1>4, IdleTurn DEF Turns
<1>6. /\ t.pc = "page" /\ t.why = "backfill" /\ t.sends = {} /\ t.todo = page
      /\ t.last = (rows = page) /\ t.upto = LastOf(page, s.cursor)
  BY DEF Idle
<1>7. ASSUME NEW m \in Emails, In(m), m > s.cursor PROVE m \in t.todo \/ (~t.last /\ m > t.upto)
  <2>1. m \in rows
    BY <1>7 DEF rows
  <2> HIDE DEF t
  <2> QED BY <1>3, <1>6, <2>1
<1> HIDE DEF t
<1> QED BY <1>1, <1>5, <1>6, <1>7

\* A page of the log.
LEMMA ReplayTurn ==
  ASSUME NEW why \in {"replay", "again"}, NEW page \in SUBSET Emails, NEW log
  PROVE  LET t == Replaying(why, page, log)
         IN /\ t \in Turns /\ t.pc = "page" /\ t.why = why /\ t.sends = {}
            /\ t.todo = page /\ t.page = page /\ t.since = {}
<1> DEFINE t == [Idle EXCEPT !.pc = "page", !.why = why, !.todo = page, !.page = page,
                             !.last = (page = log)]
<1>1. Replaying(why, page, log) = t
  BY DEF Replaying
<1>2. (page = log) \in BOOLEAN
  OBVIOUS
<1>3. t \in Turns
  BY <1>2, IdleTurn DEF Turns
<1>4. /\ t.pc = "page" /\ t.why = why /\ t.sends = {} /\ t.todo = page /\ t.page = page
      /\ t.since = {}
  BY DEF Idle
<1> HIDE DEF t
<1> QED BY <1>1, <1>3, <1>4

\* The fields of a state.
LEMMA StateFields ==
  ASSUME IndexShape
  PROVE  /\ state # NoState => /\ state.status \in {"building", "ready", "failed"}
                               /\ state.cursor \in Nat /\ state.files \in {"building", "ready"}
                               /\ state.fcursor \in Nat
                               /\ \A c \in Nat : LET s == [state EXCEPT !.cursor = c]
                                    IN /\ s \in States /\ s # NoState /\ s.status = state.status
                                       /\ s.cursor = c /\ s.files = state.files
                                       /\ s.fcursor = state.fcursor
                               /\ LET s == [state EXCEPT !.status = "ready"]
                                  IN /\ s \in States /\ s # NoState /\ s.status = "ready"
                                     /\ s.cursor = state.cursor /\ s.files = state.files
                                     /\ s.fcursor = state.fcursor
         /\ NewState \in States /\ NewState # NoState /\ NewState.status = "building"
         /\ NewState.cursor = 0 /\ NewState.files = "building" /\ NewState.fcursor = 0
         /\ NoState.status = "none" /\ NoState \in States
<1>1. /\ NewState \in States /\ NewState # NoState /\ NewState.status = "building"
      /\ NewState.cursor = 0 /\ NewState.files = "building" /\ NewState.fcursor = 0
      /\ NoState.status = "none" /\ NoState \in States
  BY DEF NewState, NoState, States
<1>2. ASSUME state # NoState
      PROVE  state \in [status : {"building", "ready", "failed"}, cursor : Nat,
                        files : {"building", "ready"}, fcursor : Nat]
  BY <1>2 DEF IndexShape, States
<1>3. \A s \in [status : {"building", "ready", "failed"}, cursor : Nat,
                files : {"building", "ready"}, fcursor : Nat] :
        s \in States /\ s # NoState
  BY DEF States, NoState
<1>4. ASSUME state # NoState, NEW c \in Nat
      PROVE  LET s == [state EXCEPT !.cursor = c]
             IN /\ s \in States /\ s # NoState /\ s.status = state.status
                /\ s.cursor = c /\ s.files = state.files /\ s.fcursor = state.fcursor
  BY <1>2, <1>3, <1>4
<1>5. ASSUME state # NoState
      PROVE  LET s == [state EXCEPT !.status = "ready"]
             IN /\ s \in States /\ s # NoState /\ s.status = "ready"
                /\ s.cursor = state.cursor /\ s.files = state.files /\ s.fcursor = state.fcursor
  BY <1>2, <1>3, <1>5
<1>6. state # NoState => /\ state.status \in {"building", "ready", "failed"}
                         /\ state.cursor \in Nat /\ state.files \in {"building", "ready"}
                         /\ state.fcursor \in Nat
  BY <1>2
<1> QED BY <1>1, <1>4, <1>5, <1>6

\* A turn begins to project: the state may be new, with all of the mail before it.
LEMMA PrepareStep ==
  ASSUME IndexInv, batch \in Nat, Prepare
  PROVE  IndexInv'
<1>1. IndexShape /\ TurnShape /\ TokensInv /\ EmailsInv
  BY DEF IndexInv, ShapesInv
<1>2. /\ turn.pc = "prepare"
      /\ state' = IF state = NoState THEN NewState ELSE state
      /\ behind' = IF state = NoState THEN {} ELSE behind
      /\ UNCHANGED <<mail, object, source, jobs, files, visible, flying, raced>>
  BY DEF Prepare, mailVars, indexVars
<1>3. /\ state' \in States /\ state' # NoState /\ state'.status \in {"building", "ready", "failed"}
      /\ state'.cursor \in Nat /\ behind' \subseteq Emails
  BY <1>1, <1>2, StateFields DEF IndexShape
<1>4. /\ state'.status = "building" => turn' = Backfilling(state')
      /\ state'.status = "ready" => \E page \in Pages(behind') :
                                       turn' = Replaying("again", page, behind')
      /\ state'.status = "failed" => turn' = [Idle EXCEPT !.pc = "confirm"]
  <2>1. CASE state'.status = "building"
    BY <2>1 DEF Prepare, Go
  <2>2. CASE state'.status = "ready"
    BY <2>2 DEF Prepare, Go
  <2>3. CASE state'.status = "failed"
    BY <2>3 DEF Prepare, Go
  <2> QED BY <2>1, <2>2, <2>3
<1>5. turn.sends = {} /\ turn.why = "none"
  BY <1>1, <1>2 DEF TurnShape, Projecting, IndexShape, Turns
<1>6. ASSUME NEW m \in Emails PROVE EmailParts(m)'
  <2>1. EmailParts(m)
    BY <1>1 DEF EmailsInv
  <2>2. (HasText(m)' <=> HasText(m)) /\ (HasFile(m)' <=> HasFile(m)) /\ (In(m)' <=> In(m))
    BY <1>2 DEF HasText, HasFile, In
  <2>3. CASE state = NoState
    <3>1. m > 0
      BY DEF Emails
    <3>2. state'.status = "building" /\ state'.cursor = 0 /\ state'.files = "building"
          /\ state'.fcursor = 0
      BY <1>1, <1>2, <2>3, StateFields
    <3> QED BY <1>2, <2>1, <2>2, <3>1, <3>2 DEF EmailParts
  <2>4. CASE state # NoState
    <3>1. state' = state /\ behind' = behind
      BY <1>2, <2>4
    <3> QED BY <1>2, <2>1, <2>2, <3>1 DEF EmailParts, Missed, Unlisted
  <2> QED BY <2>3, <2>4
<1>7. ASSUME turn' \in Turns, TurnShape', turn'.sends = {}, turn'.pc # "digest",
             StatusParts', \A m \in Emails : TurnParts(m)'
      PROVE  IndexInv'
  <2>1. IndexShape'
    BY <1>1, <1>2, <1>3, <1>7 DEF IndexShape
  <2>2. TokensInv'
    BY <1>1, <1>2, <1>5, <1>7, TokensKept
  <2>3. ReadParts'
    BY <1>7 DEF ReadParts
  <2> QED BY <1>6, <1>7, <2>1, <2>2, <2>3 DEF IndexInv, ShapesInv, EmailsInv
<1>8. CASE state'.status = "building"
  <2>1. \A m \in Emails : In(m)' <=> In(m)
    BY <1>2 DEF In
  <2>2. /\ turn' \in Turns /\ turn'.pc = "page" /\ turn'.why = "backfill" /\ turn'.sends = {}
        /\ \A m \in Emails : In(m) /\ m > state'.cursor =>
                               m \in turn'.todo \/ (~turn'.last /\ m > turn'.upto)
    <3>1. PICK s : s = state'
      OBVIOUS
    <3>2. turn' = Backfilling(s)
      BY <1>4, <1>8, <3>1
    <3>3. s.cursor \in Nat
      BY <1>3, <3>1
    <3> QED BY <1>1, <3>1, <3>2, <3>3, BackfillTurn
  <2>3. ASSUME NEW m \in Emails PROVE TurnParts(m)'
    <3>1. Missed(m)' => In(m) /\ m > state'.cursor
      BY <1>6, <1>8, <2>1 DEF EmailParts, Missed
    <3> QED BY <2>2, <3>1 DEF TurnParts
  <2>4. TurnShape' /\ StatusParts'
    BY <1>3, <1>8, <2>2 DEF TurnShape, Projecting, StatusParts
  <2> QED BY <1>7, <2>2, <2>3, <2>4
<1>9. CASE state'.status = "ready"
  <2>1. PICK page \in Pages(behind') : turn' = Replaying("again", page, behind')
    BY <1>4, <1>9
  <2>2. PICK log : log = behind'
    OBVIOUS
  <2>3. page \in SUBSET Emails
    BY <1>3, <2>1 DEF Pages
  <2>4. turn' = Replaying("again", page, log)
    BY <2>1, <2>2
  <2>5. /\ turn' \in Turns /\ turn'.pc = "page" /\ turn'.why = "again" /\ turn'.sends = {}
        /\ turn'.todo = page /\ turn'.page = page /\ turn'.since = {}
    <3>1. LET t == Replaying("again", page, log)
          IN /\ t \in Turns /\ t.pc = "page" /\ t.why = "again" /\ t.sends = {}
             /\ t.todo = page /\ t.page = page /\ t.since = {}
      <4>1. "again" \in {"replay", "again"}
        OBVIOUS
      <4> QED BY <2>3, <4>1, ReplayTurn
    <3> QED BY <2>4, <3>1
  <2>6. ASSUME NEW m \in Emails PROVE TurnParts(m)'
    BY <2>5 DEF TurnParts
  <2>7. TurnShape' /\ StatusParts'
    BY <2>5 DEF TurnShape, Projecting, StatusParts
  <2> QED BY <1>7, <2>5, <2>6, <2>7
<1>10. CASE state'.status = "failed"
  <2>1. LET next == [Idle EXCEPT !.pc = "confirm"]
        IN next \in Turns /\ next.pc = "confirm" /\ next.why = "none" /\ next.sends = {}
    BY IdleTurn
  <2>2. turn' \in Turns /\ turn'.pc = "confirm" /\ turn'.why = "none" /\ turn'.sends = {}
    BY <1>4, <1>10, <2>1
  <2>3. ASSUME NEW m \in Emails PROVE TurnParts(m)'
    BY <2>2 DEF TurnParts
  <2>4. TurnShape' /\ StatusParts'
    BY <2>2 DEF TurnShape, Projecting, StatusParts
  <2> QED BY <1>7, <2>2, <2>3, <2>4
<1> QED BY <1>3, <1>8, <1>9, <1>10

\* The message that is next is read, or has no sources to lose.
LEMMA ReadSourceStep ==
  ASSUME IndexInv, ReadSource
  PROVE  IndexInv'
<1>1. IndexShape /\ TurnShape /\ TokensInv /\ EmailsInv
  BY DEF IndexInv, ShapesInv
<1>2. /\ turn.pc = "page" /\ turn.todo # {}
      /\ UNCHANGED <<mail, object, behind, state, visible, flying, raced>>
  BY DEF ReadSource, mailVars, indexVars
<1>3. PICK m \in Emails : m = Next1 /\ m \in turn.todo
  BY <1>1, <1>2, NextToDo
<1>4. turn \in Turns /\ turn.why # "none" /\ turn.sends = {}
  BY <1>1, <1>2 DEF TurnShape, Projecting, IndexShape
<1>5. CASE In(m)
  <2>1. /\ turn' = [turn EXCEPT !.pc = "digest", !.snap = mail[m].version]
        /\ UNCHANGED <<source, jobs, files>>
    BY <1>3, <1>5 DEF ReadSource, Go
  <2>2. mail[m].version \in Nat
    BY <1>1 DEF IndexShape
  <2>3. /\ turn' \in Turns /\ turn'.pc = "digest" /\ turn'.snap = mail[m].version
        /\ turn'.why = turn.why /\ turn'.todo = turn.todo /\ turn'.page = turn.page
        /\ turn'.upto = turn.upto /\ turn'.last = turn.last /\ turn'.since = turn.since
        /\ turn'.sends = turn.sends /\ turn'.file = turn.file
    BY <1>4, <2>1, <2>2 DEF Turns, Awaits
  <2>4. IndexShape' /\ TurnShape'
    BY <1>1, <1>2, <1>4, <2>1, <2>3 DEF IndexShape, TurnShape, Projecting
  <2>5. TokensInv'
    BY <1>1, <1>2, <2>1, <2>3, TokensKept
  <2>6. ReadParts'
    <3>1. Next1' = m
      BY <1>3, <2>3 DEF Next1
    <3> QED BY <1>2, <1>5, <2>3, <3>1 DEF ReadParts, In
  <2>7. ASSUME NEW x \in Emails PROVE EmailParts(x)' /\ TurnParts(x)'
    <3>1. /\ HasText(x)' <=> HasText(x)
          /\ HasFile(x)' <=> HasFile(x)
          /\ In(x)' <=> In(x)
          /\ Missed(x)' <=> Missed(x)
          /\ Unlisted(x)' <=> Unlisted(x)
      BY <1>2, <2>1 DEF HasText, HasFile, In, Missed, Unlisted
    <3>2. EmailParts(x) /\ TurnParts(x)
      BY <1>1 DEF EmailsInv
    <3>3. EmailParts(x)'
      BY <1>2, <2>1, <3>1, <3>2 DEF EmailParts
    <3>4. TurnParts(x)'
      BY <1>2, <2>1, <2>3, <3>1, <3>2 DEF TurnParts
    <3> QED BY <3>3, <3>4
  <2>8. StatusParts'
    BY <1>1, <1>2, <2>3 DEF EmailsInv, StatusParts
  <2> QED BY <2>4, <2>5, <2>6, <2>7, <2>8 DEF IndexInv, ShapesInv, EmailsInv
<1>6. CASE ~In(m)
  <2>1. /\ Rewrite(Sources({m}, Both), {}, NoSource) /\ files' = Forget({m})
        /\ turn' = [turn EXCEPT !.todo = @ \ {m}]
    BY <1>3, <1>6 DEF ReadSource, Go, Dropped
  <2>2. ASSUME NEW t \in Sources({m}, Both) PROVE FALSE
    <3>1. t \in Tokens /\ source[t] # NoSource /\ source[t].of = m
      BY <1>1, SourcesAreSources
    <3> QED BY <1>6, <3>1, NoSourcesOutside DEF In
  <2>3. Rewrite({}, {}, NoSource)
    <3>1. Sources({m}, Both) = {}
      BY <2>2
    <3> QED BY <2>1, <3>1
  <2>4. source' = source /\ jobs' = jobs
    <3>1. source = [t \in Tokens |-> source[t]] /\ jobs = [t \in Tokens |-> jobs[t]]
      BY <1>1 DEF IndexShape
    <3> QED BY <2>3, <3>1 DEF Rewrite
  <2>5. /\ turn' \in Turns /\ turn'.todo = turn.todo \ {m} /\ turn'.pc = turn.pc
        /\ turn'.why = turn.why /\ turn'.page = turn.page /\ turn'.upto = turn.upto
        /\ turn'.last = turn.last /\ turn'.since = turn.since /\ turn'.sends = turn.sends
        /\ turn'.file = turn.file
    BY <1>4, <2>1 DEF Turns
  <2>6. /\ files' \in [Emails -> {NoFile} \cup AFile] /\ files'[m] = NoFile
        /\ \A x \in Emails \ {m} : files'[x] = files[x]
    BY <1>1, <2>1 DEF Forget, IndexShape
  <2>7. IndexShape' /\ TurnShape'
    BY <1>1, <1>2, <2>4, <2>5, <2>6 DEF IndexShape, TurnShape, Projecting
  <2>8. TokensInv'
    BY <1>1, <1>2, <2>4, <2>5, TokensKept
  <2>9. ASSUME NEW x \in Emails PROVE EmailParts(x)' /\ TurnParts(x)'
    <3>1. /\ HasText(x)' <=> HasText(x)
          /\ HasFile(x)' <=> HasFile(x)
          /\ In(x)' <=> In(x)
          /\ Missed(x)' <=> Missed(x)
      BY <1>2, <2>4 DEF HasText, HasFile, In, Missed
    <3>2. EmailParts(x) /\ TurnParts(x)
      BY <1>1 DEF EmailsInv
    <3>3. CASE x = m
      <4>1. ~In(x)' /\ ~Missed(x)' /\ ~Unlisted(x)' /\ files'[x].state # "ready"
        BY <1>6, <2>6, <3>1, <3>3 DEF Missed, Unlisted, NoFile
      <4> QED BY <4>1 DEF EmailParts, TurnParts
    <3>4. CASE x # m
      <4>1. Unlisted(x)' <=> Unlisted(x)
        BY <1>2, <2>6, <3>1, <3>4 DEF Unlisted
      <4>2. files'[x] = files[x] /\ (x \in turn'.todo <=> x \in turn.todo)
        BY <2>5, <2>6, <3>4
      <4>3. EmailParts(x)'
        BY <1>2, <3>1, <3>2, <4>1, <4>2 DEF EmailParts
      <4>4. TurnParts(x)'
        BY <1>2, <2>5, <3>1, <3>2, <4>2 DEF TurnParts
      <4> QED BY <4>3, <4>4
    <3> QED BY <3>3, <3>4
  <2>10. ReadParts' /\ StatusParts'
    BY <1>1, <1>2, <2>5 DEF EmailsInv, StatusParts, ReadParts
  <2> QED BY <2>7, <2>8, <2>9, <2>10 DEF IndexInv, ShapesInv, EmailsInv
<1> QED BY <1>5, <1>6

\* What the projection makes of a message: a source of its present version, unless
\* it has changed since it was read, and then the log has it.
LEMMA ProjectedSource ==
  ASSUME IndexInv, ProjectMessage, NEW m \in Emails, m = Next1, turn'.sends = turn.sends
  PROVE  /\ source' \in [Tokens -> {NoSource} \cup ASource]
         /\ jobs' \in [Tokens -> {NoJob} \cup AJob]
         /\ TokensInv'
         /\ \A x \in Emails : (HasText(x) => HasText(x)') /\ (HasFile(x) => HasFile(x)')
         /\ \/ HasText(m)' \/ ~In(m)
            \/ m \in IF turn.why = "backfill" THEN behind ELSE turn.since
<1>1. IndexShape /\ TurnShape /\ TokensInv /\ EmailsInv
  BY DEF IndexInv, ShapesInv
<1>2. PICK s : s = [of |-> m, kind |-> "text", version |-> turn.snap]
  OBVIOUS
<1>3. /\ turn.pc = "digest" /\ UNCHANGED <<mail, visible, flying>>
      /\ IF StillCurrent(m) /\ \A t \in Sources({m}, {"text"}) : source[t] # s
         THEN \E t \in Unused : Rewrite(Sources({m}, {"text"}), {t}, s)
         ELSE UNCHANGED <<source, jobs>>
  BY <1>2 DEF ProjectMessage, mailVars, indexVars
<1>4. s \in ASource /\ s.of = m /\ s.kind = "text" /\ s.version = turn.snap
  <2>1. turn.snap \in Nat
    BY <1>1 DEF IndexShape, Turns
  <2> QED BY <1>2, <2>1 DEF ASource
<1>5. CASE StillCurrent(m) /\ \A t \in Sources({m}, {"text"}) : source[t] # s
  <2>1. PICK t \in Unused : Rewrite(Sources({m}, {"text"}), {t}, s)
    BY <1>3, <1>5
  <2>2. PICK gone, new : gone = Sources({m}, {"text"}) /\ new = {t}
    OBVIOUS
  <2>3. Rewrite(gone, new, s) /\ new \subseteq Unused /\ t \in Tokens /\ source[t] = NoSource
    BY <2>1, <2>2 DEF Unused
  <2>4. \A u \in gone : u \in Tokens /\ source[u] # NoSource /\ source[u].of = m
                        /\ source[u].kind = "text"
    BY <1>1, <2>2, SourcesAreSources DEF Both
  <2>5. /\ source' \in [Tokens -> {NoSource} \cup ASource]
        /\ jobs' \in [Tokens -> {NoJob} \cup AJob]
        /\ source'[t] = s
        /\ \A u \in Tokens : u \in gone /\ u # t => source'[u] = NoSource
        /\ \A u \in Tokens : u \notin gone /\ u # t => source'[u] = source[u]
    <3>1. new = {} \/ s \in ASource
      BY <1>4
    <3>2. /\ source' \in [Tokens -> {NoSource} \cup ASource]
          /\ jobs' \in [Tokens -> {NoJob} \cup AJob]
          /\ \A u \in Tokens :
               /\ u \in new => source'[u] = s
               /\ u \in gone /\ u \notin new => source'[u] = NoSource
               /\ u \notin gone /\ u \notin new => source'[u] = source[u]
      BY <1>1, <2>3, <3>1, RewriteEffect
    <3> QED BY <2>2, <2>3, <3>2
  <2>6. TokensInv'
    <3>1. ASSUME NEW u \in Tokens, source'[u] # NoSource
          PROVE  /\ mail'[source'[u].of].place = "in"
                 /\ source'[u].kind = "text" => source'[u].version = mail'[source'[u].of].version
      <4>1. CASE u = t
        BY <1>3, <1>4, <1>5, <2>5, <4>1 DEF StillCurrent, In
      <4>2. CASE u # t
        <5>1. source'[u] = source[u] /\ TokenParts(u)
          BY <1>1, <2>5, <3>1, <4>2 DEF TokensInv
        <5> QED BY <1>3, <3>1, <5>1 DEF TokenParts, In
      <4> QED BY <4>1, <4>2
    <3>2. UNCHANGED <<visible, flying>>
      BY <1>3
    <3> QED BY <1>1, <1>4, <2>3, <2>4, <3>1, <3>2, TokensRewritten
  <2>7. HasText(m)'
    BY <1>4, <2>3, <2>5 DEF HasText
  <2>8. ASSUME NEW x \in Emails PROVE (HasText(x) => HasText(x)') /\ (HasFile(x) => HasFile(x)')
    <3>1. NoSource.kind = "none"
      BY DEF NoSource
    <3>2. CASE x = m
      BY <1>4, <2>3, <2>4, <2>5, <2>7, <3>1, <3>2 DEF HasFile
    <3>3. CASE x # m
      BY <1>4, <2>3, <2>4, <2>5, <3>1, <3>3 DEF HasText, HasFile
    <3> QED BY <3>2, <3>3
  <2> QED BY <2>5, <2>6, <2>7, <2>8
<1>6. CASE ~(StillCurrent(m) /\ \A t \in Sources({m}, {"text"}) : source[t] # s)
  <2>1. UNCHANGED <<source, jobs>>
    BY <1>3, <1>6
  <2>2. \A x \in Emails : (HasText(x)' <=> HasText(x)) /\ (HasFile(x)' <=> HasFile(x))
    BY <2>1 DEF HasText, HasFile
  <2>3. TokensInv'
    BY <1>1, <1>3, <2>1, TokensKept
  <2>4. CASE StillCurrent(m)
    <3>1. PICK t \in Sources({m}, {"text"}) : source[t] = s
      BY <1>6, <2>4
    <3>2. HasText(m)
      BY <1>4, <3>1 DEF HasText, Sources
    <3> QED BY <1>1, <2>1, <2>2, <2>3, <3>2 DEF IndexShape
  <2>5. CASE ~StillCurrent(m)
    <3>1. \/ In(m) /\ mail[m].version = turn.snap
          \/ m \in IF turn.why = "backfill" THEN behind ELSE turn.since
      BY <1>1, <1>3 DEF EmailsInv, ReadParts
    <3>2. m \in IF turn.why = "backfill" THEN behind ELSE turn.since
      BY <2>5, <3>1 DEF StillCurrent
    <3> QED BY <1>1, <2>1, <2>2, <2>3, <3>2 DEF IndexShape
  <2> QED BY <2>4, <2>5
<1> QED BY <1>5, <1>6

\* A message is projected.
LEMMA ProjectStep ==
  ASSUME IndexInv, ProjectMessage
  PROVE  IndexInv'
<1>1. IndexShape /\ TurnShape /\ TokensInv /\ EmailsInv
  BY DEF IndexInv, ShapesInv
<1>2. /\ turn.pc = "digest"
      /\ turn' = [turn EXCEPT !.pc = "page", !.todo = @ \ {Next1}, !.snap = 0]
      /\ UNCHANGED <<mail, object, behind, state, visible, flying, raced>>
      /\ files' = Enrolled(Next1)
  BY DEF ProjectMessage, Go, mailVars, indexVars
<1>3. PICK m \in Emails : m = Next1 /\ m \in turn.todo
  <2>1. turn.todo # {}
    BY <1>1, <1>2 DEF TurnShape
  <2> QED BY <1>1, <2>1, NextToDo
<1>4. turn \in Turns /\ turn.why # "none"
  BY <1>1, <1>2 DEF TurnShape, Projecting, IndexShape
<1>5. /\ turn' \in Turns /\ turn'.todo = turn.todo \ {m} /\ turn'.pc = "page"
      /\ turn'.why = turn.why /\ turn'.page = turn.page /\ turn'.upto = turn.upto
      /\ turn'.last = turn.last /\ turn'.since = turn.since /\ turn'.sends = turn.sends
      /\ turn'.file = turn.file
  BY <1>2, <1>3, <1>4 DEF Turns
<1>6. /\ source' \in [Tokens -> {NoSource} \cup ASource]
      /\ jobs' \in [Tokens -> {NoJob} \cup AJob]
      /\ TokensInv'
      /\ \A x \in Emails : (HasText(x) => HasText(x)') /\ (HasFile(x) => HasFile(x)')
      /\ \/ HasText(m)' \/ ~In(m)
         \/ m \in IF turn.why = "backfill" THEN behind ELSE turn.since
  BY <1>3, <1>5, ProjectedSource
<1>7. Queued \in AFile /\ Queued # NoFile /\ Queued.state # "ready"
  <2>1. MaxJobTries \in Nat
    BY IndexAssumption
  <2> QED BY <2>1 DEF Queued, AFile, NoFile
<1>8. /\ files' \in [Emails -> {NoFile} \cup AFile]
      /\ \A x \in Emails : /\ files'[x].state = "ready" => files[x].state = "ready"
                           /\ files'[x] = NoFile => files[x] = NoFile
      /\ turn.why # "backfill" /\ m \in Files /\ In(m) => files'[m] # NoFile
  <2>1. files' = [files EXCEPT ![m] = IF turn.why # "backfill" /\ m \in Files /\ In(m)
                                         /\ files[m] = NoFile THEN Queued ELSE files[m]]
    BY <1>2, <1>3 DEF Enrolled
  <2>2. files \in [Emails -> {NoFile} \cup AFile]
    BY <1>1 DEF IndexShape
  <2> QED BY <1>7, <2>1, <2>2
<1>9. IndexShape' /\ TurnShape'
  BY <1>1, <1>2, <1>5, <1>6, <1>8 DEF IndexShape, TurnShape, Projecting
<1>10. ASSUME NEW x \in Emails PROVE EmailParts(x)' /\ TurnParts(x)'
  <2>1. EmailParts(x) /\ TurnParts(x)
    BY <1>1 DEF EmailsInv
  <2>2. In(x)' <=> In(x)
    BY <1>2 DEF In
  <2>3. (Missed(x)' => Missed(x)) /\ (Unlisted(x)' => Unlisted(x))
    BY <1>2, <1>6, <1>8, <2>2 DEF Missed, Unlisted
  <2>4. EmailParts(x)'
    BY <1>2, <1>6, <1>8, <2>1, <2>3 DEF EmailParts
  <2>5. CASE x # m
    <3>1. x \in turn'.todo <=> x \in turn.todo
      BY <1>5, <2>5
    <3>2. TurnParts(x)'
      BY <1>2, <1>5, <1>6, <1>8, <2>1, <2>2, <2>3, <3>1 DEF TurnParts
    <3> QED BY <2>4, <3>2
  <2>6. CASE x = m
    <3>1. turn.why = "backfill" => ~Missed(x)'
      BY <1>2, <1>6, <2>2, <2>6 DEF Missed
    <3>2. turn.why = "replay" /\ Missed(x)' /\ state' # NoState => raced'
      BY <1>2, <2>1, <2>3 DEF TurnParts
    <3>3. turn.why \in {"replay", "again"} /\ In(x)' /\ x \notin turn'.since =>
            HasText(x)' /\ (x \in Files => files'[x] # NoFile)
      BY <1>5, <1>6, <1>8, <2>2, <2>6
    <3>4. TurnParts(x)'
      BY <1>5, <3>1, <3>2, <3>3 DEF TurnParts
    <3> QED BY <2>4, <3>4
  <2> QED BY <2>5, <2>6
<1>11. ReadParts' /\ StatusParts'
  BY <1>1, <1>2, <1>5 DEF EmailsInv, StatusParts, ReadParts
<1> QED BY <1>6, <1>9, <1>10, <1>11 DEF IndexInv, ShapesInv, EmailsInv

\* The end of a page: the turn goes on with the log, or with the jobs.
LEMMA PageEnds ==
  ASSUME IndexInv, EndPage, UNCHANGED <<mail, object, source, jobs, visible, flying, raced>>,
         state' \in States, behind' \subseteq Emails,
         files' \in [Emails -> {NoFile} \cup AFile],
         \A m \in Emails : files'[m].state = "ready" => files[m].state = "ready",
         \/ turn' = [Idle EXCEPT !.pc = "confirm"]
         \/ turn' = [Idle EXCEPT !.pc = "page", !.why = "again"]
         \/ \E why \in {"replay", "again"}, page, log \in SUBSET Emails :
              turn' = Replaying(why, page, log),
         \A m \in Emails :
           /\ Missed(m)' /\ state'.status = "building" => m > state'.cursor
           /\ Missed(m)' /\ state'.status = "ready" => raced
           /\ Unlisted(m)' /\ state' # NoState => state'.files = "building" /\ m > state'.fcursor
           /\ turn'.why = "replay" /\ Missed(m)' /\ state' # NoState => raced
  PROVE  IndexInv'
<1>1. IndexShape /\ TurnShape /\ TokensInv /\ EmailsInv
  BY DEF IndexInv, ShapesInv
<1>2. turn.sends = {}
  BY <1>1 DEF EndPage, TurnShape
<1>3. /\ turn' \in Turns /\ turn'.sends = {} /\ turn'.pc \in {"page", "confirm"}
      /\ turn'.why \in {"none", "replay", "again"}
      /\ turn'.why = "none" <=> turn'.pc = "confirm"
      /\ turn'.why # "none" => turn'.todo \subseteq turn'.page /\ turn'.page \ turn'.todo = {}
  <2>1. CASE turn' = [Idle EXCEPT !.pc = "confirm"]
    <3>1. LET next == [Idle EXCEPT !.pc = "confirm"]
          IN next \in Turns /\ next.pc = "confirm" /\ next.why = "none" /\ next.sends = {}
      BY IdleTurn
    <3> QED BY <2>1, <3>1
  <2>2. CASE turn' = [Idle EXCEPT !.pc = "page", !.why = "again"]
    <3>1. /\ turn'.pc = "page" /\ turn'.why = "again" /\ turn'.sends = {} /\ turn'.todo = {}
          /\ turn'.page = {}
      BY <2>2 DEF Idle
    <3>2. turn' \in Turns
      BY <2>2, IdleTurn DEF Turns
    <3> QED BY <3>1, <3>2
  <2>3. ASSUME NEW why \in {"replay", "again"}, NEW page \in SUBSET Emails,
               NEW log \in SUBSET Emails,
               turn' = Replaying(why, page, log)
        PROVE  <1>3
    <3>1. LET t == Replaying(why, page, log)
          IN /\ t \in Turns /\ t.pc = "page" /\ t.why = why /\ t.sends = {}
             /\ t.todo = page /\ t.page = page /\ t.since = {}
      BY ReplayTurn
    <3> QED BY <2>3, <3>1
  <2> QED BY <2>1, <2>2, <2>3
<1>4. IndexShape' /\ TurnShape'
  BY <1>1, <1>3 DEF IndexShape, TurnShape, Projecting
<1>5. TokensInv'
  BY <1>1, <1>2, <1>3, TokensKept
<1>6. ASSUME NEW m \in Emails PROVE EmailParts(m)' /\ TurnParts(m)'
  <2>1. EmailParts(m) /\ (HasFile(m)' <=> HasFile(m))
    BY <1>1 DEF EmailsInv, HasFile
  <2>2. EmailParts(m)'
    BY <2>1 DEF EmailParts
  <2>3. TurnParts(m)'
    BY <1>3 DEF TurnParts
  <2> QED BY <2>2, <2>3
<1>7. ReadParts' /\ StatusParts'
  BY <1>3 DEF ReadParts, StatusParts
<1> QED BY <1>4, <1>5, <1>6, <1>7 DEF IndexInv, ShapesInv, EmailsInv

\* The backfill ends: all of the mail has been projected, or what lies after the
\* cursor is left.
LEMMA EndBackfillStep ==
  ASSUME IndexInv, EndBackfill
  PROVE  IndexInv'
<1>1. IndexShape /\ TurnShape /\ TokensInv /\ EmailsInv
  BY DEF IndexInv, ShapesInv
<1>2. /\ EndPage /\ turn.todo = {} /\ turn.why = "backfill"
      /\ UNCHANGED <<mail, object, source, jobs, files, visible, flying, raced>>
  BY DEF EndBackfill, EndPage, mailVars, indexVars
<1>3. PICK kept : kept = WithState([state EXCEPT !.cursor = turn.upto])
  OBVIOUS
<1>4. turn.upto \in Nat
  BY <1>1 DEF IndexShape, Turns
<1>5. /\ state = NoState => kept = NoState
      /\ state # NoState => /\ kept \in States /\ kept # NoState /\ kept.status = "building"
                            /\ kept.cursor = turn.upto /\ kept.files = state.files
                            /\ kept.fcursor = state.fcursor
  <2>1. state # NoState => state.status = "building"
    BY <1>1, <1>2 DEF EmailsInv, StatusParts
  <2>2. ASSUME state # NoState
        PROVE  LET s == [state EXCEPT !.cursor = turn.upto]
               IN /\ s \in States /\ s # NoState /\ s.status = state.status
                  /\ s.cursor = turn.upto /\ s.files = state.files
                  /\ s.fcursor = state.fcursor
    BY <1>1, <1>4, <2>2, StateFields
  <2> QED BY <1>3, <2>1, <2>2 DEF WithState
<1>6. ASSUME NEW m \in Emails
      PROVE  /\ m > 0 /\ (Unlisted(m)' /\ behind' = behind => Unlisted(m))
             /\ Missed(m)' /\ behind' = behind => Missed(m)
             /\ EmailParts(m) /\ TurnParts(m)
    BY <1>1, <1>2 DEF Missed, Unlisted, HasText, In, Emails, EmailsInv
<1>7. NewState \in States /\ NewState # NoState /\ NewState.status = "building"
      /\ NewState.cursor = 0 /\ NewState.files = "building" /\ NewState.fcursor = 0
      /\ NoState.status = "none" /\ NoState \in States
  BY <1>1, StateFields
<1>8. \A m \in Emails : files'[m].state = "ready" => files[m].state = "ready"
  BY <1>2
<1>9. behind \subseteq Emails /\ files' \in [Emails -> {NoFile} \cup AFile]
  BY <1>1, <1>2 DEF IndexShape
<1>10. CASE ~turn.last
  <2>1. state' = kept /\ behind' = behind /\ turn' = [Idle EXCEPT !.pc = "confirm"]
    BY <1>3, <1>10 DEF EndBackfill, Go
  <2>2. state' \in States
    BY <1>5, <1>7, <2>1
  <2>3. turn'.why = "none"
    BY <2>1 DEF Idle
  <2>4. ASSUME NEW m \in Emails
        PROVE  /\ Missed(m)' /\ state'.status = "building" => m > state'.cursor
               /\ Missed(m)' /\ state'.status = "ready" => raced
               /\ Unlisted(m)' /\ state' # NoState => state'.files = "building" /\ m > state'.fcursor
    <3>1. CASE state = NoState
      BY <1>5, <1>7, <2>1, <3>1
    <3>2. CASE state # NoState
      <4>1. Missed(m)' => m > state'.cursor
        BY <1>2, <1>5, <1>6, <1>10, <2>1, <3>2 DEF TurnParts
      <4>2. Unlisted(m)' => state'.files = "building" /\ m > state'.fcursor
        BY <1>5, <1>6, <2>1, <3>2 DEF EmailParts
      <4> QED BY <1>5, <2>1, <3>2, <4>1, <4>2
    <3> QED BY <3>1, <3>2
  <2> QED BY <1>2, <1>8, <1>9, <2>1, <2>2, <2>3, <2>4, PageEnds
<1>11. CASE turn.last
  <2>1. /\ state' = IF kept = NoState THEN NewState ELSE kept
        /\ behind' = IF kept = NoState THEN {} ELSE behind
        /\ \E page \in Pages(behind') : turn' = Replaying("replay", page, behind')
    BY <1>3, <1>11 DEF EndBackfill, Go
  <2>2. PICK page, log : page \in Pages(behind') /\ log = behind'
                         /\ turn' = Replaying("replay", page, log)
    BY <2>1
  <2>3. behind' \subseteq Emails /\ state' \in States
    BY <1>5, <1>7, <1>9, <2>1
  <2>4. page \in SUBSET Emails /\ log \in SUBSET Emails
    BY <2>2, <2>3 DEF Pages
  <2>5. ASSUME NEW m \in Emails
        PROVE  /\ Missed(m)' /\ state'.status = "building" => m > state'.cursor
               /\ Missed(m)' /\ state'.status = "ready" => raced
               /\ Unlisted(m)' /\ state' # NoState => state'.files = "building" /\ m > state'.fcursor
               /\ Missed(m)' /\ state' # NoState => raced
    <3>1. CASE state = NoState
      <4>1. raced
        BY <1>1, <1>2, <1>11, <3>1 DEF EmailsInv, StatusParts
      <4> QED BY <1>5, <1>6, <1>7, <2>1, <3>1, <4>1
    <3>2. CASE state # NoState
      <4>1. behind' = behind /\ state' = kept
        BY <1>5, <2>1, <3>2
      <4>2. ~Missed(m)'
        BY <1>2, <1>6, <1>11, <3>2, <4>1 DEF TurnParts
      <4>3. Unlisted(m)' => state'.files = "building" /\ m > state'.fcursor
        BY <1>5, <1>6, <3>2, <4>1 DEF EmailParts
      <4> QED BY <4>2, <4>3
    <3> QED BY <3>1, <3>2
  <2>6. \E why \in {"replay", "again"}, pg, lg \in SUBSET Emails : turn' = Replaying(why, pg, lg)
    BY <2>2, <2>4
  <2> QED BY <1>2, <1>8, <1>9, <2>3, <2>5, <2>6, PageEnds
<1> QED BY <1>10, <1>11

\* What the log does not have when a page of it is done has been projected, or was
\* not in the log before.
LEMMA AppliedMail ==
  ASSUME IndexInv, EndPage, turn.why \in {"replay", "again"}, state # NoState,
         NEW m \in Emails, In(m), m \notin Applied
  PROVE  /\ ~HasText(m) => Missed(m)
         /\ m \in Files /\ files[m] = NoFile => Unlisted(m)
<1>1. TurnParts(m) /\ turn.todo = {}
  BY DEF IndexInv, EmailsInv, EndPage
<1>2. m \notin turn.since /\ (m \in turn.page \/ m \notin behind)
  BY DEF Applied
<1>3. CASE m \in turn.page
  BY <1>1, <1>2, <1>3 DEF TurnParts
<1>4. CASE m \notin behind
  BY <1>4 DEF Missed, Unlisted
<1> QED BY <1>2, <1>3, <1>4

\* The log has caught up, or the rest of it is left for another turn.
LEMMA EndReplayStep ==
  ASSUME IndexInv, EndReplay
  PROVE  IndexInv'
<1>1. IndexShape /\ TurnShape /\ TokensInv /\ EmailsInv
  BY DEF IndexInv, ShapesInv
<1>2. /\ EndPage /\ turn.why = "replay" /\ behind' = Applied
      /\ UNCHANGED <<mail, object, source, jobs, files, visible, flying, raced>>
  BY DEF EndReplay, mailVars, indexVars
<1>3. behind' \subseteq Emails /\ files' \in [Emails -> {NoFile} \cup AFile]
  BY <1>1, <1>2 DEF IndexShape, Turns, Applied
<1>4. /\ NoState.status = "none"
      /\ state # NoState => LET s == [state EXCEPT !.status = "ready"]
                            IN /\ s \in States /\ s # NoState /\ s.status = "ready"
                               /\ s.cursor = state.cursor /\ s.files = state.files
                               /\ s.fcursor = state.fcursor
  BY <1>1, StateFields
<1>5. ASSUME NEW m \in Emails, state # NoState
      PROVE  /\ Missed(m)' => raced /\ (state.status = "building" => m > state.cursor)
             /\ Unlisted(m)' => state.files = "building" /\ m > state.fcursor
  <2>1. EmailParts(m) /\ TurnParts(m)
    BY <1>1 DEF EmailsInv
  <2>2. Missed(m)' => In(m) /\ m \notin Applied /\ ~HasText(m)
    BY <1>2 DEF Missed, In, HasText
  <2>3. Unlisted(m)' => In(m) /\ m \notin Applied /\ m \in Files /\ files[m] = NoFile
    BY <1>2 DEF Unlisted, In
  <2>4. (Missed(m)' => Missed(m)) /\ (Unlisted(m)' => Unlisted(m))
    <3>1. turn.why \in {"replay", "again"}
      BY <1>2
    <3> QED BY <1>2, <1>5, <2>2, <2>3, <3>1, AppliedMail
  <2>5. Missed(m)' => raced
    BY <1>2, <1>5, <2>1, <2>4 DEF TurnParts
  <2> QED BY <1>5, <2>1, <2>4, <2>5 DEF EmailParts
<1>6. ASSUME state' = state \/ (state # NoState /\ state' = [state EXCEPT !.status = "ready"])
      PROVE  \A m \in Emails :
               /\ Missed(m)' /\ state'.status = "building" => m > state'.cursor
               /\ Missed(m)' /\ state'.status = "ready" => raced
               /\ Unlisted(m)' /\ state' # NoState => state'.files = "building" /\ m > state'.fcursor
               /\ turn'.why = "replay" /\ Missed(m)' /\ state' # NoState => raced
  <2> TAKE m \in Emails
  <2>1. CASE state' = NoState
    BY <1>4, <2>1
  <2>2. CASE state' # NoState /\ state' = state
    BY <1>5, <2>2
  <2>3. CASE state # NoState /\ state' = [state EXCEPT !.status = "ready"]
    BY <1>4, <1>5, <2>3
  <2> QED BY <1>6, <2>1, <2>2, <2>3
<1>7. \A m \in Emails : files'[m].state = "ready" => files[m].state = "ready"
  BY <1>2
<1>8. CASE Caught /\ state = NoState
  <2>1. state' = state /\ turn' = [Idle EXCEPT !.pc = "page", !.why = "again"]
    BY <1>8 DEF EndReplay, Go
  <2>2. state' \in States
    BY <1>1, <2>1 DEF IndexShape
  <2> QED BY <1>2, <1>3, <1>6, <1>7, <2>1, <2>2, PageEnds
<1>9. CASE Caught /\ state # NoState
  <2>1. /\ state' = [state EXCEPT !.status = "ready"]
        /\ \E page \in Pages(behind') : turn' = Replaying("again", page, behind')
    BY <1>9 DEF EndReplay, Go
  <2>2. PICK page, log : page \in Pages(behind') /\ log = behind'
                         /\ turn' = Replaying("again", page, log)
    BY <2>1
  <2>3. page \in SUBSET Emails /\ log \in SUBSET Emails
    BY <1>3, <2>2 DEF Pages
  <2>4. \E why \in {"replay", "again"}, pg, lg \in SUBSET Emails : turn' = Replaying(why, pg, lg)
    BY <2>2, <2>3
  <2>5. state' \in States
    BY <1>4, <1>9, <2>1
  <2> QED BY <1>2, <1>3, <1>6, <1>7, <1>9, <2>1, <2>4, <2>5, PageEnds
<1>10. CASE ~Caught
  <2>1. state' = state /\ turn' = [Idle EXCEPT !.pc = "confirm"]
    BY <1>10 DEF EndReplay, Go
  <2>2. state' \in States
    BY <1>1, <2>1 DEF IndexShape
  <2> QED BY <1>2, <1>3, <1>6, <1>7, <2>1, <2>2, PageEnds
<1> QED BY <1>8, <1>9, <1>10

\* The log is read once more, and a page of the attachments is queued.
LEMMA EndAgainStep ==
  ASSUME IndexInv, batch \in Nat, EndAgain
  PROVE  IndexInv'
<1>1. IndexShape /\ TurnShape /\ TokensInv /\ EmailsInv
  BY DEF IndexInv, ShapesInv
<1>2. /\ EndPage /\ turn.why = "again" /\ turn' = [Idle EXCEPT !.pc = "confirm"]
      /\ UNCHANGED <<mail, object, source, jobs, visible, flying, raced>>
      /\ behind' = IF state = NoState THEN {} ELSE Applied
  BY DEF EndAgain, Go, mailVars, indexVars
<1>3. PICK s, rows, page : /\ s = (IF state = NoState THEN NewState ELSE state)
                           /\ rows = {m \in Files : In(m) /\ m > s.fcursor}
                           /\ page = FirstOf(rows)
  OBVIOUS
<1>4. IF s.files = "building"
      THEN /\ files' = [m \in Emails |-> IF m \in page /\ files[m] = NoFile
                                         THEN Queued ELSE files[m]]
           /\ state' = [s EXCEPT !.fcursor = LastOf(page, @),
                                 !.files = IF rows = page THEN "ready" ELSE @]
      ELSE state' = s /\ UNCHANGED files
  BY <1>3 DEF EndAgain
<1>5. behind' \subseteq Emails
  BY <1>1, <1>2 DEF IndexShape, Turns, Applied
<1>6. /\ s \in States /\ s # NoState /\ s.status \in {"building", "ready", "failed"}
      /\ s.cursor \in Nat /\ s.files \in {"building", "ready"} /\ s.fcursor \in Nat
      /\ state = NoState => s.status = "building" /\ s.cursor = 0 /\ s.files = "building"
                            /\ s.fcursor = 0
      /\ state # NoState => s = state
      /\ s \in [status : {"building", "ready", "failed"}, cursor : Nat,
                files : {"building", "ready"}, fcursor : Nat]
  <2>1. s \in States /\ s # NoState
    BY <1>1, <1>3, StateFields DEF IndexShape
  <2> QED BY <1>1, <1>3, <2>1, StateFields DEF States
<1>7. ASSUME NEW m \in Emails, In(m), m \notin behind'
      PROVE  /\ ~HasText(m) => /\ s.status = "building" => m > s.cursor
                               /\ s.status = "ready" => raced
             /\ m \in Files /\ files[m] = NoFile => s.files = "building" /\ m > s.fcursor
  <2>1. CASE state = NoState
    <3>1. m > 0
      BY DEF Emails
    <3> QED BY <1>6, <2>1, <3>1
  <2>2. CASE state # NoState
    <3>1. /\ ~HasText(m) => Missed(m)
          /\ m \in Files /\ files[m] = NoFile => Unlisted(m)
      <4>1. turn.why \in {"replay", "again"} /\ m \notin Applied
        BY <1>2, <1>7, <2>2
      <4> QED BY <1>2, <1>7, <2>2, <4>1, AppliedMail
    <3>2. EmailParts(m)
      BY <1>1 DEF EmailsInv
    <3> QED BY <1>6, <2>2, <3>1, <3>2 DEF EmailParts
  <2> QED BY <2>1, <2>2
<1>8. turn'.why = "none"
  BY <1>2 DEF Idle
<1>9. ASSUME state' \in States, files' \in [Emails -> {NoFile} \cup AFile],
             \A m \in Emails : files'[m].state = "ready" => files[m].state = "ready",
             state'.status = s.status, state'.cursor = s.cursor,
             \A m \in Emails : Unlisted(m)' => state'.files = "building" /\ m > state'.fcursor
      PROVE  IndexInv'
  <2>1. ASSUME NEW m \in Emails
        PROVE  /\ Missed(m)' /\ state'.status = "building" => m > state'.cursor
               /\ Missed(m)' /\ state'.status = "ready" => raced
    BY <1>2, <1>7, <1>9 DEF Missed, HasText, In
  <2> QED BY <1>2, <1>5, <1>8, <1>9, <2>1, PageEnds
<1>10. CASE s.files # "building"
  <2>1. state' = s /\ files' = files
    BY <1>4, <1>10
  <2>2. ASSUME NEW m \in Emails, Unlisted(m)' PROVE FALSE
    <3>1. In(m) /\ m \notin behind' /\ m \in Files /\ files[m] = NoFile
      BY <1>2, <2>1, <2>2 DEF Unlisted, In
    <3> QED BY <1>7, <1>10, <3>1
  <2> QED BY <1>1, <1>6, <1>9, <2>1, <2>2 DEF IndexShape
<1>11. CASE s.files = "building"
  <2>1. /\ files' = [m \in Emails |-> IF m \in page /\ files[m] = NoFile
                                      THEN Queued ELSE files[m]]
        /\ state' = [s EXCEPT !.fcursor = LastOf(page, @),
                              !.files = IF rows = page THEN "ready" ELSE @]
    BY <1>4, <1>11
  <2>2. Queued \in AFile /\ Queued # NoFile /\ Queued.state # "ready"
    <3>1. MaxJobTries \in Nat
      BY IndexAssumption
    <3> QED BY <3>1 DEF Queued, AFile, NoFile
  <2>3. /\ files' \in [Emails -> {NoFile} \cup AFile]
        /\ \A m \in Emails : files'[m].state = "ready" => files[m].state = "ready"
        /\ \A m \in Emails : files'[m] = NoFile => files[m] = NoFile /\ m \notin page
    BY <1>1, <2>1, <2>2 DEF IndexShape
  <2>4. rows \in SUBSET Emails /\ \A m \in rows : m > s.fcursor
    BY <1>3, IndexAssumption DEF Emails
  <2>5. /\ LastOf(page, s.fcursor) \in Nat
        /\ \A m \in rows : m \in page \/ (rows # page /\ m > LastOf(page, s.fcursor))
    BY <1>3, <1>6, <2>4, PageLeavesCursor
  <2>6. /\ state' \in States /\ state'.status = s.status /\ state'.cursor = s.cursor
        /\ state'.fcursor = LastOf(page, s.fcursor)
        /\ rows # page => state'.files = "building"
    BY <1>6, <1>11, <2>1, <2>5 DEF States
  <2>7. ASSUME NEW m \in Emails, Unlisted(m)'
        PROVE  state'.files = "building" /\ m > state'.fcursor
    <3>1. In(m) /\ m \notin behind' /\ m \in Files /\ files[m] = NoFile /\ m \notin page
      BY <1>2, <2>3, <2>7 DEF Unlisted, In
    <3>2. m \in rows
      BY <1>3, <1>7, <3>1
    <3> QED BY <2>5, <2>6, <3>1, <3>2
  <2> QED BY <1>9, <2>3, <2>6, <2>7
<1> QED BY <1>10, <1>11

-----------------------------------------------------------------------------
(* A turn: the jobs                                                        *)

\* A projection that fails is still one.
LEMMA FailedState ==
  ASSUME IndexShape
  PROVE  WithState([state EXCEPT !.status = "failed"]) \in States
<1>1. CASE state = NoState
  BY <1>1 DEF WithState, States
<1>2. CASE state # NoState
  <2>1. state \in [status : {"building", "ready", "failed"}, cursor : Nat,
                   files : {"building", "ready"}, fcursor : Nat]
    BY <1>2 DEF IndexShape, States
  <2>2. [state EXCEPT !.status = "failed"] \in States
    BY <2>1 DEF States
  <2> QED BY <1>2, <2>2 DEF WithState
<1> QED BY <1>1, <1>2

\* A step that is about jobs and vectors only: what it owes is said of the tokens.
LEMMA JobsStep ==
  ASSUME IndexInv, UNCHANGED <<mail, object, behind, source, files, raced>>,
         turn' \in Turns, TurnShape',
         SameTurn \/ (turn'.why = "none" /\ turn'.pc \notin {"page", "digest"}),
         state' = state \/ (state' = WithState([state EXCEPT !.status = "failed"])
                             /\ turn'.why = "none"),
         jobs' \in [Tokens -> {NoJob} \cup AJob], visible' \subseteq Tokens,
         flying' \subseteq Ops \X Tokens, \A t \in Tokens : TokenParts(t)'
  PROVE  IndexInv'
<1>1. IndexShape /\ TurnShape /\ TokensInv /\ EmailsInv
  BY DEF IndexInv, ShapesInv
<1>2. state' \in States
  BY <1>1, FailedState DEF IndexShape
<1>3. IndexShape'
  BY <1>1, <1>2 DEF IndexShape
<1>4. \A m \in Emails : /\ files'[m].state = "ready" => files[m].state = "ready"
                        /\ files'[m] = NoFile => files[m] = NoFile
  OBVIOUS
<1>5. EmailsInv'
  BY <1>1, <1>4, EmailsKept
<1> QED BY <1>3, <1>5 DEF IndexInv, ShapesInv, TokensInv

\* The fields of a job.
LEMMA JobFields ==
  ASSUME IndexShape, NEW t \in Tokens, jobs[t].state # "none" \/ jobs[t].op # "none"
  PROVE  /\ jobs[t] \in AJob /\ jobs[t].op \in Ops
         /\ jobs[t].tries \in 0..MaxJobTries /\ jobs[t].tries \in Nat /\ MaxJobTries \in Nat
         /\ \A s \in {"pending", "processing", "submitted", "failed"}, n \in 0..MaxJobTries, o \in BOOLEAN :
              LET j == [op |-> jobs[t].op, state |-> s, tries |-> n, old |-> o]
              IN j \in AJob /\ j # NoJob
<1>1. MaxJobTries \in Nat
  BY IndexAssumption
<1>2. jobs[t] \in AJob
  BY DEF IndexShape, NoJob
<1>3. jobs[t].op \in Ops /\ jobs[t].tries \in 0..MaxJobTries
  BY <1>2 DEF AJob
<1>4. NoJob.op = "none"
  BY DEF NoJob
<1> QED BY <1>1, <1>2, <1>3, <1>4 DEF AJob, Ops

\* What of the jobs is sent and listed.
LEMMA ListStep ==
  ASSUME IndexInv, ListSubmitted
  PROVE  IndexInv'
<1>1. IndexShape /\ TurnShape /\ TokensInv
  BY DEF IndexInv, ShapesInv
<1>2. /\ UNCHANGED <<mail, object, behind, state, source, jobs, files, visible, flying, raced>>
      /\ \E due \in SUBSET Tokens :
           turn' = [Idle EXCEPT !.pc = IF due = {} THEN "lease" ELSE "observe", !.seen = due]
  BY DEF ListSubmitted, Go, mailVars, indexVars, Submitted
<1>3. PICK due \in SUBSET Tokens :
        turn' = [Idle EXCEPT !.pc = IF due = {} THEN "lease" ELSE "observe", !.seen = due]
  BY <1>2
<1>4. /\ turn'.pc \in {"lease", "observe"} /\ turn'.why = "none" /\ turn'.sends = {}
  BY <1>3 DEF Idle
<1>5. turn' \in Turns
  BY <1>3, IdleTurn DEF Turns, Awaits
<1>6. TurnShape'
  BY <1>4 DEF TurnShape, Projecting
<1>7. TokensInv'
  BY <1>1, <1>2, <1>4, TokensKept
<1> QED BY <1>1, <1>2, <1>4, <1>5, <1>6, <1>7, JobsStep DEF IndexShape, TokensInv

\* What is visible confirms jobs, or nothing answers.
LEMMA ObserveStep ==
  ASSUME IndexInv, Observe \/ ObserveFails
  PROVE  IndexInv'
<1>1. IndexShape /\ TurnShape /\ TokensInv
  BY DEF IndexInv, ShapesInv
<1>2. /\ turn' = [Idle EXCEPT !.pc = "lease"]
      /\ UNCHANGED <<mail, object, behind, state, source, files, visible, flying, raced>>
      /\ \/ jobs' = [t \in Tokens |-> IF t \in turn.seen \cap Submitted /\ Confirmed(t)
                                      THEN NoJob ELSE jobs[t]]
         \/ jobs' = jobs
  BY DEF Observe, ObserveFails, Go, mailVars, indexVars
<1>3. LET next == [Idle EXCEPT !.pc = "lease"]
      IN next \in Turns /\ next.pc = "lease" /\ next.why = "none" /\ next.sends = {}
  BY IdleTurn
<1>4. turn' \in Turns /\ turn'.pc = "lease" /\ turn'.why = "none" /\ turn'.sends = {}
  BY <1>2, <1>3
<1>5. TurnShape'
  BY <1>4 DEF TurnShape, Projecting
<1>6. ASSUME NEW t \in Tokens
      PROVE  jobs'[t] = jobs[t] \/ (jobs'[t] = NoJob /\ jobs[t].state = "submitted" /\ Confirmed(t))
  BY <1>2 DEF Submitted
<1>7. jobs' \in [Tokens -> {NoJob} \cup AJob]
  BY <1>1, <1>2 DEF IndexShape
<1>8. ASSUME NEW t \in Tokens PROVE TokenParts(t)'
  <2>1. TokenParts(t)
    BY <1>1 DEF TokensInv
  <2>2. CASE jobs'[t] = jobs[t]
    BY <1>2, <1>4, <2>1, <2>2 DEF TokenParts, In
  <2>3. CASE jobs'[t] = NoJob /\ jobs[t].state = "submitted" /\ Confirmed(t)
    <3>1. jobs[t].op \in Ops
      BY <1>1, <2>3, JobFields
    <3>2. NoJob.op = "none" /\ NoJob.state = "none"
      BY DEF NoJob
    <3>3. CASE jobs[t].op = "upsert"
      BY <1>2, <1>4, <2>1, <2>3, <3>2, <3>3 DEF TokenParts, In, Confirmed
    <3>4. CASE jobs[t].op = "delete"
      <4>1. t \notin visible /\ \A op \in Ops : <<op, t>> \notin flying
        BY <2>1, <2>3, <3>4 DEF TokenParts, Confirmed
      <4>2. source[t] = NoSource
        BY <2>1, <3>4 DEF TokenParts
      <4> QED BY <1>2, <1>4, <2>3, <3>2, <4>1, <4>2 DEF TokenParts, Ops
    <3> QED BY <3>1, <3>3, <3>4 DEF Ops
  <2> QED BY <1>6, <2>2, <2>3
<1>9. visible' \subseteq Tokens /\ flying' \subseteq Ops \X Tokens
  BY <1>1, <1>2 DEF IndexShape
<1> QED BY <1>2, <1>4, <1>5, <1>7, <1>8, <1>9, JobsStep

\* What of a set of sends is of one kind.
LEMMA OfSends ==
  ASSUME NEW sends \in SUBSET (Ops \X Tokens), NEW op \in Ops
  PROVE  /\ Of(op, sends) \subseteq sends
         /\ \A o \in Ops, t \in Tokens : <<o, t>> \in Of(op, sends) <=> o = op /\ <<o, t>> \in sends
BY DEF Of

\* The deletes are sent.
LEMMA DeletesSent ==
  ASSUME IndexShape, NEW sends \in SUBSET (Ops \X Tokens), SendDeletes(sends)
  PROVE  /\ turn' \in Turns /\ turn'.why = "none" /\ turn'.pc \in {"idle", "delete"} /\ TurnShape'
         /\ flying' \subseteq Ops \X Tokens
         /\ \A t \in Tokens :
              /\ <<"upsert", t>> \in flying' <=> <<"upsert", t>> \in flying
              /\ <<"delete", t>> \in flying' <=> <<"delete", t>> \in flying \cup sends
              /\ <<"upsert", t>> \notin turn'.sends
              /\ <<"delete", t>> \in turn'.sends <=> <<"delete", t>> \in sends
<1> DEFINE deletes == Of("delete", sends)
<1>1. /\ deletes \subseteq sends
      /\ \A o \in Ops, t \in Tokens : <<o, t>> \in deletes <=> o = "delete" /\ <<o, t>> \in sends
  <2>1. "delete" \in Ops
    BY DEF Ops
  <2> QED BY <2>1, OfSends
<1>2. IF deletes = {} THEN turn' = Idle /\ UNCHANGED flying
      ELSE turn' = [Idle EXCEPT !.pc = "delete", !.sends = deletes] /\ flying' = flying \cup deletes
  BY DEF SendDeletes, Go
<1> HIDE DEF deletes
<1>3. /\ turn'.sends = deletes /\ turn'.why = "none" /\ turn'.pc \in {"idle", "delete"}
      /\ turn'.sends # {} => turn'.pc = "delete"
      /\ turn' \in Turns
  <2>1. CASE deletes = {}
    BY <1>2, <2>1, IdleTurn
  <2>2. CASE deletes # {}
    <3>1. turn' = [Idle EXCEPT !.pc = "delete", !.sends = deletes]
      BY <1>2, <2>2
    <3>2. turn'.pc = "delete" /\ turn'.sends = deletes /\ turn'.why = "none"
      BY <3>1 DEF Idle
    <3>3. deletes \in SUBSET (Ops \X Tokens)
      BY <1>1
    <3>4. turn' \in Turns
      BY <3>1, <3>3, IdleTurn DEF Turns, Awaits
    <3> QED BY <3>2, <3>4
  <2> QED BY <2>1, <2>2
<1>4. turn' \in Turns
  BY <1>3
<1>5. TurnShape'
  BY <1>3 DEF TurnShape, Projecting
<1>6. flying' = flying \cup deletes
  BY <1>2
<1>7. flying' \subseteq Ops \X Tokens
  BY <1>1, <1>6 DEF IndexShape
<1>8. ASSUME NEW t \in Tokens
      PROVE  /\ <<"upsert", t>> \notin deletes
             /\ <<"delete", t>> \in deletes <=> <<"delete", t>> \in sends
  BY <1>1 DEF Ops
<1> QED BY <1>3, <1>4, <1>5, <1>6, <1>7, <1>8

\* Jobs are freed, and some of those that are due are leased: those of sources are
\* upserts, deletes have none.
LEMMA LeaseStep ==
  ASSUME IndexInv, LeaseJobs
  PROVE  IndexInv'
<1>1. IndexShape /\ TurnShape /\ TokensInv
  BY DEF IndexInv, ShapesInv
<1> DEFINE over(t) == jobs[t].state = "submitted" /\ jobs[t].old
           spent == {t \in Tokens : over(t) /\ jobs[t].tries >= MaxJobTries}
           freed == [t \in Tokens |->
             IF over(t) \/ (jobs[t].state = "processing" /\ jobs[t].old)
             THEN [jobs[t] EXCEPT !.state = IF t \in spent THEN "failed" ELSE "pending",
                                  !.old = FALSE]
             ELSE jobs[t]]
           due == {t \in Tokens : freed[t].state \in {"pending", "failed"}
                                   /\ freed[t].tries < MaxJobTries}
           later == {t \in due : freed[t].state = "failed"}
<1>2. /\ UNCHANGED <<mail, object, behind, source, files, visible, raced>>
      /\ state' \in {state, WithState([state EXCEPT !.status = "failed"])}
      /\ \E leased \in {due, due \ later} :
           LET sends == {<<freed[t].op, t>> : t \in leased}
           IN /\ jobs' = [t \in Tokens |-> IF t \in leased
                           THEN [freed[t] EXCEPT !.state = "processing", !.tries = @ + 1]
                           ELSE freed[t]]
              /\ IF Of("upsert", sends) = {} THEN SendDeletes(sends)
                 ELSE turn' = [Idle EXCEPT !.pc = "embed", !.sends = sends] /\ UNCHANGED flying
  BY DEF LeaseJobs, Go, mailVars
<1>3. ASSUME NEW t \in Tokens
      PROVE  /\ freed[t] \in {NoJob} \cup AJob /\ freed[t].op = jobs[t].op
             /\ freed[t] = NoJob <=> jobs[t] = NoJob
             /\ freed[t].state = "submitted" => ~freed[t].old
             /\ freed[t].state = "processing" => freed[t] = jobs[t]
  <2>1. CASE over(t) \/ (jobs[t].state = "processing" /\ jobs[t].old)
    <3>1. jobs[t].state \in {"submitted", "processing"}
      BY <2>1
    <3>2. jobs[t] \in AJob /\ jobs[t].op \in Ops
      BY <1>1, <3>1, JobFields
    <3>3. freed[t] = [jobs[t] EXCEPT !.state = IF t \in spent THEN "failed" ELSE "pending",
                                     !.old = FALSE]
      BY <2>1
    <3> HIDE DEF spent, freed
    <3>4. freed[t] \in AJob /\ freed[t].op = jobs[t].op /\ freed[t].state \in {"failed", "pending"}
      BY <3>2, <3>3 DEF AJob
    <3>5. NoJob.op = "none" /\ jobs[t].op # "none"
      BY <3>2 DEF NoJob, Ops
    <3> QED BY <3>4, <3>5
  <2>2. CASE ~(over(t) \/ (jobs[t].state = "processing" /\ jobs[t].old))
    <3>1. freed[t] = jobs[t]
      BY <2>2
    <3>2. ~(jobs[t].state = "submitted" /\ jobs[t].old)
      BY <2>2
    <3> HIDE DEF freed
    <3> QED BY <1>1, <3>1, <3>2 DEF IndexShape
  <2> QED BY <2>1, <2>2
<1>4. PICK fr : fr = freed
  OBVIOUS
<1>5. PICK leased \in SUBSET Tokens :
        LET sends == {<<fr[t].op, t>> : t \in leased}
        IN /\ \A t \in leased : fr[t].state \in {"pending", "failed"} /\ fr[t].tries < MaxJobTries
           /\ jobs' = [t \in Tokens |-> IF t \in leased
                        THEN [fr[t] EXCEPT !.state = "processing", !.tries = @ + 1]
                        ELSE fr[t]]
           /\ IF Of("upsert", sends) = {} THEN SendDeletes(sends)
              ELSE turn' = [Idle EXCEPT !.pc = "embed", !.sends = sends] /\ UNCHANGED flying
  <2> HIDE DEF freed
  <2>1. PICK leased \in {due, due \ later} :
          LET sends == {<<freed[t].op, t>> : t \in leased}
          IN /\ jobs' = [t \in Tokens |-> IF t \in leased
                          THEN [freed[t] EXCEPT !.state = "processing", !.tries = @ + 1]
                          ELSE freed[t]]
             /\ IF Of("upsert", sends) = {} THEN SendDeletes(sends)
                ELSE turn' = [Idle EXCEPT !.pc = "embed", !.sends = sends] /\ UNCHANGED flying
    <3> HIDE DEF due, later
    <3> QED BY <1>2
  <2>2. leased \in SUBSET Tokens
        /\ \A t \in leased : freed[t].state \in {"pending", "failed"} /\ freed[t].tries < MaxJobTries
    <3>1. leased \subseteq due
      <4> HIDE DEF due, later
      <4> QED BY <2>1
    <3> QED BY <3>1
  <2> HIDE DEF due, later
  <2> QED BY <1>4, <2>1, <2>2
<1>6. PICK sends : sends = {<<fr[t].op, t>> : t \in leased}
  OBVIOUS
<1>7. ASSUME NEW t \in Tokens
      PROVE  /\ fr[t] \in {NoJob} \cup AJob /\ fr[t].op = jobs[t].op
             /\ fr[t] = NoJob <=> jobs[t] = NoJob
             /\ fr[t].state = "submitted" => ~fr[t].old
             /\ fr[t].state = "processing" => fr[t] = jobs[t]
  <2> HIDE DEF freed
  <2> QED BY <1>3, <1>4
<1> HIDE DEF over, spent, freed, due, later
<1>8. NoJob.op = "none" /\ NoJob.state = "none"
  BY DEF NoJob
<1>9. ASSUME NEW t \in Tokens
      PROVE  /\ jobs'[t] \in {NoJob} \cup AJob /\ jobs'[t].op = jobs[t].op
             /\ jobs'[t] = NoJob => jobs[t] = NoJob
             /\ jobs'[t].state = "submitted" => ~jobs'[t].old
             /\ jobs'[t].state = "processing" => jobs'[t].tries > 0
             /\ t \in leased => jobs'[t].state = "processing" /\ jobs'[t].op \in Ops
  <2>1. CASE t \in leased
    <3>1. fr[t] \in AJob /\ fr[t].tries < MaxJobTries
      BY <1>5, <1>7, <1>8, <2>1
    <3>2. jobs'[t] = [fr[t] EXCEPT !.state = "processing", !.tries = @ + 1]
      BY <1>5, <2>1
    <3>3. fr[t].tries \in 0..MaxJobTries /\ MaxJobTries \in Nat /\ fr[t].op \in Ops
      BY <3>1, IndexAssumption DEF AJob
    <3>4. fr[t].tries + 1 \in 0..MaxJobTries /\ fr[t].tries + 1 > 0
      BY <3>1, <3>3
    <3>5. jobs'[t] \in AJob /\ jobs'[t].op = fr[t].op /\ jobs'[t].state = "processing"
          /\ jobs'[t].tries = fr[t].tries + 1
      BY <3>1, <3>2, <3>4 DEF AJob
    <3>6. fr[t] # NoJob
      BY <1>8, <3>3 DEF Ops
    <3>7. jobs'[t] # NoJob
      BY <1>8, <3>3, <3>5 DEF Ops
    <3> QED BY <1>7, <2>1, <3>3, <3>4, <3>5, <3>6, <3>7
  <2>2. CASE t \notin leased
    <3>1. jobs'[t] = fr[t]
      BY <1>5, <2>2
    <3>2. TokenParts(t)
      BY <1>1 DEF TokensInv
    <3> QED BY <1>7, <2>2, <3>1, <3>2 DEF TokenParts
  <2> QED BY <2>1, <2>2
<1>10. jobs' \in [Tokens -> {NoJob} \cup AJob]
  BY <1>5, <1>9
<1>11. /\ sends \in SUBSET (Ops \X Tokens)
       /\ \A o \in Ops, t \in Tokens : <<o, t>> \in sends => t \in leased /\ o = jobs'[t].op
  <2>1. ASSUME NEW t \in leased PROVE t \in Tokens /\ fr[t].op = jobs'[t].op /\ fr[t].op \in Ops
    BY <1>7, <1>9
  <2>2. sends \subseteq Ops \X Tokens
    BY <1>6, <2>1
  <2>3. ASSUME NEW o \in Ops, NEW t \in Tokens, <<o, t>> \in sends
        PROVE  t \in leased /\ o = jobs'[t].op
    <3>1. PICK u \in leased : <<o, t>> = <<fr[u].op, u>>
      BY <1>6, <2>3
    <3> QED BY <2>1, <3>1
  <2> QED BY <2>2, <2>3
<1>12. IF Of("upsert", sends) = {} THEN SendDeletes(sends)
       ELSE turn' = [Idle EXCEPT !.pc = "embed", !.sends = sends] /\ UNCHANGED flying
  BY <1>5, <1>6
<1>13. /\ turn' \in Turns /\ turn'.why = "none" /\ turn'.pc \notin {"page", "digest"} /\ TurnShape'
       /\ flying' \subseteq Ops \X Tokens
       /\ \A t \in Tokens :
            /\ <<"upsert", t>> \in flying' => <<"upsert", t>> \in flying
            /\ <<"delete", t>> \in flying' => <<"delete", t>> \in flying \cup sends
            /\ \A o \in Ops : <<o, t>> \in turn'.sends => <<o, t>> \in sends
  <2>1. CASE Of("upsert", sends) = {}
    <3>1. SendDeletes(sends)
      BY <1>12, <2>1
    <3> QED BY <1>1, <1>11, <3>1, DeletesSent DEF Ops
  <2>2. CASE Of("upsert", sends) # {}
    <3>1. turn' = [Idle EXCEPT !.pc = "embed", !.sends = sends] /\ flying' = flying
      BY <1>12, <2>2
    <3>2. turn'.pc = "embed" /\ turn'.why = "none" /\ turn'.sends = sends
      BY <3>1 DEF Idle
    <3>3. turn' \in Turns
      BY <1>11, <3>1, IdleTurn DEF Turns, Awaits
    <3>4. TurnShape'
      BY <3>2 DEF TurnShape, Projecting
    <3> QED BY <1>1, <3>1, <3>2, <3>3, <3>4 DEF IndexShape
  <2> QED BY <2>1, <2>2
<1>14. ASSUME NEW t \in Tokens PROVE TokenParts(t)'
  <2>1. TokenParts(t)
    BY <1>1 DEF TokensInv
  <2>2. \A o \in Ops : <<o, t>> \in sends => jobs'[t].op = o /\ jobs'[t].state = "processing"
    BY <1>9, <1>11
  <2>3. /\ <<"delete", t>> \in sends => jobs'[t].op = "delete" /\ jobs'[t].state = "processing"
        /\ <<"upsert", t>> \in sends => jobs'[t].op = "upsert" /\ jobs'[t].state = "processing"
    BY <2>2 DEF Ops
  <2>4. /\ <<"upsert", t>> \in flying' => <<"upsert", t>> \in flying
        /\ <<"delete", t>> \in flying' => <<"delete", t>> \in flying \cup sends
        /\ <<"upsert", t>> \in turn'.sends => <<"upsert", t>> \in sends
        /\ <<"delete", t>> \in turn'.sends => <<"delete", t>> \in sends
    BY <1>13 DEF Ops
  <2>5. /\ jobs'[t].op = jobs[t].op /\ (jobs'[t] = NoJob => jobs[t] = NoJob)
        /\ ~(jobs'[t].state = "submitted" /\ jobs'[t].old)
        /\ jobs'[t].state = "processing" => jobs'[t].tries > 0
    BY <1>9
  <2> QED BY <1>2, <2>1, <2>3, <2>4, <2>5 DEF TokenParts, In
<1>15. visible' \subseteq Tokens
  BY <1>1, <1>2 DEF IndexShape
<1> QED BY <1>2, <1>10, <1>13, <1>14, <1>15, JobsStep

\* What is recorded of the jobs that were sent.
LEMMA Recorded ==
  ASSUME IndexInv, NEW op \in Ops, Submit(op) \/ Retry(op) \/ (op = "upsert" /\ Defer)
  PROVE  /\ jobs' \in [Tokens -> {NoJob} \cup AJob]
         /\ state' \in {state, WithState([state EXCEPT !.status = "failed"])}
         /\ \A t \in Tokens :
              \/ jobs'[t] = jobs[t]
              \/ /\ <<op, t>> \in turn.sends /\ jobs[t].state = "processing"
                 /\ jobs'[t].op = jobs[t].op /\ jobs'[t] # NoJob /\ ~jobs'[t].old
                 /\ jobs'[t].state \in {"pending", "submitted", "failed"}
<1>1. IndexShape /\ TokensInv
  BY DEF IndexInv, ShapesInv
<1>2. state' \in {state, WithState([state EXCEPT !.status = "failed"])}
  BY DEF Submit, Retry, Defer
<1>3. ASSUME NEW t \in Tokens, <<op, t>> \in turn.sends, jobs[t].state = "processing"
      PROVE  LET j1 == [jobs[t] EXCEPT !.state = "submitted"]
                 j2 == [jobs[t] EXCEPT !.state = "failed", !.old = FALSE]
                 j3 == [jobs[t] EXCEPT !.state = "pending", !.tries = @ - 1, !.old = FALSE]
             IN /\ j1 \in AJob /\ j1.op = jobs[t].op /\ j1 # NoJob /\ j1.state = "submitted"
                /\ ~jobs[t].old => ~j1.old
                /\ j2 \in AJob /\ j2.op = jobs[t].op /\ j2 # NoJob /\ j2.state = "failed" /\ ~j2.old
                /\ j3 \in AJob /\ j3.op = jobs[t].op /\ j3 # NoJob /\ j3.state = "pending" /\ ~j3.old
  <2>1. /\ jobs[t] \in AJob /\ jobs[t].op \in Ops /\ jobs[t].tries \in 0..MaxJobTries
        /\ MaxJobTries \in Nat
    BY <1>1, <1>3, JobFields
  <2>2. jobs[t].tries > 0
    BY <1>1, <1>3 DEF TokensInv, TokenParts
  <2>3. jobs[t].tries - 1 \in 0..MaxJobTries
    BY <2>1, <2>2
  <2>4. NoJob.op = "none"
    BY DEF NoJob
  <2> QED BY <2>1, <2>3, <2>4 DEF AJob, Ops
<1>5. CASE Submit(op)
  <2>1. jobs' = [t \in Tokens |-> IF <<op, t>> \in turn.sends /\ jobs[t].state = "processing"
                  THEN (IF jobs[t].old THEN jobs[t] ELSE [jobs[t] EXCEPT !.state = "submitted"])
                  ELSE jobs[t]]
    BY <1>5 DEF Submit, Record
  <2>2. ASSUME NEW t \in Tokens
        PROVE  /\ jobs'[t] \in {NoJob} \cup AJob
               /\ \/ jobs'[t] = jobs[t]
                  \/ /\ <<op, t>> \in turn.sends /\ jobs[t].state = "processing"
                     /\ jobs'[t].op = jobs[t].op /\ jobs'[t] # NoJob /\ ~jobs'[t].old
                     /\ jobs'[t].state \in {"pending", "submitted", "failed"}
    <3>1. CASE <<op, t>> \in turn.sends /\ jobs[t].state = "processing" /\ ~jobs[t].old
      <4>1. jobs'[t] = [jobs[t] EXCEPT !.state = "submitted"]
        BY <2>1, <3>1
      <4> QED BY <1>3, <3>1, <4>1
    <3>2. CASE ~(<<op, t>> \in turn.sends /\ jobs[t].state = "processing" /\ ~jobs[t].old)
      <4>1. jobs'[t] = jobs[t]
        BY <2>1, <3>2
      <4> QED BY <1>1, <4>1 DEF IndexShape
    <3> QED BY <3>1, <3>2
  <2> QED BY <1>2, <2>1, <2>2
<1>6. CASE Retry(op) \/ (op = "upsert" /\ Defer)
  <2>1. PICK j \in {[t \in Tokens |-> [jobs[t] EXCEPT !.state = "failed", !.old = FALSE]],
                    [t \in Tokens |-> [jobs[t] EXCEPT !.state = "pending", !.tries = @ - 1,
                                                      !.old = FALSE]]} :
          jobs' = [t \in Tokens |-> IF <<op, t>> \in turn.sends /\ jobs[t].state = "processing"
                                    THEN j[t] ELSE jobs[t]]
    BY <1>6 DEF Retry, Defer, Record
  <2>2. ASSUME NEW t \in Tokens
        PROVE  /\ jobs'[t] \in {NoJob} \cup AJob
               /\ \/ jobs'[t] = jobs[t]
                  \/ /\ <<op, t>> \in turn.sends /\ jobs[t].state = "processing"
                     /\ jobs'[t].op = jobs[t].op /\ jobs'[t] # NoJob /\ ~jobs'[t].old
                     /\ jobs'[t].state \in {"pending", "submitted", "failed"}
    <3>1. CASE <<op, t>> \in turn.sends /\ jobs[t].state = "processing"
      <4>1. \/ jobs'[t] = [jobs[t] EXCEPT !.state = "failed", !.old = FALSE]
            \/ jobs'[t] = [jobs[t] EXCEPT !.state = "pending", !.tries = @ - 1, !.old = FALSE]
        BY <2>1, <3>1
      <4> QED BY <1>3, <3>1, <4>1
    <3>2. CASE ~(<<op, t>> \in turn.sends /\ jobs[t].state = "processing")
      <4>1. jobs'[t] = jobs[t]
        BY <2>1, <3>2
      <4> QED BY <1>1, <4>1 DEF IndexShape
    <3> QED BY <3>1, <3>2
  <2> QED BY <1>2, <2>1, <2>2
<1> QED BY <1>5, <1>6

\* What is recorded of a kind of jobs, while the deletes may be sent when those
\* were upserts, and mutations that have failed may be under way or not.
LEMMA RecordStep ==
  ASSUME IndexInv, NEW op \in Ops, Submit(op) \/ Retry(op) \/ (op = "upsert" /\ Defer),
         UNCHANGED <<mail, object, behind, source, files, visible, raced>>,
         turn' \in Turns, TurnShape', turn'.why = "none", turn'.pc \notin {"page", "digest"},
         flying' \subseteq Ops \X Tokens,
         \A t \in Tokens :
           /\ <<"upsert", t>> \in flying' => <<"upsert", t>> \in flying
           /\ <<"delete", t>> \in flying' =>
                <<"delete", t>> \in flying \/ (op = "upsert" /\ <<"delete", t>> \in turn.sends)
           /\ <<"upsert", t>> \notin turn'.sends
           /\ <<"delete", t>> \in turn'.sends => op = "upsert" /\ <<"delete", t>> \in turn.sends
  PROVE  IndexInv'
<1>1. IndexShape /\ TurnShape /\ TokensInv
  BY DEF IndexInv, ShapesInv
<1>2. /\ jobs' \in [Tokens -> {NoJob} \cup AJob]
      /\ state' \in {state, WithState([state EXCEPT !.status = "failed"])}
      /\ \A t \in Tokens :
           \/ jobs'[t] = jobs[t]
           \/ /\ <<op, t>> \in turn.sends /\ jobs[t].state = "processing"
              /\ jobs'[t].op = jobs[t].op /\ jobs'[t] # NoJob /\ ~jobs'[t].old
              /\ jobs'[t].state \in {"pending", "submitted", "failed"}
  BY Recorded
<1>3. ASSUME NEW t \in Tokens PROVE TokenParts(t)'
  <2>1. TokenParts(t)
    BY <1>1 DEF TokensInv
  <2>2. <<"delete", t>> \in turn.sends => jobs[t].op = "delete" /\ jobs[t].state = "processing"
    BY <2>1 DEF TokenParts
  <2>3. CASE jobs'[t] = jobs[t]
    <3>1. \A o \in Ops : <<o, t>> \in flying' =>
            <<o, t>> \in flying \/ (o = "delete" /\ jobs[t].op = "delete" /\ jobs[t].state = "processing")
      BY <2>2 DEF Ops
    <3>2. <<"delete", t>> \in turn'.sends => jobs[t].op = "delete" /\ jobs[t].state = "processing"
      BY <2>2
    <3> QED BY <2>1, <2>3, <3>1, <3>2 DEF TokenParts, In, Ops
  <2>4. CASE /\ <<op, t>> \in turn.sends /\ jobs[t].state = "processing"
             /\ jobs'[t].op = jobs[t].op /\ jobs'[t] # NoJob /\ ~jobs'[t].old
             /\ jobs'[t].state \in {"pending", "submitted", "failed"}
    <3>1. CASE op = "upsert"
      <4>1. jobs[t].op = "upsert"
        BY <2>1, <2>4, <3>1 DEF TokenParts
      <4>2. <<"delete", t>> \notin turn.sends
        BY <2>2, <4>1
      <4>3. <<"delete", t>> \notin turn'.sends /\ (<<"delete", t>> \in flying' => <<"delete", t>> \in flying)
        BY <4>2
      <4> QED BY <2>1, <2>4, <4>1, <4>3 DEF TokenParts, In
    <3>2. CASE op = "delete"
      <4>1. jobs[t].op = "delete"
        BY <2>1, <2>4, <3>2 DEF TokenParts
      <4>2. <<"delete", t>> \notin turn'.sends /\ (<<"delete", t>> \in flying' => <<"delete", t>> \in flying)
        BY <3>2
      <4> QED BY <2>1, <2>4, <4>1, <4>2 DEF TokenParts, In
    <3> QED BY <3>1, <3>2 DEF Ops
  <2> QED BY <1>2, <2>3, <2>4
<1>4. visible' \subseteq Tokens
  BY <1>1 DEF IndexShape
<1> QED BY <1>2, <1>3, <1>4, JobsStep

\* The upserts are on their way, or are recorded and the deletes sent.
LEMMA SendStep ==
  ASSUME IndexInv, Embed \/ Upsert \/ Delete
  PROVE  IndexInv'
<1>1. IndexShape /\ TurnShape /\ TokensInv
  BY DEF IndexInv, ShapesInv
<1>2. UNCHANGED <<mail, object, behind, source, files, visible, raced>>
  BY DEF Embed, Upsert, Delete, mailVars
<1>3. PICK sends \in SUBSET (Ops \X Tokens) : sends = turn.sends
  BY <1>1 DEF IndexShape, Turns
<1>4. "upsert" \in Ops /\ "delete" \in Ops
  BY DEF Ops
<1>5. CASE /\ turn.pc = "embed" /\ turn' = [turn EXCEPT !.pc = "upsert"]
           /\ flying' = flying \cup Of("upsert", turn.sends) /\ UNCHANGED <<jobs, state, faults>>
  <2>1. /\ Of("upsert", sends) \subseteq sends
        /\ \A o \in Ops, t \in Tokens : <<o, t>> \in Of("upsert", sends) <=> o = "upsert" /\ <<o, t>> \in sends
    BY <1>4, OfSends
  <2>2. flying' \subseteq Ops \X Tokens
    BY <1>1, <1>3, <1>5, <2>1 DEF IndexShape
  <2>3. turn.why = "none"
    BY <1>1, <1>5 DEF TurnShape, Projecting, IndexShape, Turns
  <2>4. turn' \in Turns /\ turn'.pc = "upsert" /\ turn'.why = "none" /\ turn'.sends = turn.sends
    BY <1>1, <1>5, <2>3 DEF IndexShape, Turns, Awaits
  <2>5. TurnShape'
    BY <2>4 DEF TurnShape, Projecting
  <2>6. ASSUME NEW t \in Tokens PROVE TokenParts(t)'
    <3>1. TokenParts(t)
      BY <1>1 DEF TokensInv
    <3>2. /\ <<"upsert", t>> \in flying' => <<"upsert", t>> \in flying \/ <<"upsert", t>> \in turn.sends
          /\ <<"delete", t>> \in flying' => <<"delete", t>> \in flying
      BY <1>3, <1>4, <1>5, <2>1
    <3>3. <<"upsert", t>> \in turn.sends => /\ source[t] # NoSource \/ jobs[t].op = "delete"
                                            /\ jobs[t].state # "submitted"
      BY <3>1 DEF TokenParts
    <3>4. jobs' = jobs
      BY <1>5
    <3> QED BY <1>2, <2>4, <3>1, <3>2, <3>3, <3>4 DEF TokenParts, In, Ops
  <2>7. jobs' \in [Tokens -> {NoJob} \cup AJob] /\ visible' \subseteq Tokens /\ state' = state
    BY <1>1, <1>2, <1>5 DEF IndexShape
  <2> QED BY <1>2, <2>2, <2>4, <2>5, <2>6, <2>7, JobsStep
<1>6. CASE (Submit("upsert") \/ Retry("upsert") \/ Defer) /\ SendDeletes(turn.sends)
  <2>1. SendDeletes(sends)
    BY <1>3, <1>6
  <2>2. /\ turn' \in Turns /\ turn'.why = "none" /\ turn'.pc \in {"idle", "delete"} /\ TurnShape'
        /\ flying' \subseteq Ops \X Tokens
        /\ \A t \in Tokens :
             /\ <<"upsert", t>> \in flying' <=> <<"upsert", t>> \in flying
             /\ <<"delete", t>> \in flying' <=> <<"delete", t>> \in flying \cup sends
             /\ <<"upsert", t>> \notin turn'.sends
             /\ <<"delete", t>> \in turn'.sends <=> <<"delete", t>> \in sends
    BY <1>1, <2>1, DeletesSent
  <2>3. turn'.pc \notin {"page", "digest"}
    BY <2>2
  <2>4. PICK op \in Ops : op = "upsert"
    BY <1>4
  <2>5. Submit(op) \/ Retry(op) \/ (op = "upsert" /\ Defer)
    BY <1>6, <2>4
  <2> QED BY <1>2, <1>3, <2>2, <2>3, <2>4, <2>5, RecordStep
<1>7. CASE Delete
  <2>1. turn' = Idle /\ (Submit("delete") \/ Retry("delete")) /\ flying' \in {flying, flying \ turn.sends}
    BY <1>7 DEF Delete, Go
  <2>2. turn' \in Turns /\ turn'.why = "none" /\ turn'.pc = "idle" /\ turn'.sends = {}
    BY <2>1, IdleTurn
  <2>3. TurnShape'
    BY <2>2 DEF TurnShape, Projecting
  <2>4. flying' \subseteq Ops \X Tokens /\ flying' \subseteq flying
    BY <1>1, <2>1 DEF IndexShape
  <2>5. PICK op \in Ops : op = "delete"
    BY <1>4
  <2>6. Submit(op) \/ Retry(op) \/ (op = "upsert" /\ Defer)
    BY <2>1, <2>5
  <2>7. \A t \in Tokens :
          /\ <<"upsert", t>> \in flying' => <<"upsert", t>> \in flying
          /\ <<"delete", t>> \in flying' => <<"delete", t>> \in flying
          /\ <<"upsert", t>> \notin turn'.sends /\ <<"delete", t>> \notin turn'.sends
    BY <2>2, <2>4
  <2>8. turn'.pc \notin {"page", "digest"}
    BY <2>2
  <2> QED BY <1>2, <2>2, <2>3, <2>4, <2>6, <2>7, <2>8, RecordStep
<1>8. CASE Embed
  BY <1>5, <1>6, <1>8 DEF Embed, Go
<1>9. CASE Upsert
  BY <1>6, <1>9 DEF Upsert
<1> QED BY <1>7, <1>8, <1>9

-----------------------------------------------------------------------------
(* The index, the clock, and the end of a turn                             *)

\* A mutation takes effect, a lease or a submission grows old.
LEMMA IndexMoves ==
  ASSUME IndexInv, NEW t \in Tokens,
         GrowsOld(t) \/ JobLapses(t) \/ \E op \in Ops : Land(op, t)
  PROVE  IndexInv'
<1>1. IndexShape /\ TurnShape /\ TokensInv
  BY DEF IndexInv, ShapesInv
<1>2. UNCHANGED <<mail, object, behind, state, source, files, turn, raced>>
  BY DEF GrowsOld, JobLapses, Land, mailVars
<1>3. turn' \in Turns /\ TurnShape' /\ SameTurn
  BY <1>1, <1>2 DEF IndexShape, TurnShape, Projecting, SameTurn
<1>4. CASE GrowsOld(t) \/ JobLapses(t)
  <2>1. /\ jobs' = [jobs EXCEPT ![t].old = TRUE] /\ UNCHANGED <<visible, flying>>
        /\ jobs[t].state \in {"submitted", "processing"}
        /\ jobs[t].state = "submitted" => \A op \in Ops : <<op, t>> \notin flying
    BY <1>4 DEF GrowsOld, JobLapses, indexVars, Ops
  <2>2. jobs[t] \in AJob /\ jobs[t].op \in Ops
    BY <1>1, <2>1, JobFields
  <2>3. [jobs[t] EXCEPT !.old = TRUE] \in AJob
    BY <2>2 DEF AJob
  <2>4. jobs' = [jobs EXCEPT ![t] = [jobs[t] EXCEPT !.old = TRUE]]
    BY <1>1, <2>1 DEF IndexShape
  <2>5. jobs' \in [Tokens -> {NoJob} \cup AJob] /\ jobs'[t] = [jobs[t] EXCEPT !.old = TRUE]
    BY <1>1, <2>3, <2>4 DEF IndexShape
  <2>6. /\ jobs'[t].op = jobs[t].op /\ jobs'[t].state = jobs[t].state
        /\ jobs'[t].tries = jobs[t].tries
    BY <2>2, <2>5 DEF AJob
  <2>7. jobs[t] # NoJob /\ jobs'[t] # NoJob
    BY <2>2, <2>6 DEF NoJob, Ops
  <2>8. ASSUME NEW u \in Tokens PROVE TokenParts(u)'
    <3>1. TokenParts(u)
      BY <1>1 DEF TokensInv
    <3>2. CASE u # t
      <4>1. jobs'[u] = jobs[u]
        BY <1>1, <2>4, <3>2 DEF IndexShape
      <4> QED BY <1>2, <2>1, <3>1, <4>1 DEF TokenParts, In
    <3>3. CASE u = t
      BY <1>2, <2>1, <2>6, <2>7, <3>1, <3>3 DEF TokenParts, In
    <3> QED BY <3>2, <3>3
  <2>9. visible' \subseteq Tokens /\ flying' \subseteq Ops \X Tokens
    BY <1>1, <2>1 DEF IndexShape
  <2> QED BY <1>2, <1>3, <2>5, <2>8, <2>9, JobsStep
<1>5. ASSUME NEW op \in Ops, Land(op, t) PROVE IndexInv'
  <2>1. /\ <<op, t>> \in flying /\ flying' = flying \ {<<op, t>>} /\ jobs' = jobs
        /\ visible' = IF op = "upsert" THEN visible \cup {t} ELSE visible \ {t}
    BY <1>5 DEF Land
  <2>2. visible' \subseteq Tokens /\ flying' \subseteq Ops \X Tokens /\ flying' \subseteq flying
        /\ jobs' \in [Tokens -> {NoJob} \cup AJob]
    BY <1>1, <2>1 DEF IndexShape
  <2>3. ASSUME NEW u \in Tokens PROVE TokenParts(u)'
    <3>1. TokenParts(u)
      BY <1>1 DEF TokensInv
    <3>2. CASE u # t
      <4>1. u \in visible' <=> u \in visible
        BY <2>1, <3>2
      <4> QED BY <1>2, <2>1, <2>2, <3>1, <4>1 DEF TokenParts, In
    <3>3. CASE u = t /\ op = "upsert"
      <4>1. t \in visible' /\ (source[t] # NoSource \/ jobs[t].op = "delete")
        BY <2>1, <3>1, <3>3 DEF TokenParts
      <4> QED BY <1>2, <2>1, <2>2, <3>1, <3>3, <4>1 DEF TokenParts, In
    <3>4. CASE u = t /\ op = "delete"
      <4>1. source[t] = NoSource
        BY <2>1, <3>1, <3>4 DEF TokenParts
      <4>2. t \notin visible'
        BY <2>1, <3>4
      <4> QED BY <1>2, <2>1, <2>2, <3>1, <3>4, <4>1, <4>2 DEF TokenParts, In
    <3> QED BY <3>2, <3>3, <3>4 DEF Ops
  <2> QED BY <1>2, <1>3, <2>2, <2>3, JobsStep
<1> QED BY <1>4, <1>5

\* A turn is lost, or turns have failed too often.
LEMMA LostStep ==
  ASSUME IndexInv, TurnLost \/ SchedulerExhausted
  PROVE  IndexInv'
<1>1. IndexShape /\ TurnShape /\ TokensInv
  BY DEF IndexInv, ShapesInv
<1>2. UNCHANGED <<mail, object, behind, source, jobs, files, visible, flying, raced>>
  BY DEF TurnLost, SchedulerExhausted, mailVars, indexVars
<1>3. turn' = Idle \/ turn' = turn
  BY DEF TurnLost, SchedulerExhausted, Go
<1>4. state' = state \/ (state' = WithState([state EXCEPT !.status = "failed"]) /\ turn.pc = "idle"
                          /\ turn' = turn)
  BY DEF TurnLost, SchedulerExhausted
<1>5. turn' \in Turns /\ TurnShape' /\ turn'.sends \in {turn.sends, {}}
  <2>1. CASE turn' = Idle
    <3>1. turn'.why = "none" /\ turn'.pc = "idle" /\ turn'.sends = {} /\ turn' \in Turns
      BY <2>1, IdleTurn
    <3> QED BY <3>1 DEF TurnShape, Projecting
  <2>2. CASE turn' = turn
    BY <1>1, <2>2 DEF IndexShape, TurnShape, Projecting
  <2> QED BY <1>3, <2>1, <2>2
<1>6. SameTurn \/ (turn'.why = "none" /\ turn'.pc \notin {"page", "digest"})
  <2>1. CASE turn' = Idle
    BY <2>1, IdleTurn
  <2>2. CASE turn' = turn
    BY <2>2 DEF SameTurn
  <2> QED BY <1>3, <2>1, <2>2
<1>7. state' = state \/ (state' = WithState([state EXCEPT !.status = "failed"]) /\ turn'.why = "none")
  BY <1>1, <1>4 DEF TurnShape, Projecting, IndexShape, Turns
<1>8. TokensInv'
  BY <1>1, <1>2, <1>5, TokensKept
<1>9. /\ jobs' \in [Tokens -> {NoJob} \cup AJob] /\ visible' \subseteq Tokens
      /\ flying' \subseteq Ops \X Tokens
  BY <1>1, <1>2 DEF IndexShape
<1> QED BY <1>2, <1>5, <1>6, <1>7, <1>8, <1>9, JobsStep DEF TokensInv

-----------------------------------------------------------------------------
(* The theorems of the semantic index                                      *)

\* Before the first turn nothing is indexed and nothing owed.
LEMMA IndexBegins ==
  ASSUME IndexInit
  PROVE  IndexInv
<1>1. N \in Nat
  BY IndexAssumption
<1>2. /\ mail \in [Emails -> [place : {"in", "gone"}, version : {1}]]
      /\ object = [m \in Emails |-> 1] /\ behind = {} /\ state = NoState
      /\ source = [t \in Tokens |-> NoSource] /\ jobs = [t \in Tokens |-> NoJob]
      /\ files = [m \in Emails |-> NoFile]
      /\ visible = {} /\ flying = {} /\ turn = Idle /\ raced = FALSE
  BY DEF IndexInit
<1>3. mail \in [Emails -> [place : {"in", "out", "gone"}, version : Nat]]
  BY <1>2
<1>4. IndexShape
  BY <1>2, <1>3, IdleTurn DEF IndexShape, States
<1>5. turn.pc = "idle" /\ turn.why = "none" /\ turn.sends = {}
  BY <1>2, IdleTurn
<1>6. TurnShape
  BY <1>5 DEF TurnShape, Projecting
<1>7. TokensInv
  <2>1. ASSUME NEW t \in Tokens
        PROVE  /\ source[t] = NoSource /\ jobs[t].op = "none" /\ jobs[t].state = "none"
    BY <1>2 DEF NoJob
  <2> QED BY <1>2, <1>5, <2>1 DEF TokensInv, TokenParts
<1>8. ASSUME NEW m \in Emails PROVE EmailParts(m) /\ TurnParts(m)
  <2>1. files[m].state = "none" /\ state.status = "none"
    BY <1>2 DEF NoFile, NoState
  <2> QED BY <1>2, <1>5, <2>1 DEF EmailParts, TurnParts
<1>9. ReadParts /\ StatusParts
  BY <1>5 DEF ReadParts, StatusParts
<1> QED BY <1>4, <1>6, <1>7, <1>8, <1>9 DEF IndexInv, ShapesInv, EmailsInv

\* Every step of the mail, of a turn, of the index and of the clock.
LEMMA IndexSteps ==
  ASSUME IndexInv, batch \in Nat, IndexStep
  PROVE  IndexInv'
<1>1. CASE MailStep
  <2>1. ASSUME NEW m \in Emails,
               Arrive(m) \/ Edit(m) \/ Exclude(m) \/ Restore(m) \/ Remove(m)
        PROVE  IndexInv'
    BY <2>1, MailSteps
  <2>2. ASSUME NEW m \in Emails, ObjectChanges(m) PROVE IndexInv'
    BY <2>2, ObjectStep
  <2>3. ASSUME NEW t \in Tokens, Search(t) PROVE IndexInv'
    BY <2>3, SearchStep
  <2>4. CASE Rebuild
    BY <2>4, RebuildStep
  <2> QED BY <1>1, <2>1, <2>2, <2>3, <2>4 DEF MailStep
<1>2. CASE TurnStep
  <2>1. CASE StartTurn \/ ReadObject \/ FinishExtraction
    BY <2>1, StartStep, ReadStep, ExtractionStep
  <2>2. CASE Prepare \/ ReadSource \/ ProjectMessage
    BY <2>2, PrepareStep, ReadSourceStep, ProjectStep
  <2>3. CASE EndBackfill \/ EndReplay \/ EndAgain
    BY <2>3, EndBackfillStep, EndReplayStep, EndAgainStep
  <2>4. CASE ListSubmitted \/ Observe \/ ObserveFails \/ LeaseJobs
    BY <2>4, ListStep, ObserveStep, LeaseStep
  <2>5. CASE Embed \/ Upsert \/ Delete
    BY <2>5, SendStep
  <2> QED BY <1>2, <2>1, <2>2, <2>3, <2>4, <2>5 DEF TurnStep
<1>3. CASE TurnLost \/ SchedulerExhausted
  BY <1>3, LostStep
<1>4. ASSUME NEW t \in Tokens,
             GrowsOld(t) \/ JobLapses(t) \/ \E op \in {"upsert", "delete"} : Land(op, t)
      PROVE  IndexInv'
  <2>1. GrowsOld(t) \/ JobLapses(t) \/ \E op \in Ops : Land(op, t)
    BY <1>4 DEF Ops
  <2> QED BY <2>1, IndexMoves
<1>5. ASSUME NEW m \in Emails, FileLapses(m) PROVE IndexInv'
  BY <1>5, FileLapseStep
<1> QED BY <1>1, <1>2, <1>3, <1>4, <1>5 DEF IndexStep

\* The invariant of the semantic index: sources are of the mail as it is, jobs and
\* vectors of the sources, and what has no source is before the projection, in the
\* log or on the page.
THEOREM IndexInvariant == IndexSpec => []IndexInv
<1> DEFINE Inv == IndexInv /\ batch \in Nat
<1>1. IndexInit => Inv
  BY IndexBegins, IndexAssumption DEF IndexInit
<1>2. Inv /\ [IndexNext]_semanticVars => Inv'
  <2> SUFFICES ASSUME IndexInv, batch \in Nat, [IndexNext]_semanticVars PROVE Inv'
    OBVIOUS
  <2>1. CASE IndexNext
    BY <2>1, IndexSteps DEF IndexNext
  <2>2. CASE UNCHANGED semanticVars
    <3>1. /\ UNCHANGED <<mail, object, behind, state, source, jobs, files, visible, flying, turn, raced>>
          /\ UNCHANGED batch
      BY <2>2 DEF semanticVars, mailVars, indexVars
    <3>2. IndexShape /\ TurnShape /\ TokensInv
      BY DEF IndexInv, ShapesInv
    <3>3. turn' \in Turns /\ TurnShape' /\ SameTurn
      BY <3>1, <3>2 DEF IndexShape, TurnShape, Projecting, SameTurn
    <3>4. TokensInv'
      BY <3>1, <3>2, TokensKept
    <3>5. /\ jobs' \in [Tokens -> {NoJob} \cup AJob] /\ visible' \subseteq Tokens
          /\ flying' \subseteq Ops \X Tokens
      BY <3>1, <3>2 DEF IndexShape
    <3>6. IndexInv'
      BY <3>1, <3>3, <3>4, <3>5, JobsStep DEF TokensInv
    <3> QED BY <3>1, <3>6
  <2> QED BY <2>1, <2>2
<1>3. Inv => IndexInv
  OBVIOUS
<1> QED BY <1>1, <1>2, <1>3, PTL DEF IndexSpec

\* What the index says of the mail is true (IndexIsTrue): sources are of the
\* present version of mail that may be searched, no vector is left behind, and the
\* index calls itself complete only when all of the mail is visible in it, unless
\* a rebuild hit the last page of a backfill.
THEOREM IndexStaysTrue == IndexSpec => []IndexIsTrue
<1>1. IndexInv => IndexIsTrue
  <2> SUFFICES ASSUME IndexInv PROVE IndexIsTrue
    OBVIOUS
  <2>1. IndexShape /\ TurnShape /\ TokensInv /\ EmailsInv
    BY DEF IndexInv, ShapesInv
  <2>2. IndexTypeOK
    <3>1. N \in Nat /\ MaxJobTries \in Nat
      BY IndexAssumption
    <3>2. \A m \in Emails : mail[m].place \in {"in", "out", "gone"} /\ mail[m].version \in Nat
      BY <2>1 DEF IndexShape
    <3>3. state.status \in {"none", "building", "ready", "failed"}
      BY <2>1, StateFields
    <3>4. ASSUME NEW t \in Tokens
          PROVE  /\ source[t].of \in 0..N /\ source[t].kind \in {"none", "text", "file"}
                 /\ jobs[t].op \in {"none", "upsert", "delete"} /\ jobs[t].tries \in 0..MaxJobTries
                 /\ jobs[t].state \in {"none", "pending", "processing", "submitted", "failed"}
      <4>1. source[t] = NoSource \/ source[t] \in ASource
        BY <2>1 DEF IndexShape
      <4>2. jobs[t] = NoJob \/ jobs[t] \in AJob
        BY <2>1 DEF IndexShape
      <4>3. source[t].of \in 0..N /\ source[t].kind \in {"none", "text", "file"}
        BY <3>1, <4>1 DEF NoSource, ASource, Emails
      <4>4. /\ jobs[t].op \in {"none", "upsert", "delete"} /\ jobs[t].tries \in 0..MaxJobTries
            /\ jobs[t].state \in {"none", "pending", "processing", "submitted", "failed"}
        BY <3>1, <4>2 DEF NoJob, AJob, Ops
      <4> QED BY <4>3, <4>4
    <3>5. \A m \in Emails : files[m].tries \in 0..MaxJobTries
      <4>1. \A m \in Emails : files[m] = NoFile \/ files[m] \in AFile
        BY <2>1 DEF IndexShape
      <4> QED BY <3>1, <4>1 DEF NoFile, AFile
    <3>6. object \in [Emails -> Nat] /\ behind \subseteq Emails /\ visible \subseteq Tokens
          /\ flying \subseteq {"upsert", "delete"} \X Tokens
          /\ turn.pc \in Awaits \cup {"prepare", "page", "confirm", "lease"}
      BY <2>1 DEF IndexShape, Turns, Ops
    <3> QED BY <3>2, <3>3, <3>4, <3>5, <3>6 DEF IndexTypeOK
  <2>3. EvidenceIsCurrent /\ OrphansAreTracked
    BY <2>1 DEF TokensInv, TokenParts, EvidenceIsCurrent, OrphansAreTracked
  <2>4. CompleteIsTrue
    <3> SUFFICES ASSUME Complete, ~raced, NEW m \in Emails, In(m)
                 PROVE  /\ Indexed(m, "text")
                        /\ m \in Files => Indexed(m, "file") \/ files[m].state = "unsupported"
      BY DEF CompleteIsTrue, EverythingIsIndexed
    <3>1. EmailParts(m) /\ m \notin behind /\ state # NoState /\ state.status = "ready"
          /\ state.files = "ready" /\ files[m].state \in {"none", "ready", "unsupported"}
      BY <2>1, IndexFields DEF EmailsInv, Complete
    <3>2. ASSUME NEW t \in Tokens, source[t].of = m, source[t].kind \in {"text", "file"}
          PROVE  Indexed(m, source[t].kind)
      <4>1. source[t] # NoSource
        BY <2>1, <3>2, IndexFields
      <4>2. t \in visible
        BY <2>1, <4>1 DEF Complete, TokensInv, TokenParts
      <4>3. t \in Sources({m}, {source[t].kind})
        BY <3>2 DEF Sources
      <4> QED BY <4>2, <4>3 DEF Indexed
    <3>3. HasText(m)
      BY <3>1 DEF EmailParts, Missed
    <3>4. Indexed(m, "text")
      BY <3>2, <3>3 DEF HasText
    <3>5. ASSUME m \in Files, files[m].state # "unsupported" PROVE Indexed(m, "file")
      <4>1. files[m].state # "none"
        <5>1. ~Unlisted(m)
          BY <3>1 DEF EmailParts
        <5> QED BY <2>1, <3>1, <3>5, <5>1, IndexFields DEF Unlisted
      <4>2. HasFile(m)
        BY <3>1, <3>5, <4>1 DEF EmailParts
      <4> QED BY <3>2, <4>2 DEF HasFile
    <3> QED BY <3>4, <3>5
  <2> QED BY <2>2, <2>3, <2>4 DEF IndexIsTrue
<1> QED BY <1>1, IndexInvariant, PTL

=============================================================================
