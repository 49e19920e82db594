----------------------------- MODULE R2Ownership -----------------------------
(***************************************************************************)
(* Who owns the objects a mailbox keeps in R2, and how they are deleted.   *)
(*                                                                         *)
(* A message's objects are written before the transaction that creates its *)
(* rows, by a request (a send: keys of a fresh message id, announced by a  *)
(* promotion intent) or by an inbound projection (keys of a fresh attempt  *)
(* id).  The transaction adopts them; when the message goes away they are  *)
(* handed to r2_deletion_outbox.  The alarm's deletion pass claims rows    *)
(* under a lease, awaits R2 and records the outcome.  Bucket calls are not *)
(* part of any transaction and a deletion may take effect long after the   *)
(* pass that asked for it is gone, so whatever a pass has claimed is       *)
(* fenced: a key for good, an attempt for thirty days.                     *)
(*                                                                         *)
(*   workers/durableObject/index.ts      adoption, outbox, deletion pass   *)
(*   workers/lib/attachments.ts          promotion and its rollback        *)
(*   workers/lib/outbound-enqueue-recovery.ts   the ambiguous enqueue      *)
(***************************************************************************)
EXTENDS Naturals, FiniteSets

CONSTANTS
  Sends,          \* messages written by a send, reply or forward request
  Projections,    \* messages written by an inbound projection attempt
  Parts,          \* the objects of one message
  Passes,         \* deletion passes that may be under way
  Leases,         \* pool of lease tokens (crypto.randomUUID)
  NoLease,
  MaxTries,       \* failed deletions before a row is parked
  SlowWriters     \* may a request outlive its promotion intent?

ASSUME R2Assumption ==
  /\ Sends \cap Projections = {}
  /\ NoLease \notin Leases
  /\ MaxTries \in Nat \ {0}
  /\ SlowWriters \in BOOLEAN

Messages == Sends \cup Projections
Keys == Messages \X Parts
KeysOf(m) == {m} \X Parts

VARIABLES
  obj,       \* obj[k]: the bucket holds an object under k
  own,       \* own[m]: the rows of m own its keys
  row,       \* the r2_deletion_outbox row of k
  keyFence,  \* r2_retired_key_fences
  attFence,  \* inbound_derived_content_retired_attempts
  wr,        \* the request or projection that writes m
  put,       \* keys their writer has stored
  pass,      \* the volatile state of each deletion pass
  inflight,  \* deletions R2 may still carry out: <<lease, key>>
  job        \* the legacy attachment cleanup queue

vars == <<obj, own, row, keyFence, attFence, wr, put, pass, inflight, job>>
bucket == <<obj, inflight>>
ledger == <<own, row, keyFence, attFence>>
writers == <<wr, put, job>>

Row == [state : {"none", "pending", "deleting"}, lease : Leases \cup {NoLease},
        tries : 0..MaxTries, due : BOOLEAN, parked : BOOLEAN]

NoRow == [state |-> "none", lease |-> NoLease, tries |-> 0, due |-> FALSE,
          parked |-> FALSE]

PendingRow(due) == [state |-> "pending", lease |-> NoLease, tries |-> 0,
                    due |-> due, parked |-> FALSE]

PassOver(t, ks) == [lease |-> t, todo |-> ks, asked |-> {}, ok |-> {},
                    bad |-> {}]
IdlePass == PassOver(NoLease, {})
Pass == [lease : Leases \cup {NoLease}, todo : SUBSET Keys,
         asked : SUBSET Keys, ok : SUBSET Keys, bad : SUBSET Keys]
Job == [state : {"none", "pending", "parked"}, tries : 0..MaxTries]

TypeOK ==
  /\ obj \in [Keys -> BOOLEAN]
  /\ own \in [Messages -> {"never", "owned", "retired"}]
  /\ row \in [Keys -> Row]
  /\ keyFence \subseteq Keys /\ attFence \subseteq Projections
  /\ wr \in [Messages -> {"idle", "writing", "unsure", "rollback", "over"}]
  /\ put \subseteq Keys
  /\ pass \in [Passes -> Pass]
  /\ inflight \subseteq Leases \X Keys
  /\ job \in [Keys -> Job]

Live(m) == wr[m] \in {"writing", "unsure", "rollback"}

-----------------------------------------------------------------------------
(* The ledger's own transactions                                           *)

\* #enqueueR2DeletionSync of a set of keys: an existing row is left alone.
Enqueued(ks, due) ==
  [k \in Keys |-> IF k \in ks /\ row[k].state = "none"
                    THEN PendingRow(due)
                    ELSE row[k]]

\* Slip: only rows a pass is deleting right now stand in the way.
AdoptsUnlessDeleting(m) ==
  \A k \in KeysOf(m) : row[k].state # "deleting"

\* #adoptR2OwnershipSync: refused once any deletion of the keys has started.
Adopts(m) ==
  /\ m \notin attFence
  /\ \A k \in KeysOf(m) : k \notin keyFence /\ row[k].state # "deleting"

Adopted(m) ==
  [k \in Keys |-> IF k \in KeysOf(m) /\ row[k].state = "pending"
                    THEN NoRow ELSE row[k]]

\* #authoritativelyOwnedR2KeysSync
OwnedKeys == {k \in Keys : own[k[1]] = "owned"}

-----------------------------------------------------------------------------
(* A request that sends a message with attachments                         *)

\* Slip: the objects are written without a durable intent.
StartWithoutIntent(m) ==
  /\ m \in Sends /\ wr[m] = "idle"
  /\ wr' = [wr EXCEPT ![m] = "writing"]
  /\ UNCHANGED <<row, bucket, own, keyFence, attFence, put, pass, job>>

\* recordOutboundPromotionIntent: due only after twenty minutes.
RecordOutboundPromotionIntent(m) ==
  /\ m \in Sends /\ wr[m] = "idle"
  /\ wr' = [wr EXCEPT ![m] = "writing"]
  /\ row' = Enqueued(KeysOf(m), FALSE)
  /\ UNCHANGED <<bucket, own, keyFence, attFence, put, pass, job>>

\* bucket.put of one attachment.
PutObject(k) ==
  /\ wr[k[1]] = "writing" /\ k \notin put
  /\ obj' = [obj EXCEPT ![k] = TRUE]
  /\ put' = put \cup {k}
  /\ UNCHANGED <<inflight, ledger, wr, pass, job>>

\* A failed put, or a command found invalid before the enqueue.
GiveUp(m) ==
  /\ m \in Sends /\ wr[m] = "writing"
  /\ wr' = [wr EXCEPT ![m] = "rollback"]
  /\ UNCHANGED <<bucket, ledger, put, pass, job>>

\* The enqueue commits; its answer may be lost on the way back.
EnqueueCommits(m, answered) ==
  /\ m \in Sends /\ wr[m] = "writing" /\ KeysOf(m) \subseteq put
  /\ Adopts(m)
  /\ own' = [own EXCEPT ![m] = "owned"]
  /\ row' = Adopted(m)
  /\ wr' = [wr EXCEPT ![m] = IF answered THEN "over" ELSE "unsure"]
  /\ UNCHANGED <<bucket, keyFence, attFence, put, pass, job>>

\* Nothing was committed: adoption refused, a conflict, a failed call.
EnqueueFails(m) ==
  /\ m \in Sends /\ wr[m] = "writing" /\ KeysOf(m) \subseteq put
  /\ wr' = [wr EXCEPT ![m] = "unsure"]
  /\ UNCHANGED <<bucket, ledger, put, pass, job>>

\* Another request with the same identity won: these objects are orphans.
EnqueueReplayed(m) ==
  /\ m \in Sends /\ wr[m] = "writing" /\ KeysOf(m) \subseteq put
  /\ wr' = [wr EXCEPT ![m] = "rollback"]
  /\ UNCHANGED <<bucket, ledger, put, pass, job>>

\* Slip: every failed enqueue is rolled back without asking the ledger.
ReconcileBlindly(m) ==
  /\ wr[m] = "unsure"
  /\ wr' = [wr EXCEPT ![m] = "rollback"]
  /\ UNCHANGED <<bucket, ledger, put, pass, job>>

\* reconcileAmbiguousOutboundEnqueue: the ledger decides about the rollback.
ReconcileAmbiguousOutboundEnqueue(m) ==
  /\ wr[m] = "unsure"
  /\ wr' = [wr EXCEPT ![m] = IF own[m] = "never" THEN "rollback" ELSE "over"]
  /\ UNCHANGED <<bucket, ledger, put, pass, job>>

\* cleanupOrQueue: the bucket deletes the objects at once ...
RollbackDeletes(m) ==
  /\ wr[m] = "rollback"
  /\ obj' = [k \in Keys |-> obj[k] /\ k \notin KeysOf(m)]
  /\ wr' = [wr EXCEPT ![m] = "over"]
  /\ UNCHANGED <<inflight, ledger, put, pass, job>>

\* ... or fails on some of them, and all go to the cleanup queue.
RollbackQueues(m, gone) ==
  /\ wr[m] = "rollback" /\ gone \subseteq KeysOf(m)
  /\ obj' = [k \in Keys |-> obj[k] /\ k \notin gone]
  /\ job' = [k \in Keys |-> IF k \in KeysOf(m)
                              THEN [state |-> "pending", tries |-> 0]
                              ELSE job[k]]
  /\ wr' = [wr EXCEPT ![m] = "over"]
  /\ UNCHANGED <<inflight, ledger, put, pass>>

\* The request is cut short, or cannot learn what became of its enqueue.
WriterStops(m) ==
  /\ Live(m)
  /\ wr' = [wr EXCEPT ![m] = "over"]
  /\ UNCHANGED <<bucket, ledger, put, pass, job>>

\* #processAttachmentCleanup of one job, and the operator's repair.
CleanupSucceeds(k) ==
  /\ job[k].state = "pending"
  /\ obj' = [obj EXCEPT ![k] = FALSE]
  /\ job' = [job EXCEPT ![k] = [state |-> "none", tries |-> 0]]
  /\ UNCHANGED <<inflight, ledger, wr, put, pass>>

FailedJob(n) ==
  [state |-> IF n >= MaxTries THEN "parked" ELSE "pending", tries |-> n]

\* A failed call may have deleted the object nevertheless.
CleanupFails(k) ==
  /\ job[k].state = "pending"
  /\ obj' \in {obj, [obj EXCEPT ![k] = FALSE]}
  /\ job' = [job EXCEPT ![k] = FailedJob(job[k].tries + 1)]
  /\ UNCHANGED <<inflight, ledger, wr, put, pass>>

RepairParkedAttachmentCleanupJob(k) ==
  /\ job[k].state = "parked"
  /\ job' = [job EXCEPT ![k] = [state |-> "pending", tries |-> 0]]
  /\ UNCHANGED <<bucket, ledger, wr, put, pass>>

-----------------------------------------------------------------------------
(* An inbound projection attempt                                           *)

StartProjection(m) ==
  /\ m \in Projections /\ wr[m] = "idle"
  /\ wr' = [wr EXCEPT ![m] = "writing"]
  /\ UNCHANGED <<bucket, ledger, put, pass, job>>

Project(m) ==
  /\ m \in Projections /\ wr[m] = "writing" /\ KeysOf(m) \subseteq put
  /\ Adopts(m)
  /\ own' = [own EXCEPT ![m] = "owned"]
  /\ row' = Adopted(m)
  /\ wr' = [wr EXCEPT ![m] = "over"]
  /\ UNCHANGED <<bucket, keyFence, attFence, put, pass, job>>

\* cleanup_conflict: what was written is handed to the outbox.
ProjectRefused(m) ==
  /\ m \in Projections /\ wr[m] = "writing" /\ KeysOf(m) \subseteq put
  /\ ~ Adopts(m)
  /\ row' = Enqueued(KeysOf(m) \ OwnedKeys, TRUE)
  /\ wr' = [wr EXCEPT ![m] = "over"]
  /\ UNCHANGED <<bucket, own, keyFence, attFence, put, pass, job>>

\* The cleanup of an attempt believed dead; it may still be alive.  Keys seen
\* absent are skipped.
EnqueueUnownedInboundDerivedContentCleanup(m, ks) ==
  /\ m \in Projections /\ wr[m] # "idle"
  /\ ks # {} /\ ks \subseteq KeysOf(m) \cap put
  /\ row' = Enqueued(ks \ OwnedKeys, TRUE)
  /\ UNCHANGED <<bucket, own, keyFence, attFence, wr, put, pass, job>>

-----------------------------------------------------------------------------
(* The message goes away: deleted, consumed, superseded, recovered         *)

Retire(m) ==
  /\ own[m] = "owned"
  /\ own' = [own EXCEPT ![m] = "retired"]
  /\ row' = Enqueued(KeysOf(m), TRUE)
  /\ UNCHANGED <<bucket, keyFence, attFence, wr, put, pass, job>>

-----------------------------------------------------------------------------
(* #processR2DeletionOutbox                                                *)

DueRow(r) == [r EXCEPT !.due = TRUE]

\* next_attempt_at or lease_expires_at passes.  Only a slow writer is still
\* at work when its promotion intent becomes due.
RowDue(k) ==
  /\ row[k].state # "none" /\ ~ row[k].due /\ ~ row[k].parked
  /\ row[k].state = "pending" => SlowWriters \/ ~ Live(k[1])
  /\ row' = [row EXCEPT ![k] = DueRow(row[k])]
  /\ UNCHANGED <<bucket, own, keyFence, attFence, wr, put, pass, job>>

\* Slip: a row whose pass died is never claimed again.
ClaimablePending == {k \in Keys : row[k].state = "pending" /\ row[k].due
                                  /\ ~ row[k].parked}

Claimable == {k \in Keys : row[k].state # "none" /\ row[k].due
                           /\ ~ row[k].parked}

Fresh(t) ==
  /\ \A k \in Keys : row[k].lease # t
  /\ \A p \in Passes : pass[p].lease # t
  /\ \A r \in inflight : r[1] # t

\* The count of tries is kept up to MaxTries, the only value compared with.
ClaimedRow(r, t) ==
  [r EXCEPT !.state = "deleting", !.lease = t, !.due = FALSE,
            !.tries = IF r.tries < MaxTries THEN r.tries + 1 ELSE r.tries]

\* The claim of a batch: attempt fences that have run out are dropped (thirty
\* days, which no attempt survives), owned keys are taken out of the outbox,
\* the others are fenced and leased.
ClaimDue(p, batch, expired) ==
  /\ pass[p].lease = NoLease
  /\ batch \subseteq Claimable /\ batch \cup expired # {}
  /\ batch = {} => Claimable = {}
  /\ expired \subseteq {m \in attFence : wr[m] = "over"}
  /\ \E t \in Leases : Fresh(t)
  /\ LET t == CHOOSE u \in Leases : Fresh(u)
         due == batch \ OwnedKeys
     IN  /\ row' = [k \in Keys |->
                      IF k \in due THEN ClaimedRow(row[k], t)
                      ELSE IF k \in batch THEN NoRow
                      ELSE row[k]]
         /\ keyFence' = keyFence \cup {k \in due : k[1] \in Sends}
         /\ attFence' = (attFence \ expired)
                          \cup {m \in Projections : KeysOf(m) \cap due # {}}
         /\ pass' = [pass EXCEPT ![p] =
                       IF due = {} THEN IdlePass ELSE PassOver(t, due)]
  /\ UNCHANGED <<bucket, own, writers>>

Asking(q, k) == [q EXCEPT !.todo = @ \ {k}, !.asked = {k}]
Answered(q, k) == [q EXCEPT !.asked = {}, !.ok = @ \cup {k}]
Refused(q, k) == [q EXCEPT !.asked = {}, !.bad = @ \cup {k}]

\* await this.env.BUCKET.delete(key)
AskDelete(p, k) ==
  /\ k \in pass[p].todo /\ pass[p].asked = {}
  /\ pass' = [pass EXCEPT ![p] = Asking(pass[p], k)]
  /\ inflight' = inflight \cup {<<pass[p].lease, k>>}
  /\ UNCHANGED <<obj, ledger, writers>>

DeleteSucceeds(p, k) ==
  /\ k \in pass[p].asked
  /\ obj' = [obj EXCEPT ![k] = FALSE]
  /\ inflight' = inflight \ {<<pass[p].lease, k>>}
  /\ pass' = [pass EXCEPT ![p] = Answered(pass[p], k)]
  /\ UNCHANGED <<ledger, writers>>

\* The call fails; the deletion may have happened and may still happen.
DeleteFails(p, k) ==
  /\ k \in pass[p].asked
  /\ pass' = [pass EXCEPT ![p] = Refused(pass[p], k)]
  /\ UNCHANGED <<bucket, ledger, writers>>

\* R2 carries out a deletion, with or without anybody waiting.
R2Deletes(r) ==
  /\ r \in inflight
  /\ obj' = [obj EXCEPT ![r[2]] = FALSE]
  /\ inflight' = inflight \ {r}
  /\ UNCHANGED <<ledger, writers, pass>>

\* The fence of the second transaction.  The token is drawn for this claim,
\* so it stands for claim_generation as well.
StillHeld(p, k) == row[k].state = "deleting" /\ row[k].lease = pass[p].lease

FailedRow(r) ==
  [r EXCEPT !.due = FALSE, !.parked = (r.tries >= MaxTries)]

RecordOutcomes(p) ==
  /\ pass[p].lease # NoLease /\ pass[p].todo = {} /\ pass[p].asked = {}
  /\ row' = [k \in Keys |->
               IF k \in pass[p].ok /\ StillHeld(p, k) THEN NoRow
               ELSE IF k \in pass[p].bad /\ StillHeld(p, k)
                 THEN FailedRow(row[k])
               ELSE row[k]]
  /\ pass' = [pass EXCEPT ![p] = IdlePass]
  /\ UNCHANGED <<bucket, own, keyFence, attFence, writers>>

\* The object is evicted between two awaits of the pass.
PassStops(p) ==
  /\ pass[p].lease # NoLease
  /\ pass' = [pass EXCEPT ![p] = IdlePass]
  /\ UNCHANGED <<bucket, ledger, writers>>

\* recovery_ref names one parking of the row, so a stale repair finds nothing.
RepairParkedR2Deletion(k) ==
  /\ row[k].parked
  /\ row' = [row EXCEPT ![k] = PendingRow(TRUE)]
  /\ UNCHANGED <<bucket, own, keyFence, attFence, writers, pass>>

-----------------------------------------------------------------------------
Init ==
  /\ obj = [k \in Keys |-> FALSE]
  /\ own = [m \in Messages |-> "never"]
  /\ row = [k \in Keys |-> NoRow]
  /\ keyFence = {} /\ attFence = {}
  /\ wr = [m \in Messages |-> "idle"]
  /\ put = {}
  /\ pass = [p \in Passes |-> IdlePass]
  /\ inflight = {}
  /\ job = [k \in Keys |-> [state |-> "none", tries |-> 0]]

Request(m) ==
  \/ RecordOutboundPromotionIntent(m)
  \/ GiveUp(m)
  \/ \E answered \in BOOLEAN : EnqueueCommits(m, answered)
  \/ EnqueueFails(m)
  \/ EnqueueReplayed(m)
  \/ ReconcileAmbiguousOutboundEnqueue(m)
  \/ RollbackDeletes(m)
  \/ \E gone \in SUBSET KeysOf(m) : RollbackQueues(m, gone)
  \/ WriterStops(m)
  \/ StartProjection(m)
  \/ Project(m)
  \/ ProjectRefused(m)
  \/ \E ks \in SUBSET KeysOf(m) :
       EnqueueUnownedInboundDerivedContentCleanup(m, ks)
  \/ Retire(m)

Object(k) ==
  \/ PutObject(k)
  \/ CleanupSucceeds(k)
  \/ CleanupFails(k)
  \/ RepairParkedAttachmentCleanupJob(k)
  \/ RowDue(k)
  \/ RepairParkedR2Deletion(k)

DeletionPass(p) ==
  \/ \E batch \in SUBSET Claimable, expired \in SUBSET attFence :
       ClaimDue(p, batch, expired)
  \/ \E k \in Keys : AskDelete(p, k) \/ DeleteSucceeds(p, k)
                     \/ DeleteFails(p, k)
  \/ RecordOutcomes(p)
  \/ PassStops(p)

Next ==
  \/ \E m \in Messages : Request(m)
  \/ \E k \in Keys : Object(k)
  \/ \E p \in Passes : DeletionPass(p)
  \/ \E r \in inflight : R2Deletes(r)

Spec == Init /\ [][Next]_vars

-----------------------------------------------------------------------------
(* Safety                                                                  *)

\* Every object a message owns is in the bucket: no deletion pass, late
\* deletion, expired lease, rollback of an ambiguous enqueue or cleanup of an
\* attempt believed dead ever removes it, and no message adopts an object
\* that is gone.
OwnedIsStored ==
  \A k \in Keys : own[k[1]] = "owned" => obj[k]

\* An object written for a send is owned or on its way to deletion, at every
\* moment: a request that dies anywhere between the first put and the
\* enqueue leaves nothing behind (promotion intents precede the writes).
NothingIsForgotten ==
  \A k \in Keys : k[1] \in Sends /\ obj[k] =>
    own[k[1]] = "owned" \/ row[k].state # "none"

-----------------------------------------------------------------------------
(* The inductive strengthening of OwnedIsStored                            *)

\* The keys of m can never be adopted (again).
Closed(k) ==
  \/ k \in keyFence
  \/ k[1] \in attFence
  \/ k[1] \in Projections /\ wr[k[1]] = "over" /\ own[k[1]] # "owned"

Endangered(k) ==
  \/ row[k].state = "deleting"
  \/ \E p \in Passes : k \in pass[p].todo \cup pass[p].asked
  \/ \E t \in Leases : <<t, k>> \in inflight

KeyInv(k) ==
  /\ Endangered(k) => Closed(k)
  /\ Closed(k) => own[k[1]] # "owned"
  /\ own[k[1]] = "owned" => obj[k]
  /\ k \in put /\ wr[k[1]] = "writing" /\ ~ Closed(k) => obj[k]
  /\ wr[k[1]] = "idle" => k \notin put
  /\ job[k].state # "none" => wr[k[1]] = "over" /\ own[k[1]] = "never"
  /\ job[k].state = "pending" => job[k].tries < MaxTries

\* A writer that has not enqueued, or rolls back, has committed nothing.
MessageInv(m) ==
  wr[m] \in {"idle", "writing", "rollback"} => own[m] = "never"

PassInv(p) == pass[p].todo # {} => pass[p].lease \in Leases

\* The ownership invariant: whatever may be deleted is closed to adoption,
\* and what is open and written is there.
OwnershipInv ==
  /\ TypeOK
  /\ \A k \in Keys : KeyInv(k)
  /\ \A m \in Messages : MessageInv(m)
  /\ \A p \in Passes : PassInv(p)

\* A key of a send is covered from before its first put: by its intent, which
\* no pass claims while the request is at work, then by its owner, then by
\* the row of its deletion, which is withdrawn only once the object is gone.
SendInv(k) ==
  k[1] \in Sends =>
    /\ wr[k[1]] = "idle" => row[k] = NoRow /\ ~ obj[k]
    /\ wr[k[1]] = "writing" =>
         row[k].state = "pending" /\ ~ row[k].due /\ ~ row[k].parked
    /\ obj[k] => own[k[1]] = "owned" \/ row[k].state # "none"
    /\ \A p \in Passes : k \in pass[p].ok /\ StillHeld(p, k) => ~ obj[k]

\* The inductive strengthening of NothingIsForgotten.
TrackingInv == OwnershipInv /\ \A k \in Keys : SendInv(k)

-----------------------------------------------------------------------------
(* Liveness: alarms are retried, leases and back-offs end, R2 answers, and *)
(* evictions do not hit the same point of every pass.                      *)

Fairness ==
  /\ \A k \in Keys : WF_vars(RowDue(k))
  /\ \A p \in Passes :
       /\ SF_vars(\E batch \in SUBSET Claimable :
                    batch # {} /\ ClaimDue(p, batch, {}))
       /\ \A k \in Keys : /\ SF_vars(AskDelete(p, k))
                          /\ SF_vars(DeleteSucceeds(p, k) \/ DeleteFails(p, k))
       /\ SF_vars(RecordOutcomes(p))
  /\ \A m \in Messages : WF_vars(WriterStops(m))
  /\ \A r \in Leases \X Keys : WF_vars(R2Deletes(r))

FairSpec == Spec /\ Fairness

\* Every row of the outbox is eventually carried out, withdrawn by an
\* adoption, or parked for an operator: no lease is lost for good.
DeletionSettles ==
  \A k \in Keys : row[k].state # "none" /\ ~ row[k].parked ~>
    row[k].state = "none" \/ row[k].parked
=============================================================================
