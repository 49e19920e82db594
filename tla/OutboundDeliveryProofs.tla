----------------------- MODULE OutboundDeliveryProofs -----------------------
(***************************************************************************)
(* Proofs about OutboundDelivery, for every set of deliveries, alarm       *)
(* passes, recipients and events and for every bound.                      *)
(*                                                                         *)
(* LedgerInv is inductive.  Most actions rewrite one delivery row (and     *)
(* possibly its attempt rows): RowStep reduces their preservation proof to *)
(* facts about the new row.  BeginProviderAttempt, StartPass, RetryUnknown *)
(* and SesDecides touch more and are proved directly.                      *)
(*                                                                         *)
(* The last part shows that the ledger implements TruthfulDelivery.        *)
(***************************************************************************)
EXTENDS OutboundTruth, TLAPS

Job == [pc : {"idle", "scan", "preflight", "dispatch"},
        d : Deliveries \cup {NoDelivery},
        lease : Leases \cup {NoLease},
        n : Attempts \cup {NoAttempt}]

-----------------------------------------------------------------------------
(* What the row helpers return                                             *)

\* Settle leaves the dispatch machinery and keeps count, fatal and dup.
LEMMA SettleFacts ==
  ASSUME NEW r \in Delivery, NEW s \in Statuses
  PROVE  /\ Settle(r, s) \in Delivery
         /\ Settle(r, s).status = s /\ Settle(r, s).origin = "none"
         /\ Settle(r, s).phase = "none" /\ Settle(r, s).lease = NoLease
         /\ Settle(r, s).active = NoAttempt
         /\ Settle(r, s).count = r.count /\ Settle(r, s).dup = r.dup
  BY DEF Settle, Delivery, NoLease, NoAttempt

\* Requeue releases the lease and keeps origin, count and dup.
LEMMA RequeueFacts ==
  ASSUME NEW r \in Delivery
  PROVE  /\ Requeue(r) \in Delivery
         /\ Requeue(r).status = "retrying" /\ Requeue(r).origin = r.origin
         /\ Requeue(r).phase = "none" /\ Requeue(r).lease = NoLease
         /\ Requeue(r).active = NoAttempt
         /\ Requeue(r).count = r.count /\ Requeue(r).dup = r.dup
  BY DEF Requeue, Delivery, Statuses, NoLease, NoAttempt

\* Fail is Settle to "failed", or to "unknown" after an ambiguous outcome.
LEMMA FailFacts ==
  ASSUME NEW r \in Delivery, NEW fatal \in BOOLEAN
  PROVE  /\ Fail(r, fatal) \in Delivery
         /\ Fail(r, fatal).status = FailedOrUnknown(r)
         /\ Fail(r, fatal).origin = "none" /\ Fail(r, fatal).phase = "none"
         /\ Fail(r, fatal).lease = NoLease /\ Fail(r, fatal).active = NoAttempt
         /\ Fail(r, fatal).count = r.count /\ Fail(r, fatal).dup = r.dup
<1>1. FailedOrUnknown(r) \in Statuses
  BY DEF FailedOrUnknown, Statuses
<1> DEFINE q == Settle(r, FailedOrUnknown(r))
<1>2. /\ q \in Delivery /\ q.status = FailedOrUnknown(r)
      /\ q.origin = "none" /\ q.phase = "none" /\ q.lease = NoLease
      /\ q.active = NoAttempt /\ q.count = r.count /\ q.dup = r.dup
  BY <1>1, SettleFacts
<1>3. Fail(r, fatal) = [q EXCEPT !.fatal = fatal /\ r.origin # "unknown"]
  BY DEF Fail
<1> HIDE DEF q
<1> QED BY <1>2, <1>3 DEF Delivery

\* The aggregate over accepted attempts is a resting status, and a
\* conclusive one only if some attempt was accepted.
LEMMA AggregateFacts ==
  ASSUME NEW as
  PROVE  /\ AggregateTruth(as) \in {"sent", "bounced", "unknown"}
         /\ AggregateTruth(as) \in {"sent", "bounced"} => Accepted(as) # {}
         /\ RepairedTruth(as) \in {"sent", "bounced", "unknown"}
         /\ RepairedTruth(as) \in {"sent", "bounced"} => Accepted(as) # {}
<1>1. /\ AggregateTruth(as) \in {"sent", "bounced", "unknown"}
      /\ AggregateTruth(as) \in {"sent", "bounced"} => Accepted(as) # {}
  BY Zenon DEF AggregateTruth
<1> QED BY <1>1 DEF RepairedTruth

\* Accept is Settle to the given status; it marks duplicates.
LEMMA AcceptFacts ==
  ASSUME NEW r \in Delivery, NEW as, NEW s \in Statuses
  PROVE  /\ Accept(r, as, s) \in Delivery
         /\ Accept(r, as, s).status = s /\ Accept(r, as, s).origin = "none"
         /\ Accept(r, as, s).phase = "none"
         /\ Accept(r, as, s).lease = NoLease
         /\ Accept(r, as, s).active = NoAttempt
         /\ Accept(r, as, s).count = r.count
         /\ Accept(r, as, s).dup = (r.dup \/ Duplicated(as))
<1> DEFINE q == Settle(r, s)
<1>1. /\ q \in Delivery /\ q.status = s
      /\ q.origin = "none" /\ q.phase = "none" /\ q.lease = NoLease
      /\ q.active = NoAttempt /\ q.count = r.count /\ q.dup = r.dup
  BY SettleFacts
<1>2. Accept(r, as, s) = [q EXCEPT !.fatal = FALSE, !.dup = r.dup \/ Duplicated(as)]
  BY DEF Accept
<1>3. Duplicated(as) \in BOOLEAN
  BY DEF Duplicated
<1> HIDE DEF q
<1> QED BY <1>1, <1>2, <1>3 DEF Delivery

-----------------------------------------------------------------------------
(* Preservation of the inductive invariant                                 *)

\* What a pass may do to the volatile jobs besides beginning an attempt.
JobStep ==
  /\ job' \in [Workers -> Job]
  /\ \A w \in Workers :
       \/ job'[w] = job[w]
       \/ job'[w].pc \in {"idle", "scan"}
       \/ /\ job'[w].pc = "preflight"
          /\ job'[w].d \in Deliveries /\ job'[w].lease # NoLease

\* What the new row r and attempts as of delivery d must satisfy.
GoodRow(d, r, as) ==
  /\ RowShape(r)
  /\ r.count = dlv[d].count
  /\ \A n \in Attempts :
       /\ as[n].lease = att[d][n].lease
       /\ as[n].st = "none" <=> att[d][n].st = "none"
       /\ as[n].st = "accepted" => ses[d][n] = "accepted"
       /\ Exposed(d, n) =>
            \/ r.status \in {"sent", "bounced", "unknown"}
            \/ r.phase = "provider" /\ n = r.active
            \/ r.origin = "unknown" /\ n <= acked[d]
  /\ r.status \in {"sent", "bounced"} => Accepted(as) # {}
  /\ r.phase = "provider" => Accepted(as) = {}
  /\ Duplicated(as) => r.dup
  /\ /\ r.origin = "none"
     /\ r.status \in {"absent", "queued", "retrying"} \/ r.phase = "preflight"
     => r.count < MaxAttempts

\* A delivery that a step leaves alone keeps its part of the invariant.
LEMMA SameRow ==
  ASSUME NEW e \in Deliveries, DeliveryInv(e),
         dlv'[e] = dlv[e], att'[e] = att[e], ses'[e] = ses[e],
         acked'[e] = acked[e]
  PROVE  DeliveryInv(e)'
<1>1. RowShape(dlv[e])'
  BY DEF DeliveryInv, RowShape
<1>2. AttemptShape(e)'
  BY DEF DeliveryInv, AttemptShape
<1>3. ExposureKnown(e)'
  BY DEF DeliveryInv, ExposureKnown, Exposed
<1>4. Evidence(e)'
  BY DEF DeliveryInv, Evidence, Accepted, Duplicated
<1>5. WithinBudget(e)'
  BY DEF DeliveryInv, WithinBudget
<1> QED BY <1>1, <1>2, <1>3, <1>4, <1>5 DEF DeliveryInv

\* A delivery whose row and attempts become r and as.
LEMMA NewRow ==
  ASSUME NEW d \in Deliveries, AttemptShape(d),
         NEW r, NEW as, GoodRow(d, r, as),
         dlv'[d] = r, att'[d] = as, ses'[d] = ses[d], acked'[d] = acked[d]
  PROVE  DeliveryInv(d)'
<1>1. RowShape(dlv[d])'
  BY DEF GoodRow, RowShape
<1>2. AttemptShape(d)'
  <2>1. /\ r.count = dlv[d].count
        /\ \A n \in Attempts :
             /\ as[n].lease = att[d][n].lease
             /\ as[n].st = "none" <=> att[d][n].st = "none"
             /\ as[n].st = "accepted" => ses[d][n] = "accepted"
    BY DEF GoodRow
  <2>2. ASSUME NEW n \in Attempts
        PROVE  /\ as[n].st = "none" <=> n > r.count
               /\ as[n].lease = NoLease <=> n > r.count
               /\ ses[d][n] = "none" <=> n > r.count
               /\ as[n].st = "accepted" => ses[d][n] = "accepted"
    BY <2>1 DEF AttemptShape
  <2>3. ASSUME NEW m \in Attempts, NEW n \in Attempts,
               as[m].lease = as[n].lease, m # n
        PROVE  as[m].lease = NoLease
    BY <2>1, <2>3 DEF AttemptShape
  <2>4. acked[d] <= r.count
    BY <2>1 DEF AttemptShape
  <2> QED BY <2>2, <2>3, <2>4 DEF AttemptShape
<1>3. ExposureKnown(d)'
  BY DEF GoodRow, ExposureKnown, Exposed
<1>4. Accepted(att[d])' = Accepted(as) /\ Duplicated(att[d])' = Duplicated(as)
  BY DEF Accepted, Duplicated
<1>5. Evidence(d)'
  BY <1>4 DEF GoodRow, Evidence
<1>6. WithinBudget(d)'
  BY DEF GoodRow, WithinBudget
<1> QED BY <1>1, <1>2, <1>3, <1>5, <1>6 DEF DeliveryInv

\* Jobs keep their shape while attempt rows keep their leases.
LEMMA JobsKept ==
  ASSUME TypeOK, NEW w \in Workers, JobShape(w), JobStep,
         \A e \in Deliveries : \A n \in Attempts :
            att'[e][n].lease = att[e][n].lease
  PROVE  JobShape(w)'
<1>1. CASE job'[w] = job[w]
  <2>1. job[w].n \in Attempts \cup {NoAttempt}
    BY DEF TypeOK
  <2> QED BY <1>1, <2>1 DEF JobShape
<1>2. CASE job'[w] # job[w]
  BY <1>2 DEF JobStep, JobShape
<1> QED BY <1>1, <1>2

\* A step that rewrites one delivery row and its attempts keeps LedgerInv
\* if the new row is good.
LEMMA RowStep ==
  ASSUME LedgerInv, NEW d \in Deliveries,
         NEW r \in Delivery, NEW as \in [Attempts -> Attempt],
         dlv' = [dlv EXCEPT ![d] = r], att' = [att EXCEPT ![d] = as],
         UNCHANGED <<ses, acked>>, JobStep, GoodRow(d, r, as)
  PROVE  LedgerInv'
<1>1. TypeOK'
  BY DEF LedgerInv, TypeOK, JobStep, Job
<1>2. /\ dlv'[d] = r /\ att'[d] = as
      /\ \A e \in Deliveries \ {d} : dlv'[e] = dlv[e] /\ att'[e] = att[e]
      /\ \A e \in Deliveries : ses'[e] = ses[e] /\ acked'[e] = acked[e]
  BY DEF LedgerInv, TypeOK
<1>3. /\ \A e \in Deliveries : DeliveryInv(e)
      /\ AttemptShape(d) /\ TypeOK
      /\ \A w \in Workers : JobShape(w)
  BY DEF LedgerInv, DeliveryInv
<1>4. DeliveryInv(d)'
  BY <1>2, <1>3, NewRow
<1>5. ASSUME NEW e \in Deliveries, e # d PROVE DeliveryInv(e)'
  BY <1>2, <1>3, <1>5, SameRow
<1>6. ASSUME NEW e \in Deliveries, NEW n \in Attempts
      PROVE  att'[e][n].lease = att[e][n].lease
  <2>1. as[n].lease = att[d][n].lease
    BY DEF GoodRow
  <2>2. att'[e] = IF e = d THEN as ELSE att[e]
    BY <1>2
  <2> QED BY <2>1, <2>2
<1>7. ASSUME NEW w \in Workers PROVE JobShape(w)'
  BY <1>3, <1>6, JobsKept
<1> QED BY <1>1, <1>4, <1>5, <1>7 DEF LedgerInv

\* A step that only moves jobs keeps LedgerInv.
LEMMA JobOnlyStep ==
  ASSUME LedgerInv, UNCHANGED <<dlv, att, ses, acked>>, JobStep
  PROVE  LedgerInv'
<1>1. TypeOK'
  BY DEF LedgerInv, TypeOK, JobStep, Job
<1>2. ASSUME NEW e \in Deliveries PROVE DeliveryInv(e)'
  BY SameRow DEF LedgerInv
<1>3. ASSUME NEW w \in Workers PROVE JobShape(w)'
  BY JobsKept DEF LedgerInv
<1> QED BY <1>1, <1>2, <1>3 DEF LedgerInv

\* Going idle, or staying, is a job step.
LEMMA IdleStep ==
  ASSUME TypeOK
  PROVE  /\ UNCHANGED job => JobStep
         /\ \A w \in Workers : job' = [job EXCEPT ![w] = IdleJob] => JobStep
<1>1. IdleJob \in Job /\ IdleJob.pc = "idle"
  BY DEF IdleJob, Job
<1>2. job \in [Workers -> Job]
  BY DEF TypeOK, Job
<1> QED BY <1>1, <1>2 DEF JobStep

\* The parts of the invariant an action on one delivery starts from.
LEMMA Parts ==
  ASSUME LedgerInv, NEW d \in Deliveries
  PROVE  /\ TypeOK /\ dlv[d] \in Delivery /\ att[d] \in [Attempts -> Attempt]
         /\ RowShape(dlv[d]) /\ AttemptShape(d) /\ ExposureKnown(d)
         /\ Evidence(d) /\ WithinBudget(d)
  BY DEF LedgerInv, TypeOK, DeliveryInv

\* A step that rewrites one delivery row only.
LEMMA RowOnlyStep ==
  ASSUME LedgerInv, NEW d \in Deliveries, NEW r \in Delivery,
         dlv' = [dlv EXCEPT ![d] = r],
         UNCHANGED <<att, ses, acked>>, JobStep, GoodRow(d, r, att[d])
  PROVE  LedgerInv'
<1>1. att[d] \in [Attempts -> Attempt] /\ att' = [att EXCEPT ![d] = att[d]]
  BY DEF LedgerInv, TypeOK
<1> QED BY <1>1, RowStep

\* r has left the dispatch machinery in status s.
Rests(d, r, s) ==
  /\ r \in Delivery /\ r.status = s /\ r.origin = "none"
  /\ r.phase = "none" /\ r.lease = NoLease /\ r.active = NoAttempt
  /\ r.count = dlv[d].count

\* A resting row is good if its status is backed by the attempts.
LEMMA RestGood ==
  ASSUME NEW d \in Deliveries, NEW r, NEW as, AttemptShape(d),
         NEW s \in {"sent", "bounced", "unknown", "failed"}, Rests(d, r, s),
         \A n \in Attempts :
            /\ as[n].lease = att[d][n].lease
            /\ as[n].st = "none" <=> att[d][n].st = "none"
            /\ as[n].st = "accepted" => ses[d][n] = "accepted",
         s \in {"sent", "bounced"} => Accepted(as) # {},
         s = "failed" => \A n \in Attempts : ~ Exposed(d, n),
         Duplicated(as) => r.dup
  PROVE  GoodRow(d, r, as)
<1>1. RowShape(r)
  BY DEF Rests, RowShape
<1> QED BY <1>1 DEF GoodRow, Rests

-----------------------------------------------------------------------------
(* One lemma per action                                                    *)

LEMMA KeepBecomeDue ==
  ASSUME LedgerInv, NEW d \in Deliveries, BecomeDue(d) PROVE LedgerInv'
<1> DEFINE r == [dlv[d] EXCEPT !.due = TRUE]
<1>1. /\ r \in Delivery /\ r.status = dlv[d].status /\ r.origin = dlv[d].origin
      /\ r.phase = dlv[d].phase /\ r.lease = dlv[d].lease
      /\ r.active = dlv[d].active /\ r.count = dlv[d].count /\ r.dup = dlv[d].dup
  BY Parts DEF Delivery
<1>2. dlv' = [dlv EXCEPT ![d] = r] /\ UNCHANGED <<att, ses, acked, job>>
  BY DEF BecomeDue
<1> HIDE DEF r
<1>3. GoodRow(d, r, att[d])
  BY <1>1, Parts DEF GoodRow, RowShape, AttemptShape, ExposureKnown, Evidence,
                     WithinBudget
<1> QED BY <1>1, <1>2, <1>3, Parts, IdleStep, RowOnlyStep

LEMMA KeepLeaseExpires ==
  ASSUME LedgerInv, NEW d \in Deliveries, LeaseExpires(d) PROVE LedgerInv'
<1> DEFINE r == [dlv[d] EXCEPT !.expired = TRUE]
<1>1. /\ r \in Delivery /\ r.status = dlv[d].status /\ r.origin = dlv[d].origin
      /\ r.phase = dlv[d].phase /\ r.lease = dlv[d].lease
      /\ r.active = dlv[d].active /\ r.count = dlv[d].count /\ r.dup = dlv[d].dup
  BY Parts DEF Delivery
<1>2. dlv' = [dlv EXCEPT ![d] = r] /\ UNCHANGED <<att, ses, acked, job>>
  BY DEF LeaseExpires
<1> HIDE DEF r
<1>3. GoodRow(d, r, att[d])
  BY <1>1, Parts DEF GoodRow, RowShape, AttemptShape, ExposureKnown, Evidence,
                     WithinBudget
<1> QED BY <1>1, <1>2, <1>3, Parts, IdleStep, RowOnlyStep

LEMMA KeepEnqueue ==
  ASSUME LedgerInv, NEW d \in Deliveries, Enqueue(d) PROVE LedgerInv'
<1> DEFINE r == [dlv[d] EXCEPT !.status = "queued"]
<1>1. /\ r \in Delivery /\ r.status = "queued" /\ r.origin = dlv[d].origin
      /\ r.phase = dlv[d].phase /\ r.lease = dlv[d].lease
      /\ r.active = dlv[d].active /\ r.count = dlv[d].count /\ r.dup = dlv[d].dup
  BY Parts DEF Delivery, Statuses
<1>2. /\ dlv' = [dlv EXCEPT ![d] = r] /\ UNCHANGED <<att, ses, acked, job>>
      /\ dlv[d].status = "absent"
  BY DEF Enqueue
<1> HIDE DEF r
<1>3. GoodRow(d, r, att[d])
  BY <1>1, <1>2, Parts DEF GoodRow, RowShape, AttemptShape, ExposureKnown,
                           Evidence, WithinBudget
<1> QED BY <1>1, <1>2, <1>3, Parts, IdleStep, RowOnlyStep

LEMMA KeepRetryFailed ==
  ASSUME LedgerInv, NEW d \in Deliveries, RetryFailed(d) PROVE LedgerInv'
<1> DEFINE r == [dlv[d] EXCEPT !.status = "queued", !.origin = "failed",
                               !.due = TRUE]
<1>1. /\ r \in Delivery /\ r.status = "queued" /\ r.origin = "failed"
      /\ r.phase = dlv[d].phase /\ r.lease = dlv[d].lease
      /\ r.active = dlv[d].active /\ r.count = dlv[d].count /\ r.dup = dlv[d].dup
  BY Parts DEF Delivery, Statuses
<1>2. /\ dlv' = [dlv EXCEPT ![d] = r] /\ UNCHANGED <<att, ses, acked, job>>
      /\ dlv[d].status = "failed" /\ dlv[d].count < AttemptBound
  BY DEF RetryFailed
<1> HIDE DEF r
<1>3. GoodRow(d, r, att[d])
  BY <1>1, <1>2, Parts DEF GoodRow, RowShape, AttemptShape, ExposureKnown,
                           Evidence, WithinBudget
<1> QED BY <1>1, <1>2, <1>3, Parts, IdleStep, RowOnlyStep

\* An attempt's lease, its existence and its acceptance are as before.
LEMMA SameAttempts ==
  ASSUME NEW d \in Deliveries, AttemptShape(d), NEW n \in Attempts
  PROVE  /\ att[d][n].lease = att[d][n].lease
         /\ att[d][n].st = "none" <=> att[d][n].st = "none"
         /\ att[d][n].st = "accepted" => ses[d][n] = "accepted"
  BY DEF AttemptShape

LEMMA KeepCancel ==
  ASSUME LedgerInv, NEW d \in Deliveries, Cancel(d) PROVE LedgerInv'
<1>1. /\ dlv[d].status \in {"queued", "retrying"}
      /\ UNCHANGED <<att, ses, acked, job>>
  BY DEF Cancel
<1>2. CASE dlv[d].origin # "none"
  <2> DEFINE s == dlv[d].origin
             q == Settle(dlv[d], s)
             r == [q EXCEPT !.fatal = FALSE]
  <2>1. s \in {"unknown", "failed"} /\ s \in Statuses
    BY <1>2, Parts DEF Delivery, Statuses
  <2>2. /\ Rests(d, q, s) /\ q.dup = dlv[d].dup
    BY <2>1, Parts, SettleFacts DEF Rests
  <2>3. dlv' = [dlv EXCEPT ![d] = r]
    BY <1>2 DEF Cancel
  <2> HIDE DEF q
  <2>4. Rests(d, r, s) /\ r.dup = dlv[d].dup
    BY <2>2 DEF Rests, Delivery
  <2> HIDE DEF r
  <2>5. s = "failed" => \A n \in Attempts : ~ Exposed(d, n)
    BY <1>1, Parts DEF ExposureKnown, RowShape
  <2>6. GoodRow(d, r, att[d])
    BY <2>1, <2>4, <2>5, Parts, RestGood, SameAttempts DEF Evidence
  <2> QED BY <1>1, <2>3, <2>4, <2>6, Parts, IdleStep, RowOnlyStep DEF Rests
<1>3. CASE dlv[d].origin = "none"
  <2> DEFINE r == [dlv[d] EXCEPT !.status = "cancelled", !.due = TRUE]
  <2>1. /\ r \in Delivery /\ r.status = "cancelled" /\ r.origin = "none"
        /\ r.phase = dlv[d].phase /\ r.lease = dlv[d].lease
        /\ r.active = dlv[d].active /\ r.count = dlv[d].count
        /\ r.dup = dlv[d].dup
    BY <1>3, Parts DEF Delivery, Statuses
  <2>2. dlv' = [dlv EXCEPT ![d] = r]
    BY <1>3 DEF Cancel
  <2> HIDE DEF r
  <2>3. GoodRow(d, r, att[d])
    BY <1>1, <1>3, <2>1, Parts DEF GoodRow, RowShape, AttemptShape,
                         ExposureKnown, Evidence, WithinBudget
  <2> QED BY <1>1, <2>1, <2>2, <2>3, Parts, IdleStep, RowOnlyStep
<1> QED BY <1>2, <1>3

\* Fail never reports "failed" while a request may be accepted.
LEMMA FailGood ==
  ASSUME LedgerInv, NEW d \in Deliveries, NEW fatal \in BOOLEAN, NEW as,
         \A n \in Attempts :
            /\ as[n].lease = att[d][n].lease
            /\ as[n].st = "none" <=> att[d][n].st = "none"
            /\ as[n].st = "accepted" => ses[d][n] = "accepted",
         \A n \in Attempts : Exposed(d, n) => dlv[d].origin = "unknown",
         Duplicated(as) => dlv[d].dup
  PROVE  Fail(dlv[d], fatal) \in Delivery /\ GoodRow(d, Fail(dlv[d], fatal), as)
<1> DEFINE r == Fail(dlv[d], fatal)
           s == FailedOrUnknown(dlv[d])
<1>1. /\ s \in {"sent", "bounced", "unknown", "failed"}
      /\ s \notin {"sent", "bounced"}
      /\ s = "failed" => dlv[d].origin # "unknown"
  BY DEF FailedOrUnknown
<1>2. Rests(d, r, s) /\ r.dup = dlv[d].dup
  BY Parts, FailFacts DEF Rests
<1> HIDE DEF r, s
<1>3. AttemptShape(d)
  BY Parts
<1>4. GoodRow(d, r, as)
  BY <1>1, <1>2, <1>3, RestGood
<1> QED BY <1>2, <1>4 DEF Rests, r

LEMMA KeepClaimUnusable ==
  ASSUME LedgerInv, NEW w \in Workers, NEW d \in Deliveries,
         ClaimUnusable(w, d)
  PROVE  LedgerInv'
<1>1. /\ dlv[d].status \in {"queued", "retrying"}
      /\ dlv' = [dlv EXCEPT ![d] = Fail(dlv[d], TRUE)]
      /\ UNCHANGED <<att, ses, acked, job>>
  BY DEF ClaimUnusable, Dispatchable
<1>2. \A n \in Attempts : Exposed(d, n) => dlv[d].origin = "unknown"
  BY <1>1, Parts DEF ExposureKnown, RowShape
<1>3. Duplicated(att[d]) => dlv[d].dup
  BY Parts DEF Evidence
<1>4. Fail(dlv[d], TRUE) \in Delivery /\ GoodRow(d, Fail(dlv[d], TRUE), att[d])
  BY <1>2, <1>3, Parts, FailGood, SameAttempts
<1> QED BY <1>1, <1>4, Parts, IdleStep, RowOnlyStep

LEMMA KeepFailPreflight ==
  ASSUME LedgerInv, NEW w \in Workers, NEW fatal \in BOOLEAN,
         FailPreflight(w, fatal)
  PROVE  LedgerInv'
<1> DEFINE d == job[w].d
<1>1. /\ d \in Deliveries
      /\ dlv[d].phase = "preflight" /\ dlv[d].status = "sending"
      /\ dlv' = [dlv EXCEPT ![d] = Fail(dlv[d], fatal)]
      /\ job' = [job EXCEPT ![w] = IdleJob] /\ UNCHANGED <<att, ses, acked>>
  BY DEF LedgerInv, JobShape, FailPreflight, HoldsPreflight
<1> HIDE DEF d
<1>2. \A n \in Attempts : Exposed(d, n) => dlv[d].origin = "unknown"
  BY <1>1, Parts DEF ExposureKnown
<1>3. Duplicated(att[d]) => dlv[d].dup
  BY <1>1, Parts DEF Evidence
<1>4. /\ Fail(dlv[d], fatal) \in Delivery
      /\ GoodRow(d, Fail(dlv[d], fatal), att[d])
  BY <1>1, <1>2, <1>3, Parts, FailGood, SameAttempts
<1> QED BY <1>1, <1>4, Parts, IdleStep, RowOnlyStep

LEMMA KeepDeferPreflight ==
  ASSUME LedgerInv, NEW w \in Workers, DeferPreflight(w)
  PROVE  LedgerInv'
<1> DEFINE d == job[w].d
           r == Requeue(dlv[d])
<1>1. /\ d \in Deliveries
      /\ dlv[d].phase = "preflight" /\ dlv[d].status = "sending"
      /\ dlv' = [dlv EXCEPT ![d] = r]
      /\ job' = [job EXCEPT ![w] = IdleJob] /\ UNCHANGED <<att, ses, acked>>
  BY DEF LedgerInv, JobShape, DeferPreflight, HoldsPreflight
<1> HIDE DEF d
<1>2. /\ r \in Delivery /\ r.status = "retrying" /\ r.origin = dlv[d].origin
      /\ r.phase = "none" /\ r.lease = NoLease /\ r.active = NoAttempt
      /\ r.count = dlv[d].count /\ r.dup = dlv[d].dup
  BY <1>1, Parts, RequeueFacts
<1> HIDE DEF r
<1>3. GoodRow(d, r, att[d])
  BY <1>1, <1>2, Parts DEF GoodRow, RowShape, AttemptShape, ExposureKnown,
                           Evidence, WithinBudget
<1> QED BY <1>1, <1>2, <1>3, Parts, IdleStep, RowOnlyStep

LEMMA KeepRepair ==
  ASSUME LedgerInv, NEW w \in Workers, NEW d \in Deliveries,
         RepairFromLedger(w, d)
  PROVE  LedgerInv'
<1> DEFINE s == RepairedTruth(att[d])
           q == Accept(dlv[d], att[d], s)
           r == [q EXCEPT !.dup = Duplicated(att[d])]
<1>1. /\ dlv' = [dlv EXCEPT ![d] = r] /\ UNCHANGED <<att, ses, acked, job>>
      /\ Accepted(att[d]) # {}
  BY DEF RepairFromLedger
<1>2. s \in {"sent", "bounced", "unknown"}
  BY AggregateFacts
<1> HIDE DEF s
<1>3. s \in Statuses /\ Duplicated(att[d]) \in BOOLEAN
  BY <1>2 DEF Statuses, Duplicated
<1>4. Rests(d, q, s)
  BY <1>3, Parts, AcceptFacts DEF Rests
<1> HIDE DEF q
<1>5. Rests(d, r, s) /\ r.dup = Duplicated(att[d])
  BY <1>3, <1>4 DEF Rests, Delivery
<1> HIDE DEF r
<1>6. GoodRow(d, r, att[d])
  BY <1>1, <1>2, <1>5, Parts, RestGood, SameAttempts
<1> QED BY <1>1, <1>5, <1>6, Parts, IdleStep, RowOnlyStep DEF Rests

LEMMA KeepClaim ==
  ASSUME LedgerInv, NEW w \in Workers, NEW d \in Deliveries,
         ClaimNextForPreflight(w, d)
  PROVE  LedgerInv'
<1> DEFINE t == CHOOSE u \in Leases : Fresh(u)
           r == [dlv[d] EXCEPT !.status = "sending", !.phase = "preflight",
                               !.active = NoAttempt, !.due = FALSE,
                               !.lease = t, !.expired = FALSE]
           j == [pc |-> "preflight", d |-> d, lease |-> t, n |-> NoAttempt]
<1>1. /\ \E u \in Leases : Fresh(u)
      /\ dlv[d].status \in {"queued", "retrying"}
      /\ dlv' = [dlv EXCEPT ![d] = r] /\ job' = [job EXCEPT ![w] = j]
      /\ UNCHANGED <<att, ses, acked>>
  BY DEF ClaimNextForPreflight, Dispatchable
<1>2. t \in Leases
  BY <1>1
<1> HIDE DEF t
<1>3. t # NoLease
  BY <1>2, BoundsAssumption DEF Leases, NoLease
<1>4. j \in Job /\ j.pc = "preflight" /\ j.d = d /\ j.lease = t
  BY <1>2 DEF Job
<1> HIDE DEF j
<1>5. JobStep
  BY <1>1, <1>3, <1>4, Parts DEF JobStep, TypeOK, Job
<1>6. /\ r \in Delivery /\ r.status = "sending" /\ r.origin = dlv[d].origin
      /\ r.phase = "preflight" /\ r.lease = t /\ r.active = NoAttempt
      /\ r.count = dlv[d].count /\ r.dup = dlv[d].dup
  BY <1>2, Parts DEF Delivery, Statuses, NoAttempt
<1> HIDE DEF r
<1>7. GoodRow(d, r, att[d])
  BY <1>1, <1>3, <1>6, Parts DEF GoodRow, RowShape, AttemptShape,
                                 ExposureKnown, Evidence, WithinBudget
<1> QED BY <1>1, <1>5, <1>6, <1>7, RowOnlyStep

\* The attempt a pass at the provider answers for is the active one.
LEMMA HoldsActive ==
  ASSUME LedgerInv, NEW w \in Workers, job[w].pc = "dispatch",
         HoldsProvider(w)
  PROVE  /\ job[w].d \in Deliveries /\ job[w].n \in Attempts
         /\ dlv[job[w].d].phase = "provider"
         /\ dlv[job[w].d].active = job[w].n
         /\ att[job[w].d][job[w].n].st = "sending"
<1> DEFINE d == job[w].d
           n == job[w].n
           a == dlv[d].active
<1>1. /\ d \in Deliveries /\ n \in Attempts /\ att[d][n].lease = job[w].lease
      /\ job[w].lease # NoLease
  BY DEF LedgerInv, JobShape, TypeOK
<1>2. /\ dlv[d].phase = "provider"
      /\ a \in {m \in Attempts : /\ att[d][m].st = "sending"
                                 /\ att[d][m].lease = job[w].lease}
  BY DEF HoldsProvider
<1> HIDE DEF d, n, a
<1>3. a \in Attempts /\ att[d][a].st = "sending" /\ att[d][a].lease = job[w].lease
  BY <1>2
<1>4. n = a
  BY <1>1, <1>3, Parts DEF AttemptShape
<1> QED BY <1>1, <1>2, <1>3, <1>4 DEF d, n, a

\* Recording a provider outcome on one attempt keeps the attempts' shape.
LEMMA MarkFacts ==
  ASSUME LedgerInv, NEW d \in Deliveries, NEW n \in Attempts,
         NEW st \in AttemptStatuses \ {"none"}, att[d][n].st # "none",
         st = "accepted" => ses[d][n] = "accepted"
  PROVE  LET as == [att[d] EXCEPT ![n].st = st]
         IN  /\ as \in [Attempts -> Attempt]
             /\ \A m \in Attempts :
                  /\ as[m].lease = att[d][m].lease
                  /\ as[m].st = "none" <=> att[d][m].st = "none"
                  /\ as[m].st = "accepted" => ses[d][m] = "accepted"
             /\ as[n].st = st
             /\ \A m \in Attempts \ {n} : as[m] = att[d][m]
<1> DEFINE as == [att[d] EXCEPT ![n].st = st]
<1>1. att[d] \in [Attempts -> Attempt] /\ AttemptShape(d)
  BY Parts
<1>2. /\ as \in [Attempts -> Attempt]
      /\ as[n].st = st /\ as[n].lease = att[d][n].lease
      /\ \A m \in Attempts \ {n} : as[m] = att[d][m]
  BY <1>1 DEF Attempt
<1> HIDE DEF as
<1>3. ASSUME NEW m \in Attempts
      PROVE  /\ as[m].lease = att[d][m].lease
             /\ as[m].st = "none" <=> att[d][m].st = "none"
             /\ as[m].st = "accepted" => ses[d][m] = "accepted"
  <2>1. CASE m = n
    BY <1>2, <2>1
  <2>2. CASE m # n
    BY <1>1, <1>2, <2>2 DEF AttemptShape
  <2> QED BY <2>1, <2>2
<1> QED BY <1>2, <1>3 DEF as

\* Outcomes other than acceptance add no evidence of acceptance.
LEMMA NoNewAcceptance ==
  ASSUME NEW as, NEW bs, NEW n \in Attempts,
         \A m \in Attempts \ {n} : bs[m] = as[m],
         bs[n].st # "accepted"
  PROVE  Accepted(bs) \subseteq Accepted(as) /\ (Duplicated(bs) => Duplicated(as))
<1>1. Accepted(bs) \subseteq Accepted(as)
  BY DEF Accepted
<1> QED BY <1>1 DEF Duplicated

\* A finalizing step is a row step on the pass's own delivery and attempt.
LEMMA FinalizeStep ==
  ASSUME LedgerInv, NEW w \in Workers, NEW row \in Delivery,
         NEW st \in AttemptStatuses \ {"none"}, job[w].pc = "dispatch",
         Finalize(w, row, st),
         st = "accepted" => ses[job[w].d][job[w].n] = "accepted",
         GoodRow(job[w].d, row, [att[job[w].d] EXCEPT ![job[w].n].st = st])
  PROVE  LedgerInv'
<1> DEFINE d == job[w].d
           n == job[w].n
           as == [att[d] EXCEPT ![n].st = st]
<1>1. /\ d \in Deliveries /\ n \in Attempts /\ dlv[d].active = n
      /\ att[d][n].st = "sending"
  BY HoldsActive DEF Finalize
<1>2. /\ dlv' = [dlv EXCEPT ![d] = row] /\ UNCHANGED <<ses, acked>>
      /\ att' = [att EXCEPT ![d] = as] /\ job' = [job EXCEPT ![w] = IdleJob]
  BY <1>1 DEF Finalize
<1>3. as \in [Attempts -> Attempt]
  BY <1>1, MarkFacts
<1>4. JobStep
  BY <1>1, <1>2, Parts, IdleStep
<1> QED BY <1>1, <1>2, <1>3, <1>4, RowStep

\* At the provider, only the active request and acknowledged ones are open.
LEMMA AtProvider ==
  ASSUME LedgerInv, NEW d \in Deliveries, dlv[d].phase = "provider"
  PROVE  /\ Accepted(att[d]) = {}
         /\ dlv[d].status = "sending"
         /\ \A n \in Attempts : Exposed(d, n) /\ n # dlv[d].active =>
              dlv[d].origin = "unknown" /\ n <= acked[d]
<1>1. RowShape(dlv[d]) /\ ExposureKnown(d) /\ Evidence(d)
  BY Parts
<1>2. dlv[d].status = "sending"
  BY <1>1 DEF RowShape
<1> QED BY <1>1, <1>2 DEF ExposureKnown, Evidence

LEMMA KeepFinalizeAccepted ==
  ASSUME LedgerInv, NEW w \in Workers, FinalizeAccepted(w) PROVE LedgerInv'
<1> DEFINE d == job[w].d
           n == job[w].n
           q == Settle(dlv[d], "sent")
           r == [q EXCEPT !.fatal = FALSE]
           as == [att[d] EXCEPT ![n].st = "accepted"]
<1>1. /\ job[w].pc = "dispatch" /\ ses[d][n] = "accepted"
      /\ Finalize(w, r, "accepted") /\ HoldsProvider(w)
  BY DEF FinalizeAccepted, Observes, Finalize
<1>2. /\ d \in Deliveries /\ n \in Attempts /\ dlv[d].phase = "provider"
      /\ att[d][n].st = "sending"
  BY <1>1, HoldsActive
<1>3. Rests(d, q, "sent")
  BY <1>2, Parts, SettleFacts DEF Rests, Statuses
<1> HIDE DEF q
<1>4. Rests(d, r, "sent")
  BY <1>3 DEF Rests, Delivery
<1> HIDE DEF r
<1>5. /\ as[n].st = "accepted"
      /\ \A m \in Attempts \ {n} : as[m] = att[d][m]
      /\ \A m \in Attempts :
           /\ as[m].lease = att[d][m].lease
           /\ as[m].st = "none" <=> att[d][m].st = "none"
           /\ as[m].st = "accepted" => ses[d][m] = "accepted"
  BY <1>1, <1>2, MarkFacts DEF AttemptStatuses
<1> HIDE DEF as
<1>6. Accepted(att[d]) = {}
  BY <1>2, AtProvider
<1>7. Accepted(as) = {n}
  <2>1. \A m \in Attempts : att[d][m].st # "accepted"
    BY <1>6 DEF Accepted
  <2>2. \A m \in Attempts : as[m].st = "accepted" <=> m = n
    BY <1>2, <1>5, <2>1
  <2> QED BY <1>2, <2>2, Zenon DEF Accepted
<1>8. Accepted(as) # {} /\ ~ Duplicated(as)
  BY <1>7 DEF Duplicated
<1>9. GoodRow(d, r, as)
  BY <1>2, <1>4, <1>5, <1>8, Parts, RestGood
<1> QED BY <1>1, <1>4, <1>9, FinalizeStep DEF Rests, AttemptStatuses, as

\* The three finalizations that do not record an acceptance share this much.
LEMMA NonAcceptedOutcome ==
  ASSUME LedgerInv, NEW w \in Workers, job[w].pc = "dispatch",
         HoldsProvider(w), NEW st \in AttemptStatuses \ {"none", "accepted"}
  PROVE  LET d == job[w].d
             as == [att[d] EXCEPT ![job[w].n].st = st]
         IN  /\ \A m \in Attempts :
                  /\ as[m].lease = att[d][m].lease
                  /\ as[m].st = "none" <=> att[d][m].st = "none"
                  /\ as[m].st = "accepted" => ses[d][m] = "accepted"
             /\ Accepted(as) = {} /\ ~ Duplicated(as)
<1> DEFINE d == job[w].d
           n == job[w].n
           as == [att[d] EXCEPT ![n].st = st]
<1>1. /\ d \in Deliveries /\ n \in Attempts /\ dlv[d].phase = "provider"
      /\ att[d][n].st = "sending"
  BY HoldsActive
<1>2. /\ as[n].st = st
      /\ \A m \in Attempts \ {n} : as[m] = att[d][m]
      /\ \A m \in Attempts :
           /\ as[m].lease = att[d][m].lease
           /\ as[m].st = "none" <=> att[d][m].st = "none"
           /\ as[m].st = "accepted" => ses[d][m] = "accepted"
  BY <1>1, MarkFacts
<1> HIDE DEF as
<1>3. Accepted(att[d]) = {}
  BY <1>1, AtProvider
<1>4. Accepted(as) = {}
  <2>1. \A m \in Attempts : att[d][m].st # "accepted"
    BY <1>3 DEF Accepted
  <2>2. \A m \in Attempts : as[m].st # "accepted"
    BY <1>1, <1>2, <2>1
  <2> QED BY <2>2, Zenon DEF Accepted
<1>5. ~ Duplicated(as)
  BY <1>4 DEF Duplicated
<1> QED BY <1>2, <1>4, <1>5 DEF as

LEMMA KeepFinalizeUnknown ==
  ASSUME LedgerInv, NEW w \in Workers, FinalizeUnknown(w) PROVE LedgerInv'
<1> DEFINE d == job[w].d
           q == Settle(dlv[d], "unknown")
           r == [q EXCEPT !.fatal = FALSE]
           as == [att[d] EXCEPT ![job[w].n].st = "unknown"]
<1>1. /\ job[w].pc = "dispatch"
      /\ Finalize(w, r, "unknown") /\ HoldsProvider(w)
  BY DEF FinalizeUnknown, Observes, Finalize
<1>2. d \in Deliveries
  BY <1>1, HoldsActive
<1>3. Rests(d, q, "unknown")
  BY <1>2, Parts, SettleFacts DEF Rests, Statuses
<1> HIDE DEF q
<1>4. Rests(d, r, "unknown")
  BY <1>3 DEF Rests, Delivery
<1> HIDE DEF r
<1>5. /\ \A m \in Attempts :
           /\ as[m].lease = att[d][m].lease
           /\ as[m].st = "none" <=> att[d][m].st = "none"
           /\ as[m].st = "accepted" => ses[d][m] = "accepted"
      /\ ~ Duplicated(as)
  BY <1>1, NonAcceptedOutcome DEF AttemptStatuses
<1> HIDE DEF as
<1>6. GoodRow(d, r, as)
  BY <1>2, <1>4, <1>5, Parts, RestGood
<1> QED BY <1>1, <1>4, <1>6, FinalizeStep DEF Rests, AttemptStatuses, as

\* After a rejection of the active request only acknowledged ones are open.
LEMMA RejectedExposure ==
  ASSUME LedgerInv, NEW w \in Workers, Observes(w, "rejected"),
         HoldsProvider(w)
  PROVE  /\ job[w].d \in Deliveries
         /\ \A n \in Attempts : Exposed(job[w].d, n) =>
              dlv[job[w].d].origin = "unknown" /\ n <= acked[job[w].d]
<1>1. job[w].pc = "dispatch" /\ ses[job[w].d][job[w].n] = "rejected"
  BY DEF Observes
<1>2. /\ job[w].d \in Deliveries /\ dlv[job[w].d].phase = "provider"
      /\ dlv[job[w].d].active = job[w].n
  BY <1>1, HoldsActive
<1> QED BY <1>1, <1>2, AtProvider DEF Exposed

\* A rejected request may be reported as Fail reports it.
LEMMA RejectedFails ==
  ASSUME LedgerInv, NEW w \in Workers, Observes(w, "rejected"),
         NEW st \in {"rejected_retryable", "rejected_permanent"},
         Finalize(w, Fail(dlv[job[w].d], FALSE), st)
  PROVE  LedgerInv'
<1> DEFINE d == job[w].d
           as == [att[d] EXCEPT ![job[w].n].st = st]
<1>1. job[w].pc = "dispatch" /\ HoldsProvider(w)
  BY DEF Observes, Finalize
<1>2. /\ d \in Deliveries
      /\ \A n \in Attempts : Exposed(d, n) => dlv[d].origin = "unknown"
  BY <1>1, RejectedExposure
<1>3. /\ \A m \in Attempts :
           /\ as[m].lease = att[d][m].lease
           /\ as[m].st = "none" <=> att[d][m].st = "none"
           /\ as[m].st = "accepted" => ses[d][m] = "accepted"
      /\ ~ Duplicated(as)
  BY <1>1, NonAcceptedOutcome DEF AttemptStatuses
<1>4. /\ Fail(dlv[d], FALSE) \in Delivery
      /\ GoodRow(d, Fail(dlv[d], FALSE), as)
  BY <1>2, <1>3, FailGood
<1> QED BY <1>1, <1>4, FinalizeStep DEF AttemptStatuses

LEMMA KeepFinalizeDefinitiveFailure ==
  ASSUME LedgerInv, NEW w \in Workers, FinalizeDefinitiveFailure(w)
  PROVE  LedgerInv'
  BY RejectedFails DEF FinalizeDefinitiveFailure

LEMMA KeepFinalizeRetryableFailure ==
  ASSUME LedgerInv, NEW w \in Workers, FinalizeRetryableFailure(w)
  PROVE  LedgerInv'
<1> DEFINE d == job[w].d
           r == Requeue(dlv[d])
           as == [att[d] EXCEPT ![job[w].n].st = "rejected_retryable"]
<1>1. CASE dlv[d].count >= MaxAttempts
  BY <1>1, RejectedFails DEF FinalizeRetryableFailure
<1>2. CASE ~ (dlv[d].count >= MaxAttempts)
  <2>1. /\ Observes(w, "rejected") /\ job[w].pc = "dispatch"
        /\ Finalize(w, r, "rejected_retryable") /\ HoldsProvider(w)
    BY <1>2 DEF FinalizeRetryableFailure, Observes, Finalize
  <2>2. /\ d \in Deliveries
        /\ \A n \in Attempts : Exposed(d, n) =>
             dlv[d].origin = "unknown" /\ n <= acked[d]
    BY <2>1, RejectedExposure
  <2>3. /\ \A m \in Attempts :
             /\ as[m].lease = att[d][m].lease
             /\ as[m].st = "none" <=> att[d][m].st = "none"
             /\ as[m].st = "accepted" => ses[d][m] = "accepted"
        /\ ~ Duplicated(as)
    BY <2>1, NonAcceptedOutcome DEF AttemptStatuses
  <2>4. /\ r \in Delivery /\ r.status = "retrying" /\ r.origin = dlv[d].origin
        /\ r.phase = "none" /\ r.lease = NoLease /\ r.active = NoAttempt
        /\ r.count = dlv[d].count
    BY <2>2, Parts, RequeueFacts
  <2>5. dlv[d].count < MaxAttempts /\ dlv[d].count < AttemptBound
    <3>1. dlv[d].count \in Attempts \cup {0}
      BY <2>2, Parts DEF Delivery
    <3> QED BY <1>2, <3>1, BoundsAssumption DEF Attempts
  <2> HIDE DEF r, as
  <2>6. RowShape(r)
    BY <2>2, <2>4, <2>5, Parts DEF RowShape, Delivery
  <2>7. GoodRow(d, r, as)
    BY <2>2, <2>3, <2>4, <2>5, <2>6 DEF GoodRow
  <2> QED BY <2>1, <2>4, <2>7, FinalizeStep DEF AttemptStatuses, as
<1> QED BY <1>1, <1>2

\* The row Accept writes rests in the given status, marked if duplicated.
LEMMA AcceptRests ==
  ASSUME NEW d \in Deliveries, dlv[d] \in Delivery, NEW as, NEW s \in Statuses
  PROVE  /\ Rests(d, Accept(dlv[d], as, s), s)
         /\ Duplicated(as) => Accept(dlv[d], as, s).dup
<1> DEFINE q == Settle(dlv[d], s)
<1>1. Rests(d, Accept(dlv[d], as, s), s)
  <2>1. Rests(d, q, s) /\ q.dup = dlv[d].dup
    BY SettleFacts DEF Rests
  <2>2. Accept(dlv[d], as, s)
          = [q EXCEPT !.fatal = FALSE, !.dup = dlv[d].dup \/ Duplicated(as)]
    BY DEF Accept
  <2>3. (dlv[d].dup \/ Duplicated(as)) \in BOOLEAN
    OBVIOUS
  <2> HIDE DEF q
  <2> QED BY <2>1, <2>2, <2>3 DEF Rests, Delivery
<1>2. Duplicated(as) => Accept(dlv[d], as, s).dup
  BY AcceptFacts, Zenon
<1> QED BY <1>1, <1>2

\* Rewriting a delivery from its accepted attempts.
LEMMA AcceptStep ==
  ASSUME LedgerInv, NEW d \in Deliveries, NEW as \in [Attempts -> Attempt],
         \A n \in Attempts :
            /\ as[n].lease = att[d][n].lease
            /\ as[n].st = "none" <=> att[d][n].st = "none"
            /\ as[n].st = "accepted" => ses[d][n] = "accepted",
         dlv' = [dlv EXCEPT ![d] = Accept(dlv[d], as, AggregateTruth(as))],
         att' = [att EXCEPT ![d] = as], UNCHANGED <<ses, acked>>, JobStep
  PROVE  LedgerInv'
<1> DEFINE s == AggregateTruth(as)
           r == Accept(dlv[d], as, s)
<1>1. /\ s \in {"sent", "bounced", "unknown"}
      /\ s \in {"sent", "bounced"} => Accepted(as) # {}
  BY AggregateFacts
<1> HIDE DEF s
<1>2. Rests(d, r, s) /\ (Duplicated(as) => r.dup)
  <2>1. dlv[d] \in Delivery /\ s \in Statuses
    BY <1>1, Parts DEF Statuses
  <2> QED BY <2>1, AcceptRests
<1>3. dlv' = [dlv EXCEPT ![d] = r]
  BY DEF s
<1> HIDE DEF r
<1>4. GoodRow(d, r, as)
  BY <1>1, <1>2, Parts, RestGood
<1> QED BY <1>2, <1>3, <1>4, RowStep DEF Rests

LEMMA KeepRecordConcurrentAccepted ==
  ASSUME LedgerInv, NEW w \in Workers, RecordConcurrentAccepted(w)
  PROVE  LedgerInv'
<1> DEFINE d == job[w].d
           n == job[w].n
           as == [att[d] EXCEPT ![n].st = "accepted"]
<1>1. /\ job[w].pc = "dispatch" /\ ses[d][n] = "accepted"
      /\ att[d][n].st = "sending"
      /\ dlv' = [dlv EXCEPT ![d] = Accept(dlv[d], as, AggregateTruth(as))]
      /\ att' = [att EXCEPT ![d] = as] /\ UNCHANGED <<ses, acked>>
      /\ job' = [job EXCEPT ![w] = IdleJob]
  BY DEF RecordConcurrentAccepted, Observes, LateOutcome
<1>2. d \in Deliveries /\ n \in Attempts /\ TypeOK
  BY <1>1 DEF LedgerInv, JobShape, TypeOK
<1>3. /\ as \in [Attempts -> Attempt]
      /\ \A m \in Attempts :
           /\ as[m].lease = att[d][m].lease
           /\ as[m].st = "none" <=> att[d][m].st = "none"
           /\ as[m].st = "accepted" => ses[d][m] = "accepted"
  BY <1>1, <1>2, MarkFacts DEF AttemptStatuses
<1> HIDE DEF as
<1>4. JobStep
  BY <1>1, <1>2, IdleStep
<1> QED BY <1>1, <1>2, <1>3, <1>4, AcceptStep

LEMMA KeepSesEvent ==
  ASSUME LedgerInv, NEW d \in Deliveries, NEW n \in Attempts,
         NEW e \in Events, RecordSesProviderEvent(d, n, e)
  PROVE  LedgerInv'
<1> DEFINE as == [att[d] EXCEPT ![n].st = "accepted", ![n].ev = @ \cup {e}]
<1>1. /\ ses[d][n] = "accepted" /\ att[d][n].st # "none"
      /\ dlv' = [dlv EXCEPT ![d] = Accept(dlv[d], as, AggregateTruth(as))]
      /\ att' = [att EXCEPT ![d] = as] /\ UNCHANGED <<ses, acked, job>>
  BY DEF RecordSesProviderEvent
<1>2. att[d] \in [Attempts -> Attempt] /\ AttemptShape(d) /\ TypeOK
  BY Parts
<1>3. /\ as \in [Attempts -> Attempt]
      /\ as[n].st = "accepted" /\ as[n].lease = att[d][n].lease
      /\ \A m \in Attempts \ {n} : as[m] = att[d][m]
  <2>1. att[d][n] \in Attempt
    BY <1>2
  <2>2. as = [att[d] EXCEPT ![n] = [[att[d][n] EXCEPT !.st = "accepted"]
                                      EXCEPT !.ev = att[d][n].ev \cup {e}]]
    BY <1>2, <2>1 DEF Attempt
  <2>3. [[att[d][n] EXCEPT !.st = "accepted"]
           EXCEPT !.ev = att[d][n].ev \cup {e}] \in Attempt
    BY <2>1 DEF Attempt, AttemptStatuses
  <2> QED BY <1>2, <2>1, <2>2, <2>3 DEF Attempt
<1> HIDE DEF as
<1>4. ASSUME NEW m \in Attempts
      PROVE  /\ as[m].lease = att[d][m].lease
             /\ as[m].st = "none" <=> att[d][m].st = "none"
             /\ as[m].st = "accepted" => ses[d][m] = "accepted"
  <2>1. CASE m = n
    BY <1>1, <1>3, <2>1
  <2>2. CASE m # n
    BY <1>2, <1>3, <2>2 DEF AttemptShape
  <2> QED BY <2>1, <2>2
<1>5. JobStep
  BY <1>1, <1>2, IdleStep
<1> QED BY <1>1, <1>3, <1>4, <1>5, AcceptStep

LEMMA KeepRecordConcurrentNonAccepted ==
  ASSUME LedgerInv, NEW w \in Workers, NEW kind \in {"unknown", "rejected"},
         NEW st \in {"unknown", "rejected_retryable", "rejected_permanent"},
         RecordConcurrentNonAccepted(w, kind, st)
  PROVE  LedgerInv'
<1> DEFINE d == job[w].d
           n == job[w].n
           as == [att[d] EXCEPT ![n].st = st]
           s == LateStatus(dlv[d], as, kind)
           q == Settle(dlv[d], s)
           r == [q EXCEPT !.fatal = FALSE]
<1>0. /\ dlv' = [dlv EXCEPT ![d] = r]
      /\ att' = [att EXCEPT ![d] = as] /\ UNCHANGED <<ses, acked>>
      /\ job' = [job EXCEPT ![w] = IdleJob]
  BY DEF RecordConcurrentNonAccepted
<1>1. /\ job[w].pc = "dispatch" /\ att[d][n].st = "sending"
      /\ dlv[d].status \in {"sent", "bounced", "unknown"}
  BY DEF RecordConcurrentNonAccepted, Observes, LateOutcome
<1>2. d \in Deliveries /\ n \in Attempts /\ TypeOK
  BY <1>1 DEF LedgerInv, JobShape, TypeOK
<1>3. /\ as \in [Attempts -> Attempt] /\ as[n].st = st
      /\ \A m \in Attempts \ {n} : as[m] = att[d][m]
      /\ \A m \in Attempts :
           /\ as[m].lease = att[d][m].lease
           /\ as[m].st = "none" <=> att[d][m].st = "none"
           /\ as[m].st = "accepted" => ses[d][m] = "accepted"
  <2>1. st \in AttemptStatuses \ {"none"} /\ st # "accepted"
    BY DEF AttemptStatuses
  <2> QED BY <1>1, <1>2, <2>1, MarkFacts
<1>4. s \in {"sent", "bounced", "unknown"}
  BY <1>1, Zenon DEF LateStatus
<1>5. s \in {"sent", "bounced"} => Accepted(as) # {}
  <2>1. Accepted(as) = {} => s \in {dlv[d].status, "unknown"}
    BY Zenon DEF LateStatus
  <2> HIDE DEF s, as
  <2>2. dlv[d].status \in {"sent", "bounced"} => Accepted(att[d]) # {}
    BY <1>2, Parts DEF Evidence
  <2>3. Accepted(att[d]) \subseteq Accepted(as)
    BY <1>1, <1>2, <1>3 DEF Accepted
  <2> QED BY <2>1, <2>2, <2>3
<1> HIDE DEF s
<1>6. Rests(d, q, s) /\ q.dup = dlv[d].dup
  BY <1>2, <1>4, Parts, SettleFacts DEF Rests, Statuses
<1> HIDE DEF q, as
<1>7. Rests(d, r, s) /\ r.dup = dlv[d].dup
  BY <1>6 DEF Rests, Delivery
<1> HIDE DEF r
<1>8. Duplicated(as) => r.dup
  <2>1. Duplicated(as) => Duplicated(att[d])
    BY <1>2, <1>3, NoNewAcceptance
  <2> QED BY <1>2, <1>7, <2>1, Parts DEF Evidence
<1>9. GoodRow(d, r, as)
  BY <1>2, <1>3, <1>4, <1>5, <1>7, <1>8, Parts, RestGood
<1>10. JobStep
  BY <1>0, <1>2, IdleStep
<1> QED BY <1>0, <1>2, <1>3, <1>7, <1>9, <1>10, RowStep DEF Rests

LEMMA KeepJobOnly ==
  ASSUME LedgerInv, NEW w \in Workers,
         \/ EndPass(w) \/ PreflightLeaseLost(w) \/ LateOutcomeDropped(w)
         \/ Crash(w)
  PROVE  LedgerInv'
<1>1. /\ job' = [job EXCEPT ![w] = IdleJob]
      /\ UNCHANGED <<dlv, att, ses, acked>>
  BY DEF EndPass, PreflightLeaseLost, LateOutcomeDropped, Crash
<1>2. JobStep
  BY <1>1, IdleStep DEF LedgerInv
<1> QED BY <1>1, <1>2, JobOnlyStep

\* The user's acknowledgement covers every request made so far.
LEMMA KeepRetryUnknown ==
  ASSUME LedgerInv, NEW d \in Deliveries, RetryUnknown(d) PROVE LedgerInv'
<1> DEFINE r == [dlv[d] EXCEPT !.status = "queued", !.origin = "unknown",
                               !.due = TRUE, !.fatal = FALSE]
<1>1. /\ r \in Delivery /\ r.status = "queued" /\ r.origin = "unknown"
      /\ r.phase = dlv[d].phase /\ r.lease = dlv[d].lease
      /\ r.active = dlv[d].active /\ r.count = dlv[d].count /\ r.dup = dlv[d].dup
  BY Parts DEF Delivery, Statuses
<1>2. /\ dlv[d].status = "unknown" /\ dlv[d].count < AttemptBound
      /\ dlv' = [dlv EXCEPT ![d] = r]
      /\ acked' = [acked EXCEPT ![d] = dlv[d].count]
      /\ UNCHANGED <<att, ses, job>>
  BY DEF RetryUnknown
<1> HIDE DEF r
<1>3. TypeOK'
  <2>1. dlv[d].count \in Attempts \cup {0}
    BY Parts DEF Delivery
  <2> QED BY <1>1, <1>2, <2>1 DEF LedgerInv, TypeOK
<1>4. /\ dlv'[d] = r /\ acked'[d] = dlv[d].count
      /\ \A e \in Deliveries \ {d} : dlv'[e] = dlv[e] /\ acked'[e] = acked[e]
      /\ att' = att /\ ses' = ses
  BY <1>2 DEF LedgerInv, TypeOK
<1>5. ASSUME NEW e \in Deliveries, e # d PROVE DeliveryInv(e)'
  BY <1>4, <1>5, SameRow DEF LedgerInv
<1>6. DeliveryInv(d)'
  <2>1. /\ RowShape(dlv[d]) /\ AttemptShape(d) /\ Evidence(d)
        /\ dlv[d].count \in Nat
    BY Parts DEF Delivery, Attempts
  <2>2. RowShape(dlv[d])'
    BY <1>1, <1>2, <1>4, <2>1 DEF RowShape
  <2>3. AttemptShape(d)'
    BY <1>1, <1>4, <2>1 DEF AttemptShape
  <2>4. ExposureKnown(d)'
    <3>1. ASSUME NEW n \in Attempts, Exposed(d, n) PROVE n <= dlv[d].count
      BY <2>1, <3>1 DEF Exposed, AttemptShape, Attempts
    <3> QED BY <1>1, <1>4, <3>1 DEF ExposureKnown, Exposed
  <2>5. Evidence(d)'
    <3>1. Accepted(att[d])' = Accepted(att[d])
      BY <1>4 DEF Accepted
    <3>2. Duplicated(att[d])' = Duplicated(att[d])
      BY <1>4 DEF Duplicated, Accepted
    <3> QED BY <1>1, <1>2, <1>4, <2>1, <3>1, <3>2 DEF Evidence, RowShape
  <2>6. WithinBudget(d)'
    BY <1>1, <1>4 DEF WithinBudget
  <2> QED BY <2>2, <2>3, <2>4, <2>5, <2>6 DEF DeliveryInv
<1>7. ASSUME NEW w \in Workers PROVE JobShape(w)'
  BY <1>4, JobsKept, IdleStep, <1>2 DEF LedgerInv
<1> QED BY <1>3, <1>5, <1>6, <1>7 DEF LedgerInv

\* The provider's decision only narrows what may have been accepted.
LEMMA KeepSesDecides ==
  ASSUME LedgerInv, NEW d \in Deliveries, NEW n \in Attempts,
         NEW v \in {"accepted", "rejected"}, SesDecides(d, n, v)
  PROVE  LedgerInv'
<1>1. /\ ses[d][n] = "inflight" /\ ses' = [ses EXCEPT ![d][n] = v]
      /\ UNCHANGED <<dlv, att, acked, job>>
  BY DEF SesDecides
<1>2. TypeOK'
  BY <1>1 DEF LedgerInv, TypeOK
<1>3. ASSUME NEW e \in Deliveries, NEW m \in Attempts
      PROVE  /\ ses'[e][m] = "none" <=> ses[e][m] = "none"
             /\ ses[e][m] = "accepted" => ses'[e][m] = "accepted"
             /\ ses'[e][m] \in {"inflight", "accepted"} =>
                  ses[e][m] \in {"inflight", "accepted"}
  BY <1>1 DEF LedgerInv, TypeOK
<1>4. dlv' = dlv /\ att' = att /\ acked' = acked
  BY <1>1
<1>5. ASSUME NEW e \in Deliveries PROVE DeliveryInv(e)'
  <2>1. DeliveryInv(e)
    BY DEF LedgerInv
  <2>2. RowShape(dlv[e])'
    BY <1>4, <2>1 DEF DeliveryInv, RowShape
  <2>3. AttemptShape(e)'
    BY <1>3, <1>4, <2>1 DEF DeliveryInv, AttemptShape
  <2>4. ExposureKnown(e)'
    BY <1>3, <1>4, <2>1 DEF DeliveryInv, ExposureKnown, Exposed
  <2>5. Evidence(e)'
    BY <1>4, <2>1 DEF DeliveryInv, Evidence, Accepted, Duplicated
  <2>6. WithinBudget(e)'
    BY <1>4, <2>1 DEF DeliveryInv, WithinBudget
  <2> QED BY <2>2, <2>3, <2>4, <2>5, <2>6 DEF DeliveryInv
<1>6. ASSUME NEW w \in Workers PROVE JobShape(w)'
  BY <1>1, <1>4, JobsKept, IdleStep DEF LedgerInv
<1> QED BY <1>2, <1>5, <1>6 DEF LedgerInv

\* The new attempt is the next one, its lease is new to the delivery, and
\* no earlier attempt is recorded as open or accepted.
LEMMA KeepBegin ==
  ASSUME LedgerInv, NEW w \in Workers, BeginProviderAttempt(w)
  PROVE  LedgerInv'
<1>0. /\ job[w].pc = "preflight" /\ job[w].d \in Deliveries
      /\ job[w].lease \in Leases \cup {NoLease} /\ job[w].lease # NoLease
      /\ job[w] \in Job
  BY DEF LedgerInv, JobShape, TypeOK, Job, BeginProviderAttempt
<1>d. PICK d \in Deliveries : d = job[w].d
  BY <1>0
<1>t. PICK t \in Leases \cup {NoLease} : t = job[w].lease
  BY <1>0
<1>c. /\ dlv[d].status = "sending" /\ dlv[d].phase = "preflight"
      /\ dlv[d].lease = t /\ ~ Unsafe(d, t)
  BY <1>d, <1>t DEF BeginProviderAttempt, HoldsPreflight
<1>2. d \in Deliveries /\ t \in Leases \cup {NoLease} /\ t # NoLease
  BY <1>0, <1>t
<1>3. /\ dlv[d].count \in Attempts \cup {0} /\ dlv[d].count < AttemptBound
      /\ dlv[d] \in Delivery
  BY <1>c, Parts DEF RowShape, Delivery
<1>n. PICK n \in Attempts : n = dlv[d].count + 1
  BY <1>3, BoundsAssumption DEF Attempts
<1>4. n \in Attempts /\ dlv[d].count \in Nat /\ n > dlv[d].count
      /\ n = dlv[d].count + 1
  BY <1>3, <1>n DEF Attempts
<1> DEFINE r == [dlv[d] EXCEPT !.count = n, !.active = n,
                               !.phase = "provider", !.expired = FALSE]
           a == [st |-> "sending", lease |-> t, ev |-> {}]
           j == [job[w] EXCEPT !.pc = "dispatch", !.n = n]
<1>1. /\ dlv[d].status = "sending" /\ dlv[d].phase = "preflight"
      /\ dlv[d].lease = t /\ ~ Unsafe(d, t)
      /\ dlv' = [dlv EXCEPT ![d] = r] /\ att' = [att EXCEPT ![d][n] = a]
      /\ ses' = [ses EXCEPT ![d][n] = "inflight"]
      /\ job' = [job EXCEPT ![w] = j] /\ acked' = acked
  BY <1>c, <1>d, <1>t, <1>n DEF BeginProviderAttempt
<1>5. \A m \in Attempts : m > dlv[d].count /\ m # n => m > n
  BY <1>4 DEF Attempts
<1>51. \A m \in Attempts : m > n => m > dlv[d].count /\ m # n
  BY <1>4 DEF Attempts
<1>6. /\ r \in Delivery /\ r.status = "sending" /\ r.origin = dlv[d].origin
      /\ r.phase = "provider" /\ r.lease = t /\ r.active = n /\ r.count = n
      /\ r.dup = dlv[d].dup
  BY <1>1, <1>3, <1>4 DEF Delivery
<1>7. a \in Attempt /\ a.st = "sending" /\ a.lease = t
  BY <1>2 DEF Attempt, AttemptStatuses
<1>8. j \in Job /\ j.pc = "dispatch" /\ j.d = d /\ j.lease = t /\ j.n = n
  BY <1>0, <1>d, <1>t DEF Job
<1>9. n # NoAttempt
  BY <1>4 DEF Attempts, NoAttempt
<1> HIDE DEF r, a, j
<1>10. TypeOK'
  <2>1. dlv' \in [Deliveries -> Delivery]
    BY <1>1, <1>2, <1>6 DEF LedgerInv, TypeOK
  <2>2. att' \in [Deliveries -> [Attempts -> Attempt]]
    BY <1>1, <1>2, <1>4, <1>7 DEF LedgerInv, TypeOK
  <2>3. ses' \in [Deliveries -> [Attempts ->
                   {"none", "inflight", "accepted", "rejected"}]]
    BY <1>1, <1>2, <1>4 DEF LedgerInv, TypeOK
  <2>4. job' \in [Workers -> Job]
    BY <1>1, <1>8 DEF LedgerInv, TypeOK, Job
  <2> QED BY <1>1, <2>1, <2>2, <2>3, <2>4 DEF LedgerInv, TypeOK, Job
<1>11. /\ dlv'[d] = r /\ \A e \in Deliveries \ {d} : dlv'[e] = dlv[e]
  BY <1>1, <1>2 DEF LedgerInv, TypeOK
<1>12. /\ att'[d][n] = a
       /\ \A m \in Attempts \ {n} : att'[d][m] = att[d][m]
       /\ \A e \in Deliveries \ {d} : att'[e] = att[e]
  BY <1>1, <1>2, <1>4 DEF LedgerInv, TypeOK
<1>13. /\ ses'[d][n] = "inflight"
       /\ \A m \in Attempts \ {n} : ses'[d][m] = ses[d][m]
       /\ \A e \in Deliveries \ {d} : ses'[e] = ses[e]
  BY <1>1, <1>2, <1>4 DEF LedgerInv, TypeOK
<1>14. job'[w] = j /\ \A x \in Workers \ {w} : job'[x] = job[x]
  BY <1>1 DEF LedgerInv, TypeOK
<1>15. /\ AttemptShape(d) /\ RowShape(dlv[d]) /\ ExposureKnown(d)
       /\ acked[d] <= dlv[d].count /\ acked[d] \in Nat
  BY <1>2, Parts DEF AttemptShape, TypeOK, Attempts
<1>16. \A m \in Attempts : att[d][m].st # "accepted" /\ att[d][m].lease # t
  BY <1>1, <1>2, <1>15 DEF Unsafe, AttemptShape
<1>17. ASSUME NEW e \in Deliveries, e # d PROVE DeliveryInv(e)'
  BY <1>1, <1>11, <1>12, <1>13, <1>17, SameRow DEF LedgerInv
<1>18. DeliveryInv(d)'
  <2>1. RowShape(dlv[d])'
    BY <1>1, <1>2, <1>6, <1>9, <1>11, <1>15 DEF RowShape
  <2>2. ASSUME NEW m \in Attempts
        PROVE  /\ (att'[d][m].st = "none") <=> (m > n)
               /\ (att'[d][m].lease = NoLease) <=> (m > n)
               /\ (ses'[d][m] = "none") <=> (m > n)
               /\ att'[d][m].st # "accepted"
    <3>1. CASE m = n
      BY <1>2, <1>4, <1>7, <1>12, <1>13, <3>1 DEF Attempts
    <3>2. CASE m # n
      BY <1>5, <1>51, <1>12, <1>13, <1>15, <1>16, <3>2 DEF AttemptShape
    <3> QED BY <3>1, <3>2
  <2>3. ASSUME NEW m \in Attempts, NEW k \in Attempts, m # k,
               att'[d][m].lease = att'[d][k].lease
        PROVE  att'[d][m].lease = NoLease
    <3>1. m # n /\ k # n
      BY <1>7, <1>12, <1>16, <2>3
    <3> QED BY <1>12, <1>15, <2>3, <3>1 DEF AttemptShape
  <2>4. acked'[d] <= n
    BY <1>1, <1>4, <1>15
  <2>5. AttemptShape(d)'
    BY <1>6, <1>11, <2>2, <2>3, <2>4 DEF AttemptShape
  <2>6. ExposureKnown(d)'
    <3>1. ASSUME NEW m \in Attempts, m # n, Exposed(d, m)
          PROVE  dlv[d].origin = "unknown" /\ m <= acked[d]
      BY <1>1, <1>15, <3>1 DEF ExposureKnown
    <3> QED BY <1>1, <1>6, <1>11, <1>13, <3>1 DEF ExposureKnown, Exposed
  <2>7. Accepted(att[d])' = {}
    BY <2>2 DEF Accepted
  <2>8. ~ Duplicated(att[d])'
    BY <2>7 DEF Duplicated
  <2>9. Evidence(d)'
    BY <1>6, <1>11, <2>7, <2>8 DEF Evidence
  <2>10. WithinBudget(d)'
    BY <1>6, <1>11 DEF WithinBudget
  <2> QED BY <2>1, <2>5, <2>6, <2>9, <2>10 DEF DeliveryInv
<1>19. ASSUME NEW x \in Workers PROVE JobShape(x)'
  <2>1. CASE x = w
    BY <1>2, <1>7, <1>8, <1>9, <1>12, <1>14, <2>1 DEF JobShape
  <2>2. CASE x # w
    <3>1. JobShape(x) /\ job'[x] = job[x] /\ job[x].n \in Attempts \cup {NoAttempt}
      BY <1>14, <2>2 DEF LedgerInv, TypeOK
    <3>2. att[d][n].lease = NoLease
      BY <1>4, <1>15 DEF AttemptShape
    <3>3. job[x].pc = "dispatch" => ~ (job[x].d = d /\ job[x].n = n)
      BY <3>1, <3>2 DEF JobShape
    <3> QED BY <1>12, <3>1, <3>3 DEF JobShape
  <2> QED BY <2>1, <2>2
<1> QED BY <1>10, <1>17, <1>18, <1>19 DEF LedgerInv

\* What lease recovery makes of one expired delivery.
LEMMA RecoverGood ==
  ASSUME LedgerInv, NEW d \in Deliveries, Recovers(d),
         NEW as, as = [n \in Attempts |-> RecoverAttempt(d, n)]
  PROVE  /\ RecoverRow(d) \in Delivery /\ as \in [Attempts -> Attempt]
         /\ GoodRow(d, RecoverRow(d), as)
<1>1. /\ dlv[d] \in Delivery /\ att[d] \in [Attempts -> Attempt]
      /\ RowShape(dlv[d]) /\ AttemptShape(d) /\ ExposureKnown(d)
      /\ Evidence(d) /\ WithinBudget(d) /\ dlv[d].status = "sending"
  BY Parts DEF Recovers
<1>2. ASSUME NEW n \in Attempts
      PROVE  /\ as[n] \in Attempt /\ as[n].lease = att[d][n].lease
             /\ as[n].st = "none" <=> att[d][n].st = "none"
             /\ as[n].st = "accepted" => att[d][n].st = "accepted"
             /\ PreflightOnly(d) => as[n] = att[d][n]
  <2>1. att[d][n] \in Attempt /\ as[n] = RecoverAttempt(d, n)
    BY <1>1
  <2>2. CASE as[n] = att[d][n]
    BY <2>1, <2>2
  <2>3. CASE as[n] # att[d][n]
    <3>1. /\ as[n] = [att[d][n] EXCEPT !.st = "unknown"]
          /\ att[d][n].st # "none" /\ ~ PreflightOnly(d)
      BY <2>1, <2>3 DEF RecoverAttempt
    <3> QED BY <2>1, <3>1 DEF Attempt, AttemptStatuses
  <2> QED BY <2>2, <2>3
<1>3. as \in [Attempts -> Attempt]
  BY <1>2
<1>4. \A n \in Attempts :
        /\ as[n].lease = att[d][n].lease
        /\ as[n].st = "none" <=> att[d][n].st = "none"
        /\ as[n].st = "accepted" => ses[d][n] = "accepted"
  BY <1>1, <1>2 DEF AttemptShape
<1>5. Accepted(as) \subseteq Accepted(att[d])
  BY <1>2 DEF Accepted
<1>6. Duplicated(as) => dlv[d].dup
  BY <1>1, <1>5 DEF Duplicated, Evidence
<1>7. CASE PreflightOnly(d)
  <2> DEFINE q == Requeue(dlv[d])
             r == [q EXCEPT !.due = TRUE]
  <2>1. /\ q \in Delivery /\ q.status = "retrying" /\ q.origin = dlv[d].origin
        /\ q.phase = "none" /\ q.lease = NoLease /\ q.active = NoAttempt
        /\ q.count = dlv[d].count /\ q.dup = dlv[d].dup
    BY <1>1, RequeueFacts
  <2>2. RecoverRow(d) = r
    BY <1>7 DEF RecoverRow
  <2>3. dlv[d].phase = "preflight"
    BY <1>7 DEF PreflightOnly
  <2> HIDE DEF q
  <2>4. /\ r \in Delivery /\ r.status = "retrying" /\ r.origin = dlv[d].origin
        /\ r.phase = "none" /\ r.lease = NoLease /\ r.active = NoAttempt
        /\ r.count = dlv[d].count /\ r.dup = dlv[d].dup
    BY <2>1 DEF Delivery
  <2> HIDE DEF r
  <2>5. RowShape(r)
    BY <1>1, <2>3, <2>4 DEF RowShape
  <2>6. \A n \in Attempts : Exposed(d, n) =>
          r.origin = "unknown" /\ n <= acked[d]
    BY <1>1, <2>3, <2>4 DEF ExposureKnown
  <2>7. r.origin = "none" => r.count < MaxAttempts
    BY <1>1, <2>3, <2>4 DEF WithinBudget
  <2>8. GoodRow(d, r, as)
    BY <1>4, <1>6, <2>4, <2>5, <2>6, <2>7 DEF GoodRow
  <2> QED BY <1>3, <2>2, <2>4, <2>8
<1>8. CASE ~ PreflightOnly(d)
  <2> DEFINE q == Settle(dlv[d], "unknown")
             r == [q EXCEPT !.fatal = FALSE]
  <2>1. Rests(d, q, "unknown") /\ q.dup = dlv[d].dup
    BY <1>1, SettleFacts DEF Rests, Statuses
  <2>2. RecoverRow(d) = r
    BY <1>8 DEF RecoverRow
  <2> HIDE DEF q
  <2>3. Rests(d, r, "unknown") /\ r.dup = dlv[d].dup
    BY <2>1 DEF Rests, Delivery
  <2> HIDE DEF r
  <2>4. GoodRow(d, r, as)
    BY <1>1, <1>4, <1>6, <2>3, RestGood
  <2> QED BY <1>3, <2>2, <2>3, <2>4 DEF Rests
<1> QED BY <1>7, <1>8

LEMMA KeepStartPass ==
  ASSUME LedgerInv, NEW w \in Workers, StartPass(w) PROVE LedgerInv'
<1>1. /\ job' = [job EXCEPT ![w].pc = "scan"] /\ ses' = ses /\ acked' = acked
      /\ dlv' = [d \in Deliveries |->
                   IF Recovers(d) THEN RecoverRow(d) ELSE dlv[d]]
      /\ att' = [d \in Deliveries |->
                   [n \in Attempts |-> IF Recovers(d) THEN RecoverAttempt(d, n)
                                                      ELSE att[d][n]]]
  BY DEF StartPass
<1>2. JobStep
  BY <1>1 DEF LedgerInv, TypeOK, JobStep, Job
<1>3. ASSUME NEW d \in Deliveries
      PROVE  /\ dlv'[d] \in Delivery /\ att'[d] \in [Attempts -> Attempt]
             /\ \A n \in Attempts : att'[d][n].lease = att[d][n].lease
             /\ DeliveryInv(d)'
  <2>0. /\ dlv[d] \in Delivery /\ att[d] \in [Attempts -> Attempt]
        /\ AttemptShape(d) /\ DeliveryInv(d)
    BY Parts DEF LedgerInv
  <2>1. CASE ~ Recovers(d)
    <3>1. dlv'[d] = dlv[d] /\ att'[d] = att[d]
      BY <1>1, <2>0, <2>1
    <3> QED BY <1>1, <2>0, <3>1, SameRow
  <2>2. CASE Recovers(d)
    <3> DEFINE as == [n \in Attempts |-> RecoverAttempt(d, n)]
               r == RecoverRow(d)
    <3>1. dlv'[d] = r /\ att'[d] = as
      BY <1>1, <2>2
    <3>2. /\ r \in Delivery /\ as \in [Attempts -> Attempt]
          /\ GoodRow(d, r, as)
      BY <2>2, RecoverGood
    <3> HIDE DEF as, r
    <3>3. \A n \in Attempts : as[n].lease = att[d][n].lease
      BY <3>2 DEF GoodRow
    <3>4. DeliveryInv(d)'
      BY <1>1, <2>0, <3>1, <3>2, NewRow
    <3> QED BY <3>1, <3>2, <3>3, <3>4
  <2> QED BY <2>1, <2>2
<1>4. TypeOK'
  <2>1. dlv' \in [Deliveries -> Delivery]
    BY <1>1, <1>3
  <2>2. att' \in [Deliveries -> [Attempts -> Attempt]]
    BY <1>1, <1>3
  <2> QED BY <1>1, <1>2, <2>1, <2>2 DEF LedgerInv, TypeOK, JobStep, Job
<1>5. ASSUME NEW x \in Workers PROVE JobShape(x)'
  BY <1>2, <1>3, JobsKept DEF LedgerInv
<1> QED BY <1>3, <1>4, <1>5 DEF LedgerInv

-----------------------------------------------------------------------------
(* The theorems                                                            *)

\* The initial ledger is empty and every pass is idle.
LEMMA InitInv == Init => LedgerInv
<1> SUFFICES ASSUME Init PROVE LedgerInv
  OBVIOUS
<1>1. AttemptBound \in Nat /\ MaxAttempts \in Nat /\ 0 < MaxAttempts
      /\ 0 < AttemptBound
  BY BoundsAssumption
<1>2. TypeOK
  <2>1. dlv \in [Deliveries -> Delivery]
    BY DEF Init, Delivery, Statuses, NoLease, NoAttempt
  <2>2. att \in [Deliveries -> [Attempts -> Attempt]]
    BY DEF Init, Attempt, AttemptStatuses, NoLease
  <2>3. /\ ses \in [Deliveries -> [Attempts ->
                      {"none", "inflight", "accepted", "rejected"}]]
        /\ acked \in [Deliveries -> Attempts \cup {0}]
    BY DEF Init
  <2>4. job \in [Workers -> Job]
    BY DEF Init, IdleJob, Job
  <2> QED BY <2>1, <2>2, <2>3, <2>4 DEF TypeOK, Job
<1>3. ASSUME NEW d \in Deliveries PROVE DeliveryInv(d)
  <2>1. RowShape(dlv[d]) /\ WithinBudget(d)
    BY <1>1 DEF Init, RowShape, WithinBudget, NoLease, NoAttempt
  <2>2. AttemptShape(d)
    BY <1>1 DEF Init, AttemptShape, NoLease, Attempts
  <2>3. ExposureKnown(d)
    BY DEF Init, ExposureKnown, Exposed
  <2>4. Accepted(att[d]) = {}
    BY DEF Init, Accepted
  <2>5. Evidence(d)
    BY <2>4 DEF Init, Evidence, Duplicated
  <2> QED BY <2>1, <2>2, <2>3, <2>5 DEF DeliveryInv
<1>4. ASSUME NEW w \in Workers PROVE JobShape(w)
  BY DEF Init, IdleJob, JobShape
<1> QED BY <1>2, <1>3, <1>4 DEF LedgerInv

\* Stuttering keeps the invariant.
LEMMA StutterInv == LedgerInv /\ UNCHANGED vars => LedgerInv'
<1> SUFFICES ASSUME LedgerInv, UNCHANGED vars PROVE LedgerInv'
  OBVIOUS
<1>1. UNCHANGED <<dlv, att, ses, acked>> /\ JobStep
  BY IdleStep DEF vars, LedgerInv
<1> QED BY <1>1, JobOnlyStep

\* Every action keeps the invariant.
LEMMA NextInv == LedgerInv /\ Next => LedgerInv'
<1> SUFFICES ASSUME LedgerInv, Next PROVE LedgerInv'
  OBVIOUS
<1>1. ASSUME NEW d \in Deliveries, Environment(d) PROVE LedgerInv'
  BY <1>1, KeepBecomeDue, KeepLeaseExpires, KeepSesDecides, KeepSesEvent
     DEF Environment
<1>2. ASSUME NEW d \in Deliveries, Command(d) PROVE LedgerInv'
  BY <1>2, KeepEnqueue, KeepCancel, KeepRetryFailed, KeepRetryUnknown
     DEF Command
<1>3. ASSUME NEW w \in Workers, Pass(w) PROVE LedgerInv'
  <2>1. CASE StartPass(w)
    BY <2>1, KeepStartPass
  <2>2. ASSUME NEW d \in Deliveries,
               \/ RepairFromLedger(w, d)
               \/ ClaimUnusable(w, d)
               \/ ClaimNextForPreflight(w, d)
        PROVE  LedgerInv'
    BY <2>2, KeepRepair, KeepClaimUnusable, KeepClaim
  <2>3. CASE EndPass(w) \/ PreflightLeaseLost(w) \/ LateOutcomeDropped(w)
    BY <2>3, KeepJobOnly
  <2>4. CASE DeferPreflight(w) \/ \E fatal \in BOOLEAN : FailPreflight(w, fatal)
    BY <2>4, KeepDeferPreflight, KeepFailPreflight
  <2>5. CASE BeginProviderAttempt(w)
    BY <2>5, KeepBegin
  <2>6. CASE \/ FinalizeAccepted(w) \/ FinalizeRetryableFailure(w)
             \/ FinalizeDefinitiveFailure(w) \/ FinalizeUnknown(w)
    BY <2>6, KeepFinalizeAccepted, KeepFinalizeRetryableFailure,
       KeepFinalizeDefinitiveFailure, KeepFinalizeUnknown
  <2>7. CASE RecordConcurrentAccepted(w)
    BY <2>7, KeepRecordConcurrentAccepted
  <2>8. CASE \E kind \in {"unknown", "rejected"},
                st \in {"unknown", "rejected_retryable", "rejected_permanent"} :
               RecordConcurrentNonAccepted(w, kind, st)
    BY <2>8, KeepRecordConcurrentNonAccepted
  <2> QED BY <1>3, <2>1, <2>2, <2>3, <2>4, <2>5, <2>6, <2>7, <2>8 DEF Pass
<1>4. ASSUME NEW w \in Workers, Crash(w) PROVE LedgerInv'
  BY <1>4, KeepJobOnly
<1> QED BY <1>1, <1>2, <1>3, <1>4 DEF Next

\* The ledger invariant holds in every reachable state, for any number of
\* deliveries, overlapping alarm passes, recipients and attempts.
THEOREM LedgerInvariant == Spec => []LedgerInv
<1>1. LedgerInv /\ [Next]_vars => LedgerInv'
  BY NextInv, StutterInv
<1> QED BY <1>1, InitInv, PTL DEF Spec

\* Every variable of the ledger keeps its type.
THEOREM TypeCorrect == Spec => []TypeOK
<1>1. LedgerInv => TypeOK
  BY DEF LedgerInv
<1> QED BY <1>1, LedgerInvariant, PTL

\* A delivery reported as failed or cancelled has no request that SES
\* accepted or may still accept.
THEOREM FailureIsTruthful == Spec => []NoFalseFailure
<1>1. LedgerInv => NoFalseFailure
  <2> SUFFICES ASSUME LedgerInv, NEW d \in Deliveries,
                      dlv[d].status \in {"failed", "cancelled"},
                      NEW n \in Attempts, Exposed(d, n)
               PROVE  FALSE
    BY DEF NoFalseFailure
  <2> QED BY Parts DEF ExposureKnown, RowShape
<1> QED BY <1>1, LedgerInvariant, PTL

\* A delivery reported as sent or bounced was accepted by SES.
THEOREM SuccessIsTruthful == Spec => []NoFalseSuccess
<1>1. LedgerInv => NoFalseSuccess
  <2> SUFFICES ASSUME LedgerInv, NEW d \in Deliveries,
                      dlv[d].status \in {"sent", "bounced"}
               PROVE  \E n \in Attempts : ses[d][n] = "accepted"
    BY DEF NoFalseSuccess
  <2>1. Accepted(att[d]) # {} /\ AttemptShape(d)
    BY Parts DEF Evidence
  <2>2. PICK n \in Attempts : att[d][n].st = "accepted"
    BY <2>1 DEF Accepted
  <2> QED BY <2>1, <2>2 DEF AttemptShape
<1> QED BY <1>1, LedgerInvariant, PTL

\* Two attempts known to be accepted always carry the duplicate mark.
THEOREM DuplicatesAreFlagged == Spec => []DuplicateIsFlagged
<1>1. LedgerInv => DuplicateIsFlagged
  BY Parts DEF DuplicateIsFlagged, Evidence
<1> QED BY <1>1, LedgerInvariant, PTL

-----------------------------------------------------------------------------
(* Provider requests begin in BeginProviderAttempt only                    *)

CountsKept == \A e \in Deliveries : dlv'[e].count = dlv[e].count

\* Rewriting one row without touching its attempt count.
LEMMA CountRow ==
  ASSUME LedgerInv, NEW d \in Deliveries, NEW r,
         dlv' = [dlv EXCEPT ![d] = r], r.count = dlv[d].count
  PROVE  CountsKept
  BY DEF LedgerInv, TypeOK, CountsKept

\* The row helpers keep the attempt count, of any old row.
LEMMA HelperCounts ==
  ASSUME NEW r \in Delivery
  PROVE  /\ \A s \in Statuses : Settle(r, s).count = r.count
         /\ \A s \in Statuses : [Settle(r, s) EXCEPT !.fatal = FALSE].count = r.count
         /\ Requeue(r).count = r.count
         /\ \A f \in BOOLEAN : Fail(r, f).count = r.count
  <1>1. \A s \in Statuses : Settle(r, s).count = r.count
    BY SettleFacts
  <1>2. ASSUME NEW s \in Statuses
        PROVE  [Settle(r, s) EXCEPT !.fatal = FALSE].count = r.count
    <2> DEFINE q == Settle(r, s)
    <2>1. q \in Delivery /\ q.count = r.count
      BY SettleFacts
    <2> HIDE DEF q
    <2>2. [q EXCEPT !.fatal = FALSE].count = r.count
      BY <2>1 DEF Delivery
    <2> QED BY <2>2 DEF q
  <1>3. Requeue(r).count = r.count
    BY RequeueFacts
  <1>4. \A f \in BOOLEAN : Fail(r, f).count = r.count
    BY FailFacts
  <1> QED BY <1>1, <1>2, <1>3, <1>4

\* Commands, events and the clock begin no request.
LEMMA OutsideKeepsCounts ==
  ASSUME LedgerInv, NEW d \in Deliveries, Environment(d) \/ Command(d)
  PROVE  CountsKept
<1>0. dlv[d] \in Delivery
  BY Parts
<1>1. CASE \/ BecomeDue(d) \/ LeaseExpires(d) \/ Enqueue(d)
           \/ RetryFailed(d) \/ RetryUnknown(d)
  <2>1. PICK r : dlv' = [dlv EXCEPT ![d] = r] /\ r.count = dlv[d].count
    <3>1. CASE BecomeDue(d)
      <4> DEFINE r == [dlv[d] EXCEPT !.due = TRUE]
      <4>1. dlv' = [dlv EXCEPT ![d] = r] /\ r.count = dlv[d].count
        BY <1>0, <3>1 DEF BecomeDue, Delivery
      <4> QED BY <4>1
    <3>2. CASE LeaseExpires(d)
      <4> DEFINE r == [dlv[d] EXCEPT !.expired = TRUE]
      <4>1. dlv' = [dlv EXCEPT ![d] = r] /\ r.count = dlv[d].count
        BY <1>0, <3>2 DEF LeaseExpires, Delivery
      <4> QED BY <4>1
    <3>3. CASE Enqueue(d)
      <4> DEFINE r == [dlv[d] EXCEPT !.status = "queued"]
      <4>1. dlv' = [dlv EXCEPT ![d] = r] /\ r.count = dlv[d].count
        BY <1>0, <3>3 DEF Enqueue, Delivery
      <4> QED BY <4>1
    <3>4. CASE RetryFailed(d)
      <4> DEFINE r == [dlv[d] EXCEPT !.status = "queued", !.origin = "failed",
                                     !.due = TRUE]
      <4>1. dlv' = [dlv EXCEPT ![d] = r] /\ r.count = dlv[d].count
        BY <1>0, <3>4 DEF RetryFailed, Delivery
      <4> QED BY <4>1
    <3>5. CASE RetryUnknown(d)
      <4> DEFINE r == [dlv[d] EXCEPT !.status = "queued", !.origin = "unknown",
                                     !.due = TRUE, !.fatal = FALSE]
      <4>1. dlv' = [dlv EXCEPT ![d] = r] /\ r.count = dlv[d].count
        BY <1>0, <3>5 DEF RetryUnknown, Delivery
      <4> QED BY <4>1
    <3> QED BY <1>1, <3>1, <3>2, <3>3, <3>4, <3>5
  <2> QED BY <2>1, CountRow
<1>2. CASE Cancel(d)
  <2> DEFINE r == IF dlv[d].origin # "none"
                    THEN [Settle(dlv[d], dlv[d].origin) EXCEPT !.fatal = FALSE]
                    ELSE [dlv[d] EXCEPT !.status = "cancelled", !.due = TRUE]
  <2>1. dlv' = [dlv EXCEPT ![d] = r]
    BY <1>2 DEF Cancel
  <2>2. CASE dlv[d].origin # "none"
    <3>1. dlv[d].origin \in Statuses
      BY <1>0, <2>2 DEF Delivery, Statuses
    <3>2. r.count = dlv[d].count
      BY <1>0, <2>2, <3>1, HelperCounts
    <3> QED BY <2>1, <3>2, CountRow
  <2>3. CASE dlv[d].origin = "none"
    <3>1. r.count = dlv[d].count
      BY <1>0, <2>3 DEF Delivery
    <3> QED BY <2>1, <3>1, CountRow
  <2> QED BY <2>2, <2>3
<1>3. CASE \E n \in Attempts, v \in {"accepted", "rejected"} : SesDecides(d, n, v)
  BY <1>3 DEF SesDecides, CountsKept
<1>4. ASSUME NEW n \in Attempts, NEW e \in Events,
             RecordSesProviderEvent(d, n, e)
      PROVE  CountsKept
  <2> DEFINE as == [att[d] EXCEPT ![n].st = "accepted", ![n].ev = @ \cup {e}]
             s == AggregateTruth(as)
             r == Accept(dlv[d], as, s)
  <2>1. dlv' = [dlv EXCEPT ![d] = r]
    BY <1>4 DEF RecordSesProviderEvent
  <2> HIDE DEF as
  <2>2. s \in Statuses
    BY AggregateFacts DEF Statuses
  <2> HIDE DEF s
  <2>3. r.count = dlv[d].count
    BY <1>0, <2>2, AcceptRests DEF Rests
  <2> QED BY <2>1, <2>3, CountRow
<1> QED BY <1>1, <1>2, <1>3, <1>4 DEF Environment, Command

\* In a pass, only BeginProviderAttempt begins a request.
LEMMA PassKeepsCounts ==
  ASSUME LedgerInv, NEW w \in Workers, Pass(w) \/ Crash(w),
         ~ BeginProviderAttempt(w)
  PROVE  CountsKept
<1>1. CASE StartPass(w)
  <2>1. ASSUME NEW d \in Deliveries PROVE dlv'[d].count = dlv[d].count
    <3>1. CASE Recovers(d)
      <4>1. dlv'[d] = RecoverRow(d)
        BY <1>1, <3>1 DEF StartPass
      <4>2. RecoverRow(d).count = dlv[d].count
        BY <3>1, RecoverGood DEF GoodRow
      <4> QED BY <4>1, <4>2
    <3>2. CASE ~ Recovers(d)
      BY <1>1, <3>2 DEF StartPass
    <3> QED BY <3>1, <3>2
  <2> QED BY <2>1 DEF CountsKept
<1>2. ASSUME NEW d \in Deliveries, RepairFromLedger(w, d) PROVE CountsKept
  <2> DEFINE s == RepairedTruth(att[d])
             q == Accept(dlv[d], att[d], s)
             r == [q EXCEPT !.dup = Duplicated(att[d])]
  <2>1. dlv' = [dlv EXCEPT ![d] = r] /\ dlv[d] \in Delivery
    BY <1>2, Parts DEF RepairFromLedger
  <2>2. s \in Statuses
    BY AggregateFacts DEF Statuses
  <2> HIDE DEF s
  <2>3. q \in Delivery /\ q.count = dlv[d].count
    BY <2>1, <2>2, AcceptRests DEF Rests
  <2> HIDE DEF q
  <2>4. r.count = dlv[d].count
    BY <2>3 DEF Delivery
  <2> QED BY <2>1, <2>4, CountRow
<1>3. ASSUME NEW d \in Deliveries, ClaimUnusable(w, d) PROVE CountsKept
  <2>1. /\ dlv' = [dlv EXCEPT ![d] = Fail(dlv[d], TRUE)]
        /\ Fail(dlv[d], TRUE).count = dlv[d].count
    BY <1>3, Parts, HelperCounts DEF ClaimUnusable
  <2> QED BY <2>1, CountRow
<1>4. ASSUME NEW d \in Deliveries, ClaimNextForPreflight(w, d) PROVE CountsKept
  <2> DEFINE t == CHOOSE u \in Leases : Fresh(u)
             r == [dlv[d] EXCEPT !.status = "sending", !.phase = "preflight",
                                 !.active = NoAttempt, !.due = FALSE,
                                 !.lease = t, !.expired = FALSE]
  <2>1. dlv' = [dlv EXCEPT ![d] = r]
    BY <1>4 DEF ClaimNextForPreflight
  <2> HIDE DEF t
  <2>2. r.count = dlv[d].count
    BY Parts DEF Delivery
  <2> QED BY <2>1, <2>2, CountRow
<1>5. CASE \/ EndPass(w) \/ PreflightLeaseLost(w) \/ LateOutcomeDropped(w)
           \/ Crash(w)
  BY <1>5 DEF EndPass, PreflightLeaseLost, LateOutcomeDropped, Crash, CountsKept
<1>6. CASE DeferPreflight(w) \/ \E fatal \in BOOLEAN : FailPreflight(w, fatal)
  <2>1. job[w].d \in Deliveries /\ dlv[job[w].d] \in Delivery
    BY <1>6, Parts DEF DeferPreflight, FailPreflight, LedgerInv, JobShape
  <2>2. PICK r : dlv' = [dlv EXCEPT ![job[w].d] = r]
                 /\ r.count = dlv[job[w].d].count
    BY <1>6, <2>1, HelperCounts DEF DeferPreflight, FailPreflight
  <2> QED BY <2>1, <2>2, CountRow
<1>7. CASE \/ FinalizeAccepted(w) \/ FinalizeRetryableFailure(w)
           \/ FinalizeDefinitiveFailure(w) \/ FinalizeUnknown(w)
  <2>1. job[w].d \in Deliveries /\ dlv[job[w].d] \in Delivery
    <3>1. job[w].pc = "dispatch"
      BY <1>7 DEF FinalizeAccepted, FinalizeRetryableFailure,
                  FinalizeDefinitiveFailure, FinalizeUnknown, Observes
    <3> QED BY <3>1, Parts DEF LedgerInv, JobShape
  <2>2. {"sent", "unknown"} \subseteq Statuses
    BY DEF Statuses
  <2>3. PICK r : dlv' = [dlv EXCEPT ![job[w].d] = r]
                 /\ r.count = dlv[job[w].d].count
    <3>0. \A s \in Statuses :
            [Settle(dlv[job[w].d], s) EXCEPT !.fatal = FALSE].count
              = dlv[job[w].d].count
      BY <2>1, HelperCounts
    <3>1. CASE FinalizeAccepted(w)
      <4> DEFINE r == [Settle(dlv[job[w].d], "sent") EXCEPT !.fatal = FALSE]
      <4>1. dlv' = [dlv EXCEPT ![job[w].d] = r]
        BY <3>1 DEF FinalizeAccepted, Finalize
      <4>2. r.count = dlv[job[w].d].count
        BY <2>2, <3>0
      <4> QED BY <4>1, <4>2
    <3>2. CASE FinalizeUnknown(w)
      <4> DEFINE r == [Settle(dlv[job[w].d], "unknown") EXCEPT !.fatal = FALSE]
      <4>1. dlv' = [dlv EXCEPT ![job[w].d] = r]
        BY <3>2 DEF FinalizeUnknown, Finalize
      <4>2. r.count = dlv[job[w].d].count
        BY <2>2, <3>0
      <4> QED BY <4>1, <4>2
    <3>3. CASE FinalizeDefinitiveFailure(w)
      BY <2>1, <3>3, HelperCounts DEF FinalizeDefinitiveFailure, Finalize
    <3>4. CASE FinalizeRetryableFailure(w)
      BY <2>1, <3>4, HelperCounts DEF FinalizeRetryableFailure, Finalize
    <3> QED BY <1>7, <3>1, <3>2, <3>3, <3>4
  <2> QED BY <2>1, <2>3, CountRow
<1>8. CASE RecordConcurrentAccepted(w)
  <2> DEFINE d == job[w].d
             as == [att[d] EXCEPT ![job[w].n].st = "accepted"]
             s == AggregateTruth(as)
             r == Accept(dlv[d], as, s)
  <2>1. /\ d \in Deliveries /\ dlv[d] \in Delivery
        /\ dlv' = [dlv EXCEPT ![d] = r]
    BY <1>8, Parts DEF RecordConcurrentAccepted, Observes, LedgerInv, JobShape
  <2> HIDE DEF as, d
  <2>2. s \in Statuses
    BY AggregateFacts DEF Statuses
  <2> HIDE DEF s
  <2>3. r.count = dlv[d].count
    BY <2>1, <2>2, AcceptRests DEF Rests
  <2> QED BY <2>1, <2>3, CountRow
<1>9. ASSUME NEW kind \in {"unknown", "rejected"},
             NEW st \in {"unknown", "rejected_retryable", "rejected_permanent"},
             RecordConcurrentNonAccepted(w, kind, st)
      PROVE  CountsKept
  <2> DEFINE d == job[w].d
             as == [att[d] EXCEPT ![job[w].n].st = st]
             s == LateStatus(dlv[d], as, kind)
             r == [Settle(dlv[d], s) EXCEPT !.fatal = FALSE]
  <2>1. /\ d \in Deliveries /\ dlv[d] \in Delivery
        /\ dlv' = [dlv EXCEPT ![d] = r]
        /\ dlv[d].status \in {"sent", "bounced", "unknown"}
    BY <1>9, Parts DEF RecordConcurrentNonAccepted, Observes, LateOutcome,
                       LedgerInv, JobShape
  <2> HIDE DEF as, d
  <2>2. s \in {"sent", "bounced", "unknown"}
    BY <2>1, Zenon DEF LateStatus
  <2> HIDE DEF s
  <2>3. s \in Statuses
    BY <2>2 DEF Statuses
  <2>4. r.count = dlv[d].count
    BY <2>1, <2>3, HelperCounts
  <2> QED BY <2>1, <2>4, CountRow
<1> QED BY <1>1, <1>2, <1>3, <1>4, <1>5, <1>6, <1>7, <1>8, <1>9 DEF Pass

\* Where a request begins, every request that may have been accepted was
\* acknowledged, and the budget is spent only at a person's request.
LEMMA BeginIsAllowed ==
  ASSUME LedgerInv, NEW w \in Workers, BeginProviderAttempt(w),
         NEW d \in Deliveries, dlv'[d].count > dlv[d].count
  PROVE  /\ \A n \in Attempts : Exposed(d, n) => n <= acked[d]
         /\ dlv[d].count >= MaxAttempts => dlv[d].origin # "none"
<1>1. job[w].d \in Deliveries /\ dlv[job[w].d].phase = "preflight"
      /\ dlv[job[w].d].status = "sending"
  BY DEF BeginProviderAttempt, HoldsPreflight, LedgerInv, JobShape
<1>2. CASE d # job[w].d
  <2>1. dlv'[d] = dlv[d] /\ dlv[d].count \in Nat
    BY <1>1, <1>2, Parts DEF BeginProviderAttempt, LedgerInv, TypeOK, Delivery,
                             Attempts
  <2> QED BY <2>1
<1>3. CASE d = job[w].d
  <2>1. /\ ExposureKnown(d) /\ WithinBudget(d) /\ dlv[d].phase = "preflight"
        /\ dlv[d].status = "sending" /\ dlv[d].count \in Nat
    BY <1>1, <1>3, Parts DEF Delivery, Attempts
  <2>2. dlv[d].count >= MaxAttempts => dlv[d].origin # "none"
    BY <2>1, BoundsAssumption DEF WithinBudget
  <2> QED BY <2>1, <2>2 DEF ExposureKnown
<1> QED BY <1>2, <1>3

\* What every step of the specification may do to the attempt counts.
LEMMA CountStep ==
  ASSUME LedgerInv, [Next]_vars, NEW d \in Deliveries,
         dlv'[d].count > dlv[d].count
  PROVE  /\ \A n \in Attempts : Exposed(d, n) => n <= acked[d]
         /\ dlv[d].count >= MaxAttempts => dlv[d].origin # "none"
<1>1. dlv[d].count \in Nat
  BY Parts DEF Delivery, Attempts
<1>2. ~ CountsKept
  BY <1>1 DEF CountsKept
<1>3. dlv' # dlv
  BY <1>1
<1>4. PICK w \in Workers : BeginProviderAttempt(w)
  BY <1>2, <1>3, OutsideKeepsCounts, PassKeepsCounts DEF Next, vars
<1> QED BY <1>4, BeginIsAllowed

\* Lease expiry, lost answers, evictions and automatic retries never make a
\* second copy possible without the user's acknowledgement.
THEOREM NoUnacknowledgedDuplicate == Spec => NoSilentDuplicate
<1>1. LedgerInv /\ [Next]_vars =>
        [\A d \in Deliveries : dlv'[d].count > dlv[d].count =>
           \A n \in Attempts : Exposed(d, n) => n <= acked[d]]_vars
  BY CountStep
<1> QED BY <1>1, LedgerInvariant, PTL DEF Spec, NoSilentDuplicate

\* Past the budget, only a retry a person asked for begins a request.
THEOREM BudgetIsKept == Spec => AutomaticRetriesBounded
<1>1. LedgerInv /\ [Next]_vars =>
        [\A d \in Deliveries :
           dlv'[d].count > dlv[d].count /\ dlv[d].count >= MaxAttempts =>
             dlv[d].origin # "none"]_vars
  BY CountStep
<1> QED BY <1>1, LedgerInvariant, PTL DEF Spec, AutomaticRetriesBounded

-----------------------------------------------------------------------------
(***************************************************************************)
(* The delivery ledger implements TruthfulDelivery.                        *)
(*                                                                         *)
(* A step that makes no request, is no decision of the provider and no     *)
(* consent only changes words.  What the ledger invariant says of the next *)
(* state makes the new word true (NewWordIsTrue); what is left to show per *)
(* action is that the word may change as it does (WordStep).               *)
(***************************************************************************)

Said(d) == Word(dlv[d].status)

\* The words that may follow each other with the requests as they are.
Follows(old, new) ==
  \/ new = old
  \/ new \in {"sent", "bounced"}
  \/ old = "open" /\ new \in {"failed", "cancelled"}
  \/ old \in {"open", "sent", "bounced"} /\ new = "unknown"
  \/ old \in {"absent", "failed"} /\ new = "open"

\* Only words change.
WordStep(d) ==
  /\ ses'[d] = ses[d] /\ acked'[d] = acked[d]
  /\ Follows(Said(d), Said(d)')

-----------------------------------------------------------------------------
(* Rows and words                                                          *)

\* A delivery with an accepted attempt is not called absent, failed or
\* cancelled.
LEMMA AcceptedWord ==
  ASSUME LedgerInv, NEW d \in Deliveries, NEW n \in Attempts,
         ses[d][n] = "accepted"
  PROVE  Said(d) \in {"open", "sent", "bounced", "unknown"}
<1>1. /\ dlv[d] \in Delivery /\ RowShape(dlv[d]) /\ AttemptShape(d)
      /\ ExposureKnown(d)
  BY Parts
<1>2. dlv[d].status # "absent"
  BY <1>1 DEF RowShape, AttemptShape, Attempts
<1>3. dlv[d].status \notin {"failed", "cancelled"}
  BY <1>1 DEF ExposureKnown, Exposed, RowShape
<1> QED BY <1>1, <1>2, <1>3 DEF Said, Word, Delivery, Statuses

\* A step that rewrites one row and makes no request.
LEMMA OneRow ==
  ASSUME LedgerInv, NEW d \in Deliveries, NEW r,
         dlv' = [dlv EXCEPT ![d] = r], UNCHANGED <<ses, acked>>,
         Follows(Said(d), Word(r.status))
  PROVE  \A e \in Deliveries : WordStep(e)
<1> SUFFICES ASSUME NEW e \in Deliveries PROVE WordStep(e)
  OBVIOUS
<1>1. dlv'[e] = IF e = d THEN r ELSE dlv[e]
  BY DEF LedgerInv, TypeOK
<1> QED BY <1>1 DEF WordStep, Said, Follows

\* A step that rewrites no row.
LEMMA NoRow ==
  ASSUME UNCHANGED <<dlv, ses, acked>>, NEW e \in Deliveries
  PROVE  WordStep(e)
  BY DEF WordStep, Said, Follows

\* What is accepted has the status that was made of it.
LEMMA AcceptStatus ==
  ASSUME NEW r \in Delivery, NEW as, NEW s, s \in {"sent", "bounced", "unknown"}
  PROVE  Accept(r, as, s) \in Delivery /\ Accept(r, as, s).status = s
<1>1. s \in Statuses
  BY DEF Statuses
<1> QED BY <1>1, AcceptFacts

\* An acceptance may be called what the ledger makes of it.
LEMMA AcceptWord ==
  ASSUME LedgerInv, NEW d \in Deliveries, NEW n \in Attempts,
         ses[d][n] = "accepted", NEW s \in {"sent", "bounced", "unknown"}
  PROVE  Follows(Said(d), Word(s))
<1>1. Said(d) \in {"open", "sent", "bounced", "unknown"} /\ Word(s) = s
  BY AcceptedWord DEF Word
<1> QED BY <1>1 DEF Follows

-----------------------------------------------------------------------------
(* One lemma per kind of step                                              *)

\* Enqueue, Cancel, RetryFailed and the clock.
LEMMA CommandWord ==
  ASSUME LedgerInv, NEW d \in Deliveries,
         \/ BecomeDue(d) \/ LeaseExpires(d) \/ Enqueue(d)
         \/ Cancel(d) \/ RetryFailed(d)
  PROVE  \A e \in Deliveries : WordStep(e)
<1>0. dlv[d] \in Delivery
  BY Parts
<1>1. CASE BecomeDue(d) \/ LeaseExpires(d)
  <2>1. PICK r : dlv' = [dlv EXCEPT ![d] = r] /\ r.status = dlv[d].status
    <3>1. CASE BecomeDue(d)
      <4> DEFINE r == [dlv[d] EXCEPT !.due = TRUE]
      <4>1. dlv' = [dlv EXCEPT ![d] = r] /\ r.status = dlv[d].status
        BY <1>0, <3>1 DEF BecomeDue, Delivery
      <4> QED BY <4>1
    <3>2. CASE LeaseExpires(d)
      <4> DEFINE r == [dlv[d] EXCEPT !.expired = TRUE]
      <4>1. dlv' = [dlv EXCEPT ![d] = r] /\ r.status = dlv[d].status
        BY <1>0, <3>2 DEF LeaseExpires, Delivery
      <4> QED BY <4>1
    <3> QED BY <1>1, <3>1, <3>2
  <2>2. UNCHANGED <<ses, acked>>
    BY <1>1 DEF BecomeDue, LeaseExpires
  <2> QED BY <2>1, <2>2, OneRow DEF Follows, Said
<1>2. CASE Enqueue(d)
  <2> DEFINE r == [dlv[d] EXCEPT !.status = "queued"]
  <2>1. /\ dlv' = [dlv EXCEPT ![d] = r] /\ r.status = "queued"
        /\ dlv[d].status = "absent" /\ UNCHANGED <<ses, acked>>
    BY <1>0, <1>2 DEF Enqueue, Delivery
  <2> HIDE DEF r
  <2> QED BY <2>1, OneRow DEF Follows, Said, Word
<1>3. CASE RetryFailed(d)
  <2> DEFINE r == [dlv[d] EXCEPT !.status = "queued", !.origin = "failed",
                                 !.due = TRUE]
  <2>1. /\ dlv' = [dlv EXCEPT ![d] = r] /\ r.status = "queued"
        /\ dlv[d].status = "failed" /\ UNCHANGED <<ses, acked>>
    BY <1>0, <1>3 DEF RetryFailed, Delivery
  <2> HIDE DEF r
  <2> QED BY <2>1, OneRow DEF Follows, Said, Word
<1>4. CASE Cancel(d)
  <2> DEFINE q == Settle(dlv[d], dlv[d].origin)
             r == IF dlv[d].origin # "none"
                    THEN [q EXCEPT !.fatal = FALSE]
                    ELSE [dlv[d] EXCEPT !.status = "cancelled", !.due = TRUE]
  <2>1. /\ dlv' = [dlv EXCEPT ![d] = r] /\ UNCHANGED <<ses, acked>>
        /\ Said(d) = "open"
    BY <1>4 DEF Cancel, Said, Word
  <2>2. r.status \in {"failed", "unknown", "cancelled"}
    <3>1. CASE dlv[d].origin # "none"
      <4>1. dlv[d].origin \in {"failed", "unknown"} /\ dlv[d].origin \in Statuses
        BY <1>0, <3>1 DEF Delivery, Statuses
      <4>2. q \in Delivery /\ q.status = dlv[d].origin
        BY <1>0, <4>1, SettleFacts
      <4> HIDE DEF q
      <4>3. [q EXCEPT !.fatal = FALSE].status = q.status
        BY <4>2 DEF Delivery
      <4> QED BY <3>1, <4>1, <4>2, <4>3
    <3>2. CASE dlv[d].origin = "none"
      BY <1>0, <3>2 DEF Delivery
    <3> QED BY <3>1, <3>2
  <2> HIDE DEF r
  <2>3. Word(r.status) \in {"failed", "unknown", "cancelled"}
    BY <2>2 DEF Word
  <2>4. Follows(Said(d), Word(r.status))
    BY <2>1, <2>3 DEF Follows
  <2> QED BY <2>1, <2>4, OneRow
<1> QED BY <1>1, <1>2, <1>3, <1>4

\* An event of the provider, for any delivery it ever accepted.
LEMMA EventWord ==
  ASSUME LedgerInv, NEW d \in Deliveries, NEW n \in Attempts, NEW e \in Events,
         RecordSesProviderEvent(d, n, e)
  PROVE  \A f \in Deliveries : WordStep(f)
<1> DEFINE as == [att[d] EXCEPT ![n].st = "accepted", ![n].ev = @ \cup {e}]
           s == AggregateTruth(as)
           r == Accept(dlv[d], as, s)
<1>1. /\ dlv' = [dlv EXCEPT ![d] = r] /\ ses[d][n] = "accepted"
      /\ UNCHANGED <<ses, acked>> /\ dlv[d] \in Delivery
  BY Parts DEF RecordSesProviderEvent
<1> HIDE DEF as
<1>2. s \in {"sent", "bounced", "unknown"}
  BY AggregateFacts
<1> HIDE DEF s
<1>4. r.status = s
  BY <1>1, <1>2, AcceptStatus
<1> HIDE DEF r
<1>5. Follows(Said(d), Word(r.status))
  BY <1>1, <1>2, <1>4, AcceptWord
<1> QED BY <1>1, <1>5, OneRow

\* The start of a pass requeues or gives up what is in dispatch.
LEMMA RecoveryWord ==
  ASSUME LedgerInv, NEW w \in Workers, StartPass(w), NEW d \in Deliveries
  PROVE  WordStep(d)
<1>1. /\ dlv'[d] = IF Recovers(d) THEN RecoverRow(d) ELSE dlv[d]
      /\ ses'[d] = ses[d] /\ acked'[d] = acked[d] /\ dlv[d] \in Delivery
  BY Parts DEF StartPass
<1>2. CASE ~ Recovers(d)
  BY <1>1, <1>2 DEF WordStep, Said, Follows
<1>3. CASE Recovers(d)
  <2>1. RecoverRow(d).status \in {"retrying", "unknown"}
    <3> DEFINE p == Requeue(dlv[d])
               q == Settle(dlv[d], "unknown")
    <3>1. p \in Delivery /\ p.status = "retrying"
      BY <1>1, RequeueFacts
    <3>2. q \in Delivery /\ q.status = "unknown"
      BY <1>1, SettleFacts DEF Statuses
    <3>3. RecoverRow(d) = IF PreflightOnly(d) THEN [p EXCEPT !.due = TRUE]
                          ELSE [q EXCEPT !.fatal = FALSE]
      BY DEF RecoverRow
    <3> HIDE DEF p, q
    <3>4. [p EXCEPT !.due = TRUE].status = "retrying"
      BY <3>1 DEF Delivery
    <3>5. [q EXCEPT !.fatal = FALSE].status = "unknown"
      BY <3>2 DEF Delivery
    <3> QED BY <3>3, <3>4, <3>5
  <2>2. Said(d) = "open" /\ Said(d)' = Word(RecoverRow(d).status)
    BY <1>1, <1>3 DEF Recovers, Said, Word
  <2>3. Word(RecoverRow(d).status) \in {"open", "unknown"}
    BY <2>1 DEF Word
  <2> QED BY <1>1, <2>2, <2>3 DEF WordStep, Follows
<1> QED BY <1>2, <1>3
\* What a pass does to a delivery it has found due.
LEMMA ClaimWord ==
  ASSUME LedgerInv, NEW w \in Workers, NEW d \in Deliveries,
         ClaimUnusable(w, d) \/ ClaimNextForPreflight(w, d)
  PROVE  \A e \in Deliveries : WordStep(e)
<1>0. dlv[d] \in Delivery
  BY Parts
<1>1. Said(d) = "open" /\ UNCHANGED <<ses, acked>>
  BY DEF ClaimUnusable, ClaimNextForPreflight, Dispatchable, Said, Word
<1>2. CASE ClaimUnusable(w, d)
  <2> DEFINE r == Fail(dlv[d], TRUE)
  <2>1. dlv' = [dlv EXCEPT ![d] = r] /\ r.status = FailedOrUnknown(dlv[d])
    BY <1>0, <1>2, FailFacts DEF ClaimUnusable
  <2> HIDE DEF r
  <2>2. Word(r.status) \in {"failed", "unknown"}
    BY <2>1 DEF FailedOrUnknown, Word
  <2>3. Follows(Said(d), Word(r.status))
    BY <1>1, <2>2 DEF Follows
  <2> QED BY <1>1, <2>1, <2>3, OneRow
<1>3. CASE ClaimNextForPreflight(w, d)
  <2> DEFINE t == CHOOSE u \in Leases : Fresh(u)
             r == [dlv[d] EXCEPT !.status = "sending", !.phase = "preflight",
                                 !.active = NoAttempt, !.due = FALSE,
                                 !.lease = t, !.expired = FALSE]
  <2>1. dlv' = [dlv EXCEPT ![d] = r]
    BY <1>3 DEF ClaimNextForPreflight
  <2> HIDE DEF t
  <2>2. r.status = "sending"
    BY <1>0 DEF Delivery
  <2> HIDE DEF r
  <2>3. Follows(Said(d), Word(r.status))
    BY <1>1, <2>2 DEF Follows, Word
  <2> QED BY <1>1, <2>1, <2>3, OneRow
<1> QED BY <1>2, <1>3

\* Repair reads the accepted attempts, of which there are some.
LEMMA RepairWord ==
  ASSUME LedgerInv, NEW w \in Workers, NEW d \in Deliveries,
         RepairFromLedger(w, d)
  PROVE  \A e \in Deliveries : WordStep(e)
<1> DEFINE s == RepairedTruth(att[d])
           q == Accept(dlv[d], att[d], s)
           r == [q EXCEPT !.dup = Duplicated(att[d])]
<1>1. /\ dlv' = [dlv EXCEPT ![d] = r] /\ UNCHANGED <<ses, acked>>
      /\ dlv[d] \in Delivery
  BY Parts DEF RepairFromLedger
<1>2. PICK n \in Attempts : ses[d][n] = "accepted"
  BY Parts DEF RepairFromLedger, Accepted, AttemptShape
<1>3. s \in {"sent", "bounced", "unknown"}
  BY AggregateFacts
<1> HIDE DEF s
<1>5. q \in Delivery /\ q.status = s
  BY <1>1, <1>3, AcceptStatus
<1> HIDE DEF q
<1>6. r.status = s
  BY <1>5 DEF Delivery
<1> HIDE DEF r
<1>7. Follows(Said(d), Word(r.status))
  BY <1>2, <1>3, <1>6, AcceptWord
<1> QED BY <1>1, <1>7, OneRow

\* Preflight ends in the retry queue, or in a failure.
LEMMA PreflightWord ==
  ASSUME LedgerInv, NEW w \in Workers,
         DeferPreflight(w) \/ \E fatal \in BOOLEAN : FailPreflight(w, fatal)
  PROVE  \A e \in Deliveries : WordStep(e)
<1> DEFINE d == job[w].d
<1>1. /\ d \in Deliveries /\ dlv[d] \in Delivery /\ Said(d) = "open"
      /\ UNCHANGED <<ses, acked>>
  <2>1. d \in Deliveries /\ dlv[d].status = "sending"
    BY DEF DeferPreflight, FailPreflight, HoldsPreflight, LedgerInv, JobShape
  <2> QED BY <2>1, Parts DEF DeferPreflight, FailPreflight, Said, Word
<1>2. PICK r : /\ dlv' = [dlv EXCEPT ![d] = r]
               /\ r.status \in {"retrying", "failed", "unknown"}
  <2>1. Requeue(dlv[d]).status = "retrying"
    BY <1>1, RequeueFacts
  <2>2. \A fatal \in BOOLEAN : Fail(dlv[d], fatal).status \in {"failed", "unknown"}
    BY <1>1, FailFacts DEF FailedOrUnknown
  <2> QED BY <2>1, <2>2 DEF DeferPreflight, FailPreflight
<1> HIDE DEF d
<1>3. Word(r.status) \in {"open", "failed", "unknown"}
  BY <1>2 DEF Word
<1>4. Follows(Said(d), Word(r.status))
  BY <1>1, <1>3 DEF Follows
<1> QED BY <1>1, <1>2, <1>4, OneRow
\* Whatever an answer is, it is recorded for an open delivery.
LEMMA FinalizeWord ==
  ASSUME LedgerInv, NEW w \in Workers,
         \/ FinalizeAccepted(w) \/ FinalizeUnknown(w)
         \/ FinalizeDefinitiveFailure(w) \/ FinalizeRetryableFailure(w)
  PROVE  \A e \in Deliveries : WordStep(e)
<1> DEFINE d == job[w].d
           p == Settle(dlv[d], "sent")
           q == Settle(dlv[d], "unknown")
<1>1. PICK r, st : /\ Finalize(w, r, st)
                   /\ \/ r = [p EXCEPT !.fatal = FALSE]
                      \/ r = [q EXCEPT !.fatal = FALSE]
                      \/ r = Fail(dlv[d], FALSE)
                      \/ r = Requeue(dlv[d])
  BY DEF FinalizeAccepted, FinalizeUnknown, FinalizeDefinitiveFailure,
         FinalizeRetryableFailure
<1>2. job[w].pc = "dispatch"
  BY DEF FinalizeAccepted, FinalizeUnknown, FinalizeDefinitiveFailure,
         FinalizeRetryableFailure, Observes
<1>3. /\ d \in Deliveries /\ dlv[d] \in Delivery /\ Said(d) = "open"
      /\ dlv' = [dlv EXCEPT ![d] = r] /\ UNCHANGED <<ses, acked>>
  <2>1. d \in Deliveries /\ dlv[d].status = "sending"
    BY <1>1, <1>2 DEF Finalize, HoldsProvider, LedgerInv, JobShape
  <2> QED BY <1>1, <2>1, Parts DEF Finalize, Said, Word
<1>4. r.status \in {"sent", "unknown", "failed", "retrying"}
  <2>1. p \in Delivery /\ p.status = "sent" /\ q \in Delivery /\ q.status = "unknown"
    BY <1>3, SettleFacts DEF Statuses
  <2> HIDE DEF d, p, q
  <2>2. /\ [p EXCEPT !.fatal = FALSE].status = "sent"
        /\ [q EXCEPT !.fatal = FALSE].status = "unknown"
    BY <2>1 DEF Delivery
  <2>3. /\ Requeue(dlv[d]).status = "retrying"
        /\ Fail(dlv[d], FALSE).status \in {"failed", "unknown"}
    BY <1>3, RequeueFacts, FailFacts DEF FailedOrUnknown
  <2> QED BY <1>1, <2>2, <2>3
<1> HIDE DEF d
<1>5. Word(r.status) \in {"sent", "unknown", "failed", "open"}
  BY <1>4 DEF Word
<1>6. Follows(Said(d), Word(r.status))
  BY <1>3, <1>5 DEF Follows
<1> QED BY <1>3, <1>6, OneRow

\* A late answer finds a delivery that is called sent, bounced or unknown.
LEMMA LateWord ==
  ASSUME LedgerInv, NEW w \in Workers,
         \/ RecordConcurrentAccepted(w)
         \/ \E kind \in {"unknown", "rejected"},
               st \in {"unknown", "rejected_retryable", "rejected_permanent"} :
              RecordConcurrentNonAccepted(w, kind, st)
  PROVE  \A e \in Deliveries : WordStep(e)
<1> DEFINE d == job[w].d
<1>1. job[w].pc = "dispatch" /\ LateOutcome(w) /\ UNCHANGED <<ses, acked>>
  BY DEF RecordConcurrentAccepted, RecordConcurrentNonAccepted, Observes
<1>2. /\ d \in Deliveries /\ dlv[d] \in Delivery
      /\ dlv[d].status \in {"sent", "bounced", "unknown"}
  BY <1>1, Parts DEF LateOutcome, LedgerInv, JobShape
<1>3. PICK r : /\ dlv' = [dlv EXCEPT ![d] = r]
               /\ r.status \in {"sent", "bounced", "unknown"}
  <2>1. CASE RecordConcurrentAccepted(w)
    <3> DEFINE as == [att[d] EXCEPT ![job[w].n].st = "accepted"]
               s == AggregateTruth(as)
               r == Accept(dlv[d], as, s)
    <3>1. dlv' = [dlv EXCEPT ![d] = r]
      BY <2>1 DEF RecordConcurrentAccepted
    <3> HIDE DEF as, d
    <3>2. s \in {"sent", "bounced", "unknown"}
      BY AggregateFacts
    <3> HIDE DEF s
    <3>3. r.status = s
      BY <1>2, <3>2, AcceptStatus
    <3> QED BY <3>1, <3>2, <3>3
  <2>2. ASSUME NEW kind \in {"unknown", "rejected"},
               NEW st \in {"unknown", "rejected_retryable", "rejected_permanent"},
               RecordConcurrentNonAccepted(w, kind, st)
        PROVE  \E r : /\ dlv' = [dlv EXCEPT ![d] = r]
                      /\ r.status \in {"sent", "bounced", "unknown"}
    <3> DEFINE as == [att[d] EXCEPT ![job[w].n].st = st]
               s == LateStatus(dlv[d], as, kind)
               q == Settle(dlv[d], s)
               r == [q EXCEPT !.fatal = FALSE]
    <3>1. dlv' = [dlv EXCEPT ![d] = r]
      BY <2>2 DEF RecordConcurrentNonAccepted
    <3> HIDE DEF as, d
    <3>2. s \in {"sent", "bounced", "unknown"}
      BY <1>2, Zenon DEF LateStatus
    <3> HIDE DEF s
    <3>3. q \in Delivery /\ q.status = s
      BY <1>2, <3>2, SettleFacts DEF Statuses
    <3> HIDE DEF q
    <3>4. r.status = s
      BY <3>3 DEF Delivery
    <3> QED BY <3>1, <3>2, <3>4
  <2> QED BY <2>1, <2>2
<1> HIDE DEF d
<1>4. /\ Said(d) \in {"sent", "bounced", "unknown"}
      /\ Word(r.status) \in {"sent", "bounced", "unknown"}
  BY <1>2, <1>3 DEF Said, Word
<1>5. Follows(Said(d), Word(r.status))
  BY <1>4 DEF Follows
<1> QED BY <1>1, <1>2, <1>3, <1>5, OneRow

-----------------------------------------------------------------------------
(* The steps of the promise                                                *)

\* A new word is true, because the invariant holds in the next state.
LEMMA NewWordIsTrue ==
  ASSUME LedgerInv, LedgerInv', NEW d \in Deliveries, WordStep(d)
  PROVE  Truth!Step(d)
<1>0. PICK new : new = Word(dlv'[d].status)
  OBVIOUS
<1>1. /\ [e \in Deliveries |-> Word(dlv[e].status)][d] = Said(d)
      /\ [e \in Deliveries |-> Word(dlv'[e].status)][d] = new
      /\ [e \in Deliveries |-> 1..acked[e]][d] = 1..acked[d]
      /\ [e \in Deliveries |-> 1..acked'[e]][d] = 1..acked[d]
      /\ ses'[d] = ses[d] /\ Follows(Said(d), new)
  BY <1>0 DEF WordStep, Said
<1>2. Truth!Say(d, new)
  BY <1>1 DEF Truth!Say
<1>3. new \in {"sent", "bounced"} => Truth!Arrived(d) # {}
  <2> SUFFICES ASSUME new \in {"sent", "bounced"} PROVE Truth!Arrived(d) # {}
    OBVIOUS
  <2>1. dlv'[d].status \in {"sent", "bounced"}
    BY <1>0 DEF Word
  <2>2. Accepted(att'[d]) # {} /\ AttemptShape(d)'
    BY <2>1 DEF LedgerInv, DeliveryInv, Evidence
  <2>3. PICK n \in Attempts : ses'[d][n] = "accepted"
    BY <2>2 DEF Accepted, AttemptShape
  <2> QED BY <1>1, <2>3 DEF Truth!Arrived
<1>4. new \in {"failed", "cancelled"} => Truth!MayArrive(d) = {}
  <2> SUFFICES ASSUME new \in {"failed", "cancelled"},
                      NEW n \in Attempts, Exposed(d, n)
               PROVE  FALSE
    BY DEF Truth!MayArrive, Exposed
  <2>1. dlv'[d].status \in {"failed", "cancelled"}
    BY <1>0 DEF Word
  <2>2. ExposureKnown(d)' /\ RowShape(dlv[d])'
    BY DEF LedgerInv, DeliveryInv
  <2>3. ses'[d][n] \in {"inflight", "accepted"}
    BY <1>1 DEF Exposed
  <2> QED BY <2>1, <2>2, <2>3 DEF ExposureKnown, Exposed, RowShape
<1>5. CASE new = Said(d)
  BY <1>1, <1>5 DEF Truth!Step, Truth!Say
<1>6. CASE new \in {"sent", "bounced"}
  <2>1. Truth!SaySent(d)
    BY <1>2, <1>3, <1>6 DEF Truth!SaySent
  <2> QED BY <2>1 DEF Truth!Step
<1>7. CASE Said(d) = "open" /\ new \in {"failed", "cancelled"}
  <2>1. Truth!SayUnsent(d)
    BY <1>1, <1>2, <1>4, <1>7 DEF Truth!SayUnsent
  <2> QED BY <2>1 DEF Truth!Step
<1>8. CASE Said(d) \in {"open", "sent", "bounced"} /\ new = "unknown"
  <2>1. Truth!SayUnknown(d)
    BY <1>1, <1>2, <1>8 DEF Truth!SayUnknown
  <2> QED BY <2>1 DEF Truth!Step
<1>9. CASE Said(d) \in {"absent", "failed"} /\ new = "open"
  <2>1. Truth!Accept(d) \/ Truth!RetryFailed(d)
    BY <1>1, <1>2, <1>9 DEF Truth!Accept, Truth!RetryFailed
  <2> QED BY <2>1 DEF Truth!Step
<1> QED BY <1>1, <1>5, <1>6, <1>7, <1>8, <1>9 DEF Follows

\* A delivery whose row, requests and consent a step leaves alone.
LEMMA SameTruth ==
  ASSUME LedgerInv, NEW d \in Deliveries,
         dlv'[d].status = dlv[d].status, ses'[d] = ses[d], acked'[d] = acked[d]
  PROVE  Truth!Step(d)
<1>1. /\ [e \in Deliveries |-> Word(dlv'[e].status)][d]
           = [e \in Deliveries |-> Word(dlv[e].status)][d]
      /\ [e \in Deliveries |-> 1..acked'[e]][d] = [e \in Deliveries |-> 1..acked[e]][d]
  OBVIOUS
<1> QED BY <1>1 DEF Truth!Step, Truth!Say

\* The consent covers every request that was made.
LEMMA ConsentStep ==
  ASSUME LedgerInv, NEW d \in Deliveries, RetryUnknown(d), NEW e \in Deliveries
  PROVE  Truth!Step(e)
<1>1. CASE e # d
  <2>1. dlv'[e] = dlv[e] /\ ses'[e] = ses[e] /\ acked'[e] = acked[e]
    BY <1>1 DEF RetryUnknown, LedgerInv, TypeOK
  <2> QED BY <2>1, SameTruth
<1>2. CASE e = d
  <2>1. /\ dlv[d] \in Delivery /\ dlv[d].status = "unknown" /\ ses'[d] = ses[d]
        /\ dlv'[d] = [dlv[d] EXCEPT !.status = "queued", !.origin = "unknown",
                                    !.due = TRUE, !.fatal = FALSE]
        /\ acked'[d] = dlv[d].count
    BY Parts DEF RetryUnknown, TypeOK
  <2>2. dlv'[d].status = "queued"
    BY <2>1 DEF Delivery
  <2>3. Truth!Made(d) = 1..dlv[d].count
    BY <2>1, Parts, BoundsAssumption DEF Truth!Made, AttemptShape, Attempts, Delivery
  <2>4. /\ [f \in Deliveries |-> Word(dlv[f].status)][d] = "unknown"
        /\ [f \in Deliveries |-> Word(dlv'[f].status)][d] = "open"
        /\ [f \in Deliveries |-> 1..acked'[f]][d] = 1..dlv[d].count
    BY <2>1, <2>2 DEF Word
  <2>5. Truth!RetryUnknown(d)
    BY <2>1, <2>3, <2>4 DEF Truth!RetryUnknown
  <2> QED BY <1>2, <2>5 DEF Truth!Step
<1> QED BY <1>1, <1>2

\* The provider decides on one request.
LEMMA DecideStep ==
  ASSUME LedgerInv, NEW d \in Deliveries, NEW n \in Attempts,
         NEW v \in {"accepted", "rejected"}, SesDecides(d, n, v), NEW e \in Deliveries
  PROVE  Truth!Step(e)
<1>1. CASE e # d
  <2>1. dlv'[e] = dlv[e] /\ ses'[e] = ses[e] /\ acked'[e] = acked[e]
    BY <1>1 DEF SesDecides, LedgerInv, TypeOK
  <2> QED BY <2>1, SameTruth
<1>2. CASE e = d
  <2>1. /\ ses[d][n] = "inflight" /\ ses'[d] = [ses[d] EXCEPT ![n] = v]
        /\ dlv' = dlv /\ acked' = acked
    BY DEF SesDecides, LedgerInv, TypeOK
  <2>2. Truth!Decide(d, n)
    BY <2>1 DEF Truth!Decide, Truth!Asked
  <2> QED BY <1>2, <2>2 DEF Truth!Step
<1> QED BY <1>1, <1>2

\* A request begins while the delivery is open, and every earlier one that may
\* have been accepted was pardoned.
LEMMA AskStep ==
  ASSUME LedgerInv, NEW w \in Workers, BeginProviderAttempt(w), NEW e \in Deliveries
  PROVE  Truth!Step(e)
<1>0. PICK d, n : d = job[w].d /\ n = dlv[d].count + 1
  OBVIOUS
<1>1. /\ d \in Deliveries /\ dlv[d].phase = "preflight"
      /\ dlv[d].status = "sending"
  BY <1>0 DEF BeginProviderAttempt, HoldsPreflight, LedgerInv, JobShape
<1>2. CASE e # d
  <2>1. dlv'[e] = dlv[e] /\ ses'[e] = ses[e] /\ acked'[e] = acked[e]
    BY <1>0, <1>1, <1>2 DEF BeginProviderAttempt, LedgerInv, TypeOK
  <2> QED BY <2>1, SameTruth
<1>3. CASE e = d
  <2>1. /\ dlv[d] \in Delivery /\ RowShape(dlv[d]) /\ AttemptShape(d)
        /\ ExposureKnown(d) /\ TypeOK
    BY <1>1, Parts
  <2>2. n \in Attempts /\ dlv[d].count \in Nat
    BY <1>0, <1>1, <2>1, BoundsAssumption DEF RowShape, Delivery, Attempts
  <2>3. /\ ses'[d] = [ses[d] EXCEPT ![n] = "inflight"] /\ acked' = acked
        /\ dlv'[d] = [dlv[d] EXCEPT !.count = n, !.active = n, !.phase = "provider",
                                    !.expired = FALSE]
    BY <1>0, <1>1, <2>1 DEF BeginProviderAttempt, TypeOK
  <2>4. dlv'[d].status = "sending"
    BY <1>1, <2>1, <2>3 DEF Delivery
  <2>5. ses[d][n] = "none"
    BY <1>0, <2>1, <2>2 DEF AttemptShape
  <2>6. Truth!MayArrive(d) \subseteq 1..acked[d]
    <3> SUFFICES ASSUME NEW m \in Attempts, Exposed(d, m) PROVE m \in 1..acked[d]
      BY DEF Truth!MayArrive, Exposed
    <3>1. m <= acked[d] /\ acked[d] \in Nat
      BY <1>1, <2>1 DEF ExposureKnown, TypeOK, Attempts
    <3> QED BY <3>1 DEF Attempts
  <2>7. /\ [f \in Deliveries |-> Word(dlv[f].status)][d] = "open"
        /\ [f \in Deliveries |-> Word(dlv'[f].status)][d] = "open"
        /\ [f \in Deliveries |-> 1..acked[f]][d] = 1..acked[d]
        /\ [f \in Deliveries |-> 1..acked'[f]][d] = 1..acked[d]
    BY <1>1, <2>3, <2>4 DEF Word
  <2>8. Truth!Ask(d, n)
    BY <2>3, <2>5, <2>6, <2>7 DEF Truth!Ask, Truth!Asked
  <2> QED BY <1>3, <2>2, <2>8 DEF Truth!Step
<1> QED BY <1>2, <1>3

-----------------------------------------------------------------------------
(* The refinement                                                          *)

\* Every step of the ledger is a step of the promise, for each delivery.
LEMMA StepImplements ==
  ASSUME LedgerInv, LedgerInv', [Next]_vars, NEW d \in Deliveries
  PROVE  Truth!Step(d)
<1>1. CASE \E e \in Deliveries : RetryUnknown(e)
  BY <1>1, ConsentStep
<1>2. CASE \E e \in Deliveries, n \in Attempts, v \in {"accepted", "rejected"} :
             SesDecides(e, n, v)
  BY <1>2, DecideStep
<1>3. CASE \E w \in Workers : BeginProviderAttempt(w)
  BY <1>3, AskStep
<1>4. CASE /\ \A e \in Deliveries : ~ RetryUnknown(e)
           /\ \A e \in Deliveries, n \in Attempts, v \in {"accepted", "rejected"} :
                ~ SesDecides(e, n, v)
           /\ \A w \in Workers : ~ BeginProviderAttempt(w)
  <2>1. WordStep(d)
    <3>1. CASE UNCHANGED vars
      BY <3>1, NoRow DEF vars
    <3>2. ASSUME NEW e \in Deliveries, Environment(e) \/ Command(e)
          PROVE  WordStep(d)
      BY <1>4, <3>2, CommandWord, EventWord DEF Environment, Command
    <3>3. ASSUME NEW w \in Workers, Pass(w) \/ Crash(w)
          PROVE  WordStep(d)
      <4>1. CASE \/ EndPass(w) \/ PreflightLeaseLost(w) \/ LateOutcomeDropped(w)
                 \/ Crash(w)
        BY <4>1, NoRow DEF EndPass, PreflightLeaseLost, LateOutcomeDropped, Crash
      <4>2. CASE \/ DeferPreflight(w) \/ \E fatal \in BOOLEAN : FailPreflight(w, fatal)
        BY <4>2, PreflightWord
      <4>3. CASE \/ FinalizeAccepted(w) \/ FinalizeRetryableFailure(w)
                 \/ FinalizeDefinitiveFailure(w) \/ FinalizeUnknown(w)
        BY <4>3, FinalizeWord
      <4>4. CASE \/ RecordConcurrentAccepted(w)
                 \/ \E kind \in {"unknown", "rejected"},
                       st \in {"unknown", "rejected_retryable", "rejected_permanent"} :
                      RecordConcurrentNonAccepted(w, kind, st)
        BY <4>4, LateWord
      <4>5. ASSUME NEW e \in Deliveries,
                   \/ RepairFromLedger(w, e) \/ ClaimUnusable(w, e)
                   \/ ClaimNextForPreflight(w, e)
            PROVE  WordStep(d)
        BY <4>5, RepairWord, ClaimWord
      <4>6. CASE StartPass(w)
        BY <4>6, RecoveryWord
      <4> QED BY <1>4, <3>3, <4>1, <4>2, <4>3, <4>4, <4>5, <4>6 DEF Pass
    <3> QED BY <3>1, <3>2, <3>3 DEF Next
  <2> QED BY <2>1, NewWordIsTrue
<1> QED BY <1>1, <1>2, <1>3, <1>4

\* A ledger without deliveries has promised nothing.
LEMMA InitImplements == Init => Truth!Init
<1> SUFFICES ASSUME Init, NEW d \in Deliveries
             PROVE  /\ [e \in Deliveries |-> Word(dlv[e].status)][d] = "absent"
                    /\ [e \in Deliveries |-> 1..acked[e]][d] = {}
                    /\ ses[d] = [n \in Attempts |-> "none"]
  BY DEF Truth!Init
<1>1. dlv[d].status = "absent" /\ acked[d] = 0 /\ ses[d] = [n \in Attempts |-> "none"]
  BY DEF Init
<1>2. 1..0 = {}
  OBVIOUS
<1> QED BY <1>1, <1>2 DEF Word

\* The delivery ledger implements the promise of the truthful outbox.
THEOREM OutboxIsTruthful == Spec => DeliveriesAreTruthful
<1>1. LedgerInv /\ LedgerInv' /\ [Next]_vars => [Truth!Next]_(Truth!truth)
  BY StepImplements DEF Truth!Next
<1> QED BY <1>1, InitImplements, LedgerInvariant, PTL
        DEF Spec, DeliveriesAreTruthful, Truth!Spec
-----------------------------------------------------------------------------
(* A consequence of the promise                                            *)

Silent(d) == {n \in Attempts : Exposed(d, n) /\ n > acked[d]}

\* A step of the promise makes at most one request, and only when no silent
\* one may have arrived.
LEMMA SilentStep ==
  ASSUME TypeOK, TypeOK', NEW d \in Deliveries, Truth!Step(d),
         \A m, n \in Silent(d) : m = n
  PROVE  \A m, n \in Silent(d)' : m = n
<1>0. /\ acked[d] \in Nat /\ acked'[d] \in Nat
      /\ ses[d] \in [Attempts -> {"none", "inflight", "accepted", "rejected"}]
      /\ [e \in Deliveries |-> 1..acked[e]][d] = 1..acked[d]
      /\ [e \in Deliveries |-> 1..acked'[e]][d] = 1..acked'[d]
      /\ Attempts \subseteq Nat \ {0}
  BY DEF TypeOK, Attempts
<1>1. ASSUME 1..acked'[d] = 1..acked[d] PROVE acked'[d] = acked[d]
  BY <1>0, <1>1
<1>2. ASSUME 1..acked'[d] = 1..acked[d],
             \A n \in Attempts : Exposed(d, n)' => Exposed(d, n)
      PROVE  Silent(d)' \subseteq Silent(d)
  BY <1>1, <1>2 DEF Silent
<1>3. CASE \E q \in Attempts : Truth!Ask(d, q)
  <2>1. PICK q \in Attempts : Truth!Ask(d, q)
    BY <1>3
  <2>2. /\ Truth!MayArrive(d) \subseteq 1..acked[d] /\ acked'[d] = acked[d]
        /\ ses'[d] = [ses[d] EXCEPT ![q] = "inflight"]
    BY <1>0, <1>1, <2>1 DEF Truth!Ask, Truth!Asked
  <2>3. Silent(d) = {}
    BY <1>0, <2>2 DEF Truth!MayArrive, Silent, Exposed
  <2>4. \A n \in Attempts : Exposed(d, n)' /\ n # q => Exposed(d, n)
    BY <1>0, <2>2 DEF Exposed
  <2>5. ASSUME NEW n \in Silent(d)' PROVE n = q
    <3>1. n \in Attempts /\ Exposed(d, n)' /\ n > acked[d]
      BY <2>2, <2>5 DEF Silent
    <3> QED BY <2>3, <2>4, <3>1 DEF Silent
  <2> QED BY <2>5
<1>4. CASE \E q \in Attempts : Truth!Decide(d, q)
  <2>1. PICK q \in Attempts, v \in {"accepted", "rejected"} :
          /\ ses[d][q] = "inflight" /\ ses'[d] = [ses[d] EXCEPT ![q] = v]
          /\ 1..acked'[d] = 1..acked[d]
    BY <1>0, <1>4 DEF Truth!Decide, Truth!Asked
  <2>2. \A n \in Attempts : Exposed(d, n)' => Exposed(d, n)
    BY <1>0, <2>1 DEF Exposed
  <2> QED BY <1>2, <2>1, <2>2
<1>5. CASE Truth!RetryUnknown(d)
  <2>1. 1..acked'[d] = Truth!Made(d) /\ ses'[d] = ses[d]
    BY <1>0, <1>5 DEF Truth!RetryUnknown
  <2>2. \A n \in Attempts : Exposed(d, n)' => n \in 1..acked'[d]
    BY <2>1 DEF Exposed, Truth!Made
  <2>3. Silent(d)' = {}
    BY <1>0, <2>2 DEF Silent
  <2> QED BY <2>3
<1>6. CASE \/ Truth!Accept(d) \/ Truth!RetryFailed(d) \/ Truth!SaySent(d)
           \/ Truth!SayUnsent(d) \/ Truth!SayUnknown(d)
           \/ ses'[d] = ses[d] /\ 1..acked'[d] = 1..acked[d]
  <2>1. ses'[d] = ses[d] /\ 1..acked'[d] = 1..acked[d]
    BY <1>0, <1>6 DEF Truth!Accept, Truth!RetryFailed, Truth!SaySent, Truth!SayUnsent,
                      Truth!SayUnknown, Truth!Say
  <2>2. \A n \in Attempts : Exposed(d, n)' => Exposed(d, n)
    BY <2>1 DEF Exposed
  <2>3. Silent(d)' \subseteq Silent(d)
    BY <1>2, <2>1, <2>2
  <2> QED BY <2>3
<1> QED BY <1>0, <1>3, <1>4, <1>5, <1>6 DEF Truth!Step, Truth!Say

\* At most one copy of a message is sent that nobody agreed to, whatever
\* leases, crashes, retries and late answers do.
THEOREM OneCopyUnasked == Spec => []OneSilentCopy
<1>1. Init => OneSilentCopy
  BY DEF Init, OneSilentCopy, Exposed
<1>2. ASSUME LedgerInv, LedgerInv', OneSilentCopy, [Next]_vars PROVE OneSilentCopy'
  <2> SUFFICES ASSUME NEW d \in Deliveries
               PROVE  \A m, n \in Silent(d)' : m = n
    BY DEF OneSilentCopy, Silent
  <2>1. Truth!Step(d) /\ TypeOK /\ TypeOK'
    BY <1>2, StepImplements DEF LedgerInv
  <2>2. \A m, n \in Silent(d) : m = n
    BY <1>2 DEF OneSilentCopy, Silent
  <2> QED BY <2>1, <2>2, SilentStep
<1> QED BY <1>1, <1>2, LedgerInvariant, PTL DEF Spec
=============================================================================
