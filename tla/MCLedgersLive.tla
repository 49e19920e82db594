--------------------------- MODULE MCLedgersLive ----------------------------
(* The liveness of three ledgers of a mailbox in one run.  They share no   *)
(* state here, so a behaviour explores one of them, chosen at the start.   *)
EXTENDS Naturals

VARIABLES
  which,
  dlv, att, ses, acked, job,                           \* OutboundDelivery
  draft, version, kept, status, retry, amb, acc, agree, folder, prev, putBack, row,
  projected, consumed, tries, inline, ctries, copying, reco, retries, events,
                                                       \* OutboundProjection
  obj, own, outbox, keyFence, attFence, wr, put, pass, inflight, legacy
                                                       \* R2Ownership

\* Bounces that only together name every recipient.
Recipients == {"r1", "r2"}
Partial ==
  {[class |-> "bounce", to |-> {one}] : one \in Recipients} \cup
  {[class |-> "bounce", to |-> {}], [class |-> "delivery", to |-> {}]}

Outbound == INSTANCE OutboundDelivery WITH
  Deliveries <- {"d1"}, Workers <- {"w1"}, Events <- Partial, MaxAttempts <- 2,
  AttemptBound <- 3, LeaseBound <- 5, NoDelivery <- "none"

Projection == INSTANCE OutboundProjection WITH
  MaxVersion <- 1, MaxTries <- 2, MaxRetries <- 1, MaxEvents <- 1, Requests <- {"r1"}

Objects == INSTANCE R2Ownership WITH
  Sends <- {"s1"}, Projections <- {}, Parts <- {"a"}, Passes <- {"x"},
  Leases <- {"l1", "l2"}, NoLease <- "none", MaxTries <- 2, SlowWriters <- TRUE,
  row <- outbox, job <- legacy

outboundVars == <<dlv, att, ses, acked, job>>
projectionVars ==
  <<draft, version, kept, status, retry, amb, acc, agree, folder, prev, putBack, row,
    projected, consumed, tries, inline, ctries, copying, reco, retries, events>>
objectVars ==
  <<obj, own, outbox, keyFence, attFence, wr, put, pass, inflight, legacy>>
vars == <<which, outboundVars, projectionVars, objectVars>>

Init ==
  /\ which \in {"outbound", "projection", "objects"}
  /\ Outbound!Init /\ Projection!Init /\ Objects!Init

Explore(A, B, C) ==
  /\ UNCHANGED which
  /\ \/ which = "outbound" /\ A /\ UNCHANGED <<projectionVars, objectVars>>
     \/ which = "projection" /\ B /\ UNCHANGED <<outboundVars, objectVars>>
     \/ which = "objects" /\ C /\ UNCHANGED <<outboundVars, projectionVars>>

Next == Explore(Outbound!Next, Projection!Next, Objects!Next)

\* The fairness of the three, side by side: an action of the one that is not
\* explored is never enabled.
Key == <<"s1", "a">>
Fairness ==
  /\ WF_vars(Explore(Outbound!BecomeDue("d1"), FALSE, Objects!RowDue(Key)))
  /\ WF_vars(Explore(Outbound!LeaseExpires("d1"), FALSE, Objects!WriterStops("s1")))
  /\ WF_vars(Explore(Outbound!Pass("w1"), FALSE, Objects!R2Deletes(<<"l1", Key>>)))
  /\ WF_vars(Explore(FALSE, FALSE, Objects!R2Deletes(<<"l2", Key>>)))
  /\ SF_vars(Explore(Outbound!ClaimNextForPreflight("w1", "d1"),
                     Projection!RecoveryPass(1),
                     \E batch \in SUBSET Objects!Claimable :
                       batch # {} /\ Objects!ClaimDue("x", batch, {})))
  /\ SF_vars(Explore(Outbound!BeginProviderAttempt("w1"),
                     \E same \in BOOLEAN : Projection!AlarmRecovers(1, same),
                     Objects!AskDelete("x", Key)))
  /\ SF_vars(Explore(FALSE, Projection!CopyEnds(Projection!Alarm),
                     Objects!DeleteSucceeds("x", Key) \/ Objects!DeleteFails("x", Key)))
  /\ SF_vars(Explore(FALSE, FALSE, Objects!RecordOutcomes("x")))

FairSpec == Init /\ [][Next]_vars /\ Fairness

\* A delivery that is open comes to rest (OutboundDelivery).
OpenComesToRest == Outbound!OpenComesToRest

\* What SES accepted is filed, or its recovery is parked (OutboundProjection).
AcceptedIsFiled == Projection!AcceptedIsFiled

\* A cancellation is carried out, or waits for a repair (OutboundProjection).
CancellationSettles == Projection!CancellationSettles

\* Every row of the deletion outbox is settled or parked (R2Ownership).
DeletionSettles == Objects!DeletionSettles
=============================================================================
