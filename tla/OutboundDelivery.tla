-------------------------- MODULE OutboundDelivery --------------------------
(***************************************************************************)
(* The delivery ledger of the "truthful outbox": what one mailbox's        *)
(* Durable Object records about every message handed to Amazon SES, and    *)
(* the steps that change it.                                               *)
(*                                                                         *)
(*   workers/lib/outbound-delivery-service.ts   the commands (one storage  *)
(*                                              transaction each)          *)
(*   workers/durableObject/index.ts             the alarm pass that drives *)
(*                                              them, the SES event        *)
(*                                              handler, the late-outcome  *)
(*                                              and ledger-repair paths    *)
(*   workers/durableObject/outbound-storage.ts  candidate selection        *)
(*                                                                         *)
(* SES has no idempotency token, so whether a request was accepted can be  *)
(* truly unknown: the request may still be in flight when its lease        *)
(* expires, the answer may be lost, the object may be evicted in between.  *)
(* ses records the truth at the provider, which the ledger only learns     *)
(* from an HTTP answer or, later and in any order, from delivery events.   *)
(*                                                                         *)
(* Time is abstracted to two flags: "due" (available_at/next_attempt_at    *)
(* has passed) and "expired" (lease_expires_at has passed); the actions    *)
(* BecomeDue and LeaseExpires let time pass at any moment.                 *)
(***************************************************************************)
EXTENDS Naturals, FiniteSets

CONSTANTS
  Deliveries,     \* outbound_deliveries rows that may be created
  Workers,        \* alarm passes that may be under way
  Recipients,     \* the intended recipients of a message
  Events,         \* the SES notifications the environment may send
  MaxAttempts,    \* max_attempts of a delivery
  AttemptBound,   \* bound: nobody retries by hand after this many attempts
  LeaseBound,     \* bound: size of the pool fresh lease tokens come from
  NoDelivery      \* "this pass has claimed nothing"

ASSUME BoundsAssumption ==
  /\ MaxAttempts \in Nat \ {0}
  /\ AttemptBound \in Nat /\ MaxAttempts <= AttemptBound
  /\ LeaseBound \in Nat

ASSUME NoDeliveryAssumption == NoDelivery \notin Deliveries

ASSUME EventsAssumption ==
  Events \subseteq [class : {"delivery", "bounce", "complaint"},
                    to    : SUBSET Recipients]

VARIABLES
  dlv,    \* the delivery rows
  att,    \* the attempt rows: att[d][n] is attempt_number n of delivery d
  ses,    \* the truth at the provider about each attempt's request
  acked,  \* attempts 1..acked[d] were covered by a duplicate-risk consent
  job     \* the volatile state of each alarm pass

vars == <<dlv, att, ses, acked, job>>

Attempts == 1..AttemptBound
Leases   == 1..LeaseBound
NoLease  == 0
NoAttempt == 0

Statuses == {"absent", "queued", "sending", "retrying", "sent", "bounced",
             "failed", "unknown", "cancelled"}
AttemptStatuses == {"none", "sending", "accepted", "rejected_retryable",
                    "rejected_permanent", "unknown"}

Delivery ==
  [status  : Statuses,
   origin  : {"none", "failed", "unknown"},       \* retry_origin_status
   phase   : {"none", "preflight", "provider"},   \* dispatch_phase
   lease   : Leases \cup {NoLease},
   expired : BOOLEAN,
   active  : Attempts \cup {NoAttempt},           \* active_attempt_id
   count   : Attempts \cup {0},                   \* attempt_count
   due     : BOOLEAN,
   fatal   : BOOLEAN,  \* last_error_code forbids retryFailed
   dup     : BOOLEAN]  \* duplicate_acceptance_at is set

Attempt == [st : AttemptStatuses, lease : Leases \cup {NoLease},
            ev : SUBSET Events]

IdleJob == [pc |-> "idle", d |-> NoDelivery, lease |-> NoLease,
            n |-> NoAttempt]

TypeOK ==
  /\ dlv \in [Deliveries -> Delivery]
  /\ att \in [Deliveries -> [Attempts -> Attempt]]
  /\ ses \in [Deliveries -> [Attempts ->
                {"none", "inflight", "accepted", "rejected"}]]
  /\ acked \in [Deliveries -> Attempts \cup {0}]
  /\ job \in [Workers -> [pc : {"idle", "scan", "preflight", "dispatch"},
                          d : Deliveries \cup {NoDelivery},
                          lease : Leases \cup {NoLease},
                          n : Attempts \cup {NoAttempt}]]

-----------------------------------------------------------------------------
(* What the ledger concludes from its accepted attempts                    *)

\* The outcome one accepted attempt's events add up to.
AttemptOutcome(ev) ==
  LET bounced == UNION {e.to : e \in ev}
  IN  IF ev = {} \/ \E e \in ev : e.class \in {"delivery", "complaint"}
        THEN "sent"
      ELSE IF bounced = {} \/ Recipients = {} THEN "unknown"
      ELSE IF Recipients \subseteq bounced THEN "bounced"
      ELSE "sent"

Accepted(as) == {n \in Attempts : as[n].st = "accepted"}

\* One surviving acceptance is enough for "sent"; an unexplained bounce
\* keeps the whole delivery ambiguous.
AggregateTruth(as) ==
  LET outcomes == {AttemptOutcome(as[n].ev) : n \in Accepted(as)}
  IN  IF "sent" \in outcomes THEN "sent"
      ELSE IF "unknown" \in outcomes \/ outcomes = {} THEN "unknown"
      ELSE "bounced"

\* The newest accepted attempt whose outcome is the aggregate one.
IsAuthoritative(as, n) ==
  /\ n \in Accepted(as)
  /\ AttemptOutcome(as[n].ev) = AggregateTruth(as)
  /\ \A m \in Accepted(as) :
       AttemptOutcome(as[m].ev) = AggregateTruth(as) => m <= n

\* The status ledger repair derives: all-bounced is not believed while a
\* newer attempt is still ambiguous.
RepairedTruth(as) ==
  IF /\ AggregateTruth(as) = "bounced"
     /\ \E n \in Attempts : /\ IsAuthoritative(as, n)
                            /\ \E m \in Attempts : m > n /\ as[m].st = "unknown"
    THEN "unknown"
    ELSE AggregateTruth(as)

Duplicated(as) == \E m, n \in Accepted(as) : m # n

-----------------------------------------------------------------------------
(* Row updates shared by the commands                                      *)

\* Slip: the row keeps its lease token when it settles.
SettleKeepingLease(r, s) ==
  [r EXCEPT !.status = s, !.origin = "none", !.phase = "none",
            !.expired = FALSE, !.active = NoAttempt, !.due = FALSE]

\* Leave the dispatch machinery in the given status.
Settle(r, s) ==
  [r EXCEPT !.status = s, !.origin = "none", !.phase = "none",
            !.lease = NoLease, !.expired = FALSE, !.active = NoAttempt,
            !.due = FALSE]

\* Release the lease and go back to the automatic retry queue.
Requeue(r) ==
  [r EXCEPT !.status = "retrying", !.phase = "none", !.lease = NoLease,
            !.expired = FALSE, !.active = NoAttempt, !.due = FALSE,
            !.fatal = FALSE]

\* A retry that fails never overwrites an earlier ambiguous outcome.
FailedOrUnknown(r) == IF r.origin = "unknown" THEN "unknown" ELSE "failed"

Fail(r, fatal) ==
  [Settle(r, FailedOrUnknown(r)) EXCEPT !.fatal = fatal /\ r.origin # "unknown"]

\* Slip: the duplicate mark is left as it was.
AcceptUnmarked(r, as, s) ==
  [Settle(r, s) EXCEPT !.fatal = FALSE, !.dup = r.dup]

\* The accepted ledger rewrites the delivery, whatever it was doing.
Accept(r, as, s) ==
  [Settle(r, s) EXCEPT !.fatal = FALSE, !.dup = r.dup \/ Duplicated(as)]

\* hasUnsafeProviderAttempt: some request may still be, or is, accepted.
Unsafe(d, lease) ==
  \E n \in Attempts : /\ att[d][n].st # "none"
                      /\ \/ att[d][n].lease = lease
                         \/ att[d][n].st \in {"sending", "accepted"}

\* #requirePreflightLease together with the unsafe-attempt check.
HoldsPreflight(w) ==
  LET r == dlv[job[w].d]
  IN  /\ r.status = "sending" /\ r.phase = "preflight"
      /\ r.lease = job[w].lease /\ r.active = NoAttempt
      /\ ~ Unsafe(job[w].d, job[w].lease)

\* #requireLease: exactly one sending attempt carries the lease, the active one.
HoldsProvider(w) ==
  LET r == dlv[job[w].d]
      mine == {n \in Attempts : /\ att[job[w].d][n].st = "sending"
                                /\ att[job[w].d][n].lease = job[w].lease}
  IN  /\ r.status = "sending" /\ r.phase = "provider"
      /\ r.lease = job[w].lease /\ r.active # NoAttempt
      /\ mine = {r.active}

Fresh(t) ==
  /\ \A d \in Deliveries : /\ dlv[d].lease # t
                           /\ \A n \in Attempts : att[d][n].lease # t
  /\ \A w \in Workers : job[w].lease # t

-----------------------------------------------------------------------------
(* The clock and the provider                                              *)

BecomeDue(d) ==
  /\ dlv[d].status \in {"queued", "retrying"} /\ ~ dlv[d].due
  /\ dlv' = [dlv EXCEPT ![d].due = TRUE]
  /\ UNCHANGED <<att, ses, acked, job>>

LeaseExpires(d) ==
  /\ dlv[d].status = "sending" /\ ~ dlv[d].expired
  /\ dlv' = [dlv EXCEPT ![d].expired = TRUE]
  /\ UNCHANGED <<att, ses, acked, job>>

\* SES decides on a request in its own time, with or without a listener.
SesDecides(d, n, verdict) ==
  /\ ses[d][n] = "inflight" /\ verdict \in {"accepted", "rejected"}
  /\ ses' = [ses EXCEPT ![d][n] = verdict]
  /\ UNCHANGED <<dlv, att, acked, job>>

-----------------------------------------------------------------------------
(* Commands of users and agents                                            *)

Enqueue(d) ==
  /\ dlv[d].status = "absent"
  /\ dlv' = [dlv EXCEPT ![d].status = "queued"]
  /\ UNCHANGED <<att, ses, acked, job>>

\* Slip: cancelling a retry forgets the outcome the retry started from.
CancelForgets(d) ==
  /\ dlv[d].status \in {"queued", "retrying"}
  /\ dlv' = [dlv EXCEPT ![d] =
        [@ EXCEPT !.status = "cancelled", !.origin = "none", !.due = TRUE]]
  /\ UNCHANGED <<att, ses, acked, job>>

\* Cancelling a retry restores the outcome the retry started from.
Cancel(d) ==
  /\ dlv[d].status \in {"queued", "retrying"}
  /\ dlv' = [dlv EXCEPT ![d] =
        IF dlv[d].origin # "none"
          THEN [Settle(dlv[d], dlv[d].origin) EXCEPT !.fatal = FALSE]
          ELSE [dlv[d] EXCEPT !.status = "cancelled", !.due = TRUE]]
  /\ UNCHANGED <<att, ses, acked, job>>

RetryFailed(d) ==
  /\ dlv[d].status = "failed" /\ ~ dlv[d].fatal
  /\ dlv[d].count < AttemptBound
  /\ dlv' = [dlv EXCEPT ![d].status = "queued", ![d].origin = "failed",
                        ![d].due = TRUE]
  /\ UNCHANGED <<att, ses, acked, job>>

\* Refused without the caller's duplicate-risk acknowledgement.
RetryUnknown(d) ==
  /\ dlv[d].status = "unknown"
  /\ dlv[d].count < AttemptBound
  /\ dlv' = [dlv EXCEPT ![d].status = "queued", ![d].origin = "unknown",
                        ![d].due = TRUE, ![d].fatal = FALSE]
  /\ acked' = [acked EXCEPT ![d] = dlv[d].count]
  /\ UNCHANGED <<att, ses, job>>

-----------------------------------------------------------------------------
(* The alarm pass                                                          *)

\* Slip: only leases lost before the provider call are recovered.
RecoversPreflight(d) ==
  dlv[d].status = "sending" /\ dlv[d].expired /\ dlv[d].phase = "preflight"

\* recoverExpiredLeases on one row: a lease lost before the provider call
\* is retried, one lost after it is ambiguous.
Recovers(d) == dlv[d].status = "sending" /\ dlv[d].expired
PreflightOnly(d) ==
  dlv[d].phase = "preflight" /\ ~ Unsafe(d, dlv[d].lease)

\* Slip: a lease lost during the provider call goes back to the retry queue.
RecoverByRetry(d) == [Requeue(dlv[d]) EXCEPT !.due = TRUE]

RecoverRow(d) ==
  IF PreflightOnly(d)
    THEN [Requeue(dlv[d]) EXCEPT !.due = TRUE]
    ELSE [Settle(dlv[d], "unknown") EXCEPT !.fatal = FALSE]

RecoverAttempt(d, n) ==
  IF /\ ~ PreflightOnly(d)
     /\ att[d][n].st # "none"
     /\ att[d][n].st = "sending" \/ att[d][n].lease = dlv[d].lease
     /\ att[d][n].st # "accepted"
    THEN [att[d][n] EXCEPT !.st = "unknown"]
    ELSE att[d][n]

StartPass(w) ==
  /\ job[w].pc = "idle"
  /\ job' = [job EXCEPT ![w].pc = "scan"]
  /\ dlv' = [d \in Deliveries |-> IF Recovers(d) THEN RecoverRow(d) ELSE dlv[d]]
  /\ att' = [d \in Deliveries |->
               [n \in Attempts |-> IF Recovers(d) THEN RecoverAttempt(d, n)
                                                  ELSE att[d][n]]]
  /\ UNCHANGED <<ses, acked>>

\* Acceptance recovery finds the row at odds with the accepted attempts.  A
\* recovery row exists for every such delivery; that it may be parked or
\* completed, which makes the repair rarer, is left out here.
RepairFromLedger(w, d) ==
  /\ job[w].pc = "scan"
  /\ Accepted(att[d]) # {}
  /\ dlv' = [dlv EXCEPT ![d] =
       [Accept(dlv[d], att[d], RepairedTruth(att[d]))
          EXCEPT !.dup = Duplicated(att[d])]]
  /\ UNCHANGED <<att, ses, acked, job>>

Dispatchable(d) == dlv[d].status \in {"queued", "retrying"} /\ dlv[d].due

\* A candidate whose snapshot or dispatch metadata cannot be used.
ClaimUnusable(w, d) ==
  /\ job[w].pc = "scan" /\ Dispatchable(d)
  /\ dlv' = [dlv EXCEPT ![d] = Fail(dlv[d], TRUE)]
  /\ UNCHANGED <<att, ses, acked, job>>

ClaimNextForPreflight(w, d) ==
  /\ job[w].pc = "scan" /\ Dispatchable(d)
  /\ \E t \in Leases : Fresh(t)
  /\ LET t == CHOOSE u \in Leases : Fresh(u)
     IN  /\ dlv' = [dlv EXCEPT ![d] =
                      [@ EXCEPT !.status = "sending", !.phase = "preflight",
                                !.active = NoAttempt, !.due = FALSE,
                                !.lease = t, !.expired = FALSE]]
         /\ job' = [job EXCEPT ![w] = [pc |-> "preflight", d |-> d,
                                       lease |-> t, n |-> NoAttempt]]
  /\ UNCHANGED <<att, ses, acked>>

EndPass(w) ==
  /\ job[w].pc = "scan" /\ \A d \in Deliveries : ~ Dispatchable(d)
  /\ job' = [job EXCEPT ![w] = IdleJob]
  /\ UNCHANGED <<dlv, att, ses, acked>>

\* Authorization, quota, attachment storage or signing is unavailable.
DeferPreflight(w) ==
  /\ job[w].pc = "preflight" /\ HoldsPreflight(w)
  /\ dlv' = [dlv EXCEPT ![job[w].d] = Requeue(@)]
  /\ job' = [job EXCEPT ![w] = IdleJob]
  /\ UNCHANGED <<att, ses, acked>>

\* Revoked access or an unbuildable request may be retried by hand; a
\* snapshot whose attachments no longer match (fatal) may not.
FailPreflight(w, fatal) ==
  /\ job[w].pc = "preflight" /\ HoldsPreflight(w)
  /\ dlv' = [dlv EXCEPT ![job[w].d] = Fail(@, fatal)]
  /\ job' = [job EXCEPT ![w] = IdleJob]
  /\ UNCHANGED <<att, ses, acked>>

\* The durable begin and the single fetch that follows it.
BeginProviderAttempt(w) ==
  /\ job[w].pc = "preflight" /\ HoldsPreflight(w)
  /\ ~ dlv[job[w].d].expired
  /\ LET d == job[w].d
         n == dlv[d].count + 1
     IN  /\ dlv' = [dlv EXCEPT ![d] =
                      [@ EXCEPT !.count = n, !.active = n, !.phase = "provider",
                                !.expired = FALSE]]
         /\ att' = [att EXCEPT ![d][n] =
                      [st |-> "sending", lease |-> job[w].lease, ev |-> {}]]
         /\ ses' = [ses EXCEPT ![d][n] = "inflight"]
         /\ job' = [job EXCEPT ![w].pc = "dispatch", ![w].n = n]
  /\ UNCHANGED acked

\* A preflight step that finds its lease gone throws and ends the lane.
PreflightLeaseLost(w) ==
  /\ job[w].pc = "preflight"
  /\ ~ HoldsPreflight(w) \/ dlv[job[w].d].expired
  /\ job' = [job EXCEPT ![w] = IdleJob]
  /\ UNCHANGED <<dlv, att, ses, acked>>

-----------------------------------------------------------------------------
(* The provider's answer                                                   *)

\* What classifySesOutcome may conclude: acceptance and rejection only from
\* SES's own answer, "unknown" whenever the answer is lost or unusable.
Observes(w, kind) ==
  /\ job[w].pc = "dispatch"
  /\ kind \in {"accepted", "rejected"} => ses[job[w].d][job[w].n] = kind

Finalize(w, row, st) ==
  /\ HoldsProvider(w)
  /\ dlv' = [dlv EXCEPT ![job[w].d] = row]
  /\ att' = [att EXCEPT ![job[w].d][dlv[job[w].d].active].st = st]
  /\ job' = [job EXCEPT ![w] = IdleJob]
  /\ UNCHANGED <<ses, acked>>

FinalizeAccepted(w) ==
  /\ Observes(w, "accepted")
  /\ Finalize(w, [Settle(dlv[job[w].d], "sent") EXCEPT !.fatal = FALSE],
              "accepted")

\* Slip: the last attempt of the budget is still followed by a retry.
FinalizeOneTooMany(w) ==
  /\ Observes(w, "rejected")
  /\ Finalize(w, IF dlv[job[w].d].count > MaxAttempts
                   THEN Fail(dlv[job[w].d], FALSE)
                   ELSE Requeue(dlv[job[w].d]),
              "rejected_retryable")

FinalizeRetryableFailure(w) ==
  /\ Observes(w, "rejected")
  /\ Finalize(w, IF dlv[job[w].d].count >= MaxAttempts
                   THEN Fail(dlv[job[w].d], FALSE)
                   ELSE Requeue(dlv[job[w].d]),
              "rejected_retryable")

FinalizeDefinitiveFailure(w) ==
  /\ Observes(w, "rejected")
  /\ Finalize(w, Fail(dlv[job[w].d], FALSE), "rejected_permanent")

FinalizeUnknown(w) ==
  /\ Observes(w, "unknown")
  /\ Finalize(w, [Settle(dlv[job[w].d], "unknown") EXCEPT !.fatal = FALSE],
              "unknown")

\* The lease is gone, but the delivery rests in a state that can absorb the
\* late answer, and the attempt is still open.
LateOutcome(w) ==
  /\ ~ HoldsProvider(w)
  /\ dlv[job[w].d].status \in {"sent", "bounced", "unknown"}
  /\ att[job[w].d][job[w].n].st = "sending"
  /\ att[job[w].d][job[w].n].lease = job[w].lease

RecordConcurrentAccepted(w) ==
  /\ Observes(w, "accepted") /\ LateOutcome(w)
  /\ LET d == job[w].d
         as == [att[d] EXCEPT ![job[w].n].st = "accepted"]
     IN  /\ att' = [att EXCEPT ![d] = as]
         /\ dlv' = [dlv EXCEPT ![d] = Accept(@, as, AggregateTruth(as))]
  /\ job' = [job EXCEPT ![w] = IdleJob]
  /\ UNCHANGED <<ses, acked>>

\* nextStatus of #recordConcurrentNonAcceptedProviderOutcome.
LateStatus(r, as, kind) ==
  IF Accepted(as) # {} /\ AggregateTruth(as) = "sent" THEN "sent"
  ELSE IF (Accepted(as) # {} /\ AggregateTruth(as) = "unknown")
          \/ kind = "unknown" THEN "unknown"
  ELSE IF Accepted(as) # {} THEN "bounced"
  ELSE r.status

RecordConcurrentNonAccepted(w, kind, st) ==
  /\ <<kind, st>> \in {<<"unknown", "unknown">>,
                       <<"rejected", "rejected_retryable">>,
                       <<"rejected", "rejected_permanent">>}
  /\ Observes(w, kind) /\ LateOutcome(w)
  /\ LET d == job[w].d
         as == [att[d] EXCEPT ![job[w].n].st = st]
     IN  /\ att' = [att EXCEPT ![d] = as]
         /\ dlv' = [dlv EXCEPT ![d] =
                      [Settle(@, LateStatus(@, as, kind)) EXCEPT !.fatal = FALSE]]
  /\ job' = [job EXCEPT ![w] = IdleJob]
  /\ UNCHANGED <<ses, acked>>

\* Every other late answer changes nothing: it is thrown, or already recorded.
LateOutcomeDropped(w) ==
  /\ job[w].pc = "dispatch" /\ ~ HoldsProvider(w) /\ ~ LateOutcome(w)
  /\ job' = [job EXCEPT ![w] = IdleJob]
  /\ UNCHANGED <<dlv, att, ses, acked>>

\* Eviction or restart of the object ends a pass between two awaits.
Crash(w) ==
  /\ job[w].pc # "idle"
  /\ job' = [job EXCEPT ![w] = IdleJob]
  /\ UNCHANGED <<dlv, att, ses, acked>>

-----------------------------------------------------------------------------
(* Delivery, bounce and complaint events, at any time after acceptance     *)

\* A new notification (its id not seen before) for an accepted request; a
\* replayed one answers already_recorded and leaves the ledger alone.  Two
\* notifications may have the same class and recipients.
RecordSesProviderEvent(d, n, e) ==
  /\ ses[d][n] = "accepted" /\ att[d][n].st # "none"
  /\ LET as == [att[d] EXCEPT ![n].st = "accepted", ![n].ev = @ \cup {e}]
     IN  /\ att' = [att EXCEPT ![d] = as]
         /\ dlv' = [dlv EXCEPT ![d] = Accept(@, as, AggregateTruth(as))]
  /\ UNCHANGED <<ses, acked, job>>

-----------------------------------------------------------------------------
Init ==
  /\ dlv = [d \in Deliveries |->
              [status |-> "absent", origin |-> "none", phase |-> "none",
               lease |-> NoLease, expired |-> FALSE, active |-> NoAttempt,
               count |-> 0, due |-> FALSE, fatal |-> FALSE, dup |-> FALSE]]
  /\ att = [d \in Deliveries |-> [n \in Attempts |->
              [st |-> "none", lease |-> NoLease, ev |-> {}]]]
  /\ ses = [d \in Deliveries |-> [n \in Attempts |-> "none"]]
  /\ acked = [d \in Deliveries |-> 0]
  /\ job = [w \in Workers |-> IdleJob]

Environment(d) ==
  \/ BecomeDue(d)
  \/ LeaseExpires(d)
  \/ \E n \in Attempts, v \in {"accepted", "rejected"} : SesDecides(d, n, v)
  \/ \E n \in Attempts, e \in Events : RecordSesProviderEvent(d, n, e)

Command(d) ==
  \/ Enqueue(d)
  \/ Cancel(d)
  \/ RetryFailed(d)
  \/ RetryUnknown(d)

Pass(w) ==
  \/ StartPass(w)
  \/ \E d \in Deliveries : \/ RepairFromLedger(w, d)
                           \/ ClaimUnusable(w, d)
                           \/ ClaimNextForPreflight(w, d)
  \/ EndPass(w)
  \/ DeferPreflight(w)
  \/ \E fatal \in BOOLEAN : FailPreflight(w, fatal)
  \/ BeginProviderAttempt(w)
  \/ PreflightLeaseLost(w)
  \/ FinalizeAccepted(w)
  \/ FinalizeRetryableFailure(w)
  \/ FinalizeDefinitiveFailure(w)
  \/ FinalizeUnknown(w)
  \/ RecordConcurrentAccepted(w)
  \/ \E kind \in {"unknown", "rejected"},
        st \in {"unknown", "rejected_retryable", "rejected_permanent"} :
       RecordConcurrentNonAccepted(w, kind, st)
  \/ LateOutcomeDropped(w)

Next ==
  \/ \E d \in Deliveries : Environment(d) \/ Command(d)
  \/ \E w \in Workers : Pass(w) \/ Crash(w)

Spec == Init /\ [][Next]_vars

-----------------------------------------------------------------------------
(* Safety                                                                  *)

\* The request of attempt n was, or may still be, accepted by SES.
Exposed(d, n) == ses[d][n] \in {"inflight", "accepted"}

\* A delivery reported as failed or cancelled was not accepted by SES and no
\* request that might still be accepted is outstanding: the outbox never
\* calls a message unsent that a recipient may get (FailedOrUnknown, Cancel,
\* recoverExpiredLeases).
NoFalseFailure ==
  \A d \in Deliveries : dlv[d].status \in {"failed", "cancelled"} =>
    \A n \in Attempts : ~ Exposed(d, n)

\* A delivery reported as sent or bounced was accepted by SES, whichever of
\* the four writers (finalizeAccepted, the event handler, the late-outcome
\* path, ledger repair) set the status.
NoFalseSuccess ==
  \A d \in Deliveries : dlv[d].status \in {"sent", "bounced"} =>
    \E n \in Attempts : ses[d][n] = "accepted"

\* A provider request begins only when every earlier request that SES may
\* have accepted was covered by the user's duplicate-risk acknowledgement
\* (retryUnknown): lease expiry, lost answers, evictions and automatic
\* retries never cause a second copy by themselves.
NoSilentDuplicate ==
  [][\A d \in Deliveries : dlv'[d].count > dlv[d].count =>
       \A n \in Attempts : Exposed(d, n) => n <= acked[d]]_vars

\* Whenever two attempts of one delivery are known to be accepted, the
\* delivery carries the duplicate mark the UI and audits rely on, although
\* finalizeAccepted itself never sets it.
DuplicateIsFlagged ==
  \A d \in Deliveries : Duplicated(att[d]) => dlv[d].dup

\* Past the delivery's attempt budget every further provider request goes
\* back to a retry a person asked for.
AutomaticRetriesBounded ==
  [][\A d \in Deliveries :
       dlv'[d].count > dlv[d].count /\ dlv[d].count >= MaxAttempts =>
         dlv[d].origin # "none"]_vars

\* What the contract's test "confirmed sent delivery is terminal" and its
\* transition table (sent: provider_bounced only) say: a delivery reported as
\* sent can only become bounced.
SentIsTerminal ==
  [][\A d \in Deliveries :
       dlv[d].status = "sent" => dlv'[d].status \in {"sent", "bounced"}]_vars

-----------------------------------------------------------------------------
(* The inductive strengthening of the safety properties                    *)

\* Only a sending row holds a lease, a phase and (once begun) an attempt.
RowShape(r) ==
  /\ r.status = "sending" <=> r.phase # "none"
  /\ r.status = "sending" <=> r.lease # NoLease
  /\ r.phase = "provider" => r.active = r.count /\ r.active # NoAttempt
  /\ r.phase # "provider" => r.active = NoAttempt
  /\ r.origin # "none" => r.status \in {"queued", "retrying", "sending"}
  /\ r.status = "absent" => r.count = 0
  /\ \/ r.status \in {"absent", "queued", "retrying"}
     \/ r.phase = "preflight"
     => r.count < AttemptBound

\* Attempt rows 1..count exist, each with a lease of its own, and are
\* recorded as accepted only if SES accepted them.
AttemptShape(d) ==
  /\ \A n \in Attempts :
       /\ att[d][n].st = "none" <=> n > dlv[d].count
       /\ att[d][n].lease = NoLease <=> n > dlv[d].count
       /\ ses[d][n] = "none" <=> n > dlv[d].count
       /\ att[d][n].st = "accepted" => ses[d][n] = "accepted"
  /\ \A m, n \in Attempts :
       att[d][m].lease = att[d][n].lease /\ m # n => att[d][m].lease = NoLease
  /\ acked[d] <= dlv[d].count

\* Requests SES may have accepted are the active one, or acknowledged, or
\* the delivery admits that it may have been accepted.
ExposureKnown(d) ==
  \A n \in Attempts : Exposed(d, n) =>
    \/ dlv[d].status \in {"sent", "bounced", "unknown"}
    \/ dlv[d].phase = "provider" /\ n = dlv[d].active
    \/ dlv[d].origin = "unknown" /\ n <= acked[d]

\* Ledger evidence: success has an accepted attempt, a delivery at the
\* provider has none yet, two of them are marked.
Evidence(d) ==
  /\ dlv[d].status \in {"sent", "bounced"} => Accepted(att[d]) # {}
  /\ dlv[d].phase = "provider" => Accepted(att[d]) = {}
  /\ Duplicated(att[d]) => dlv[d].dup

\* A pass at the provider boundary knows its own attempt.
JobShape(w) ==
  /\ job[w].pc \in {"preflight", "dispatch"} =>
       job[w].d \in Deliveries /\ job[w].lease # NoLease
  /\ job[w].pc = "dispatch" =>
       /\ job[w].n # NoAttempt
       /\ att[job[w].d][job[w].n].lease = job[w].lease

\* Automatic retries stop at the budget: a row that is dispatched again
\* without a person's request has attempts left.
WithinBudget(d) ==
  /\ dlv[d].origin = "none"
  /\ dlv[d].status \in {"absent", "queued", "retrying"}
     \/ dlv[d].phase = "preflight"
  => dlv[d].count < MaxAttempts

DeliveryInv(d) ==
  /\ RowShape(dlv[d])
  /\ AttemptShape(d)
  /\ ExposureKnown(d)
  /\ Evidence(d)
  /\ WithinBudget(d)

\* The inductive invariant: every row, attempt and pass is in one of the
\* shapes the commands of the outbox leave behind.
LedgerInv ==
  /\ TypeOK
  /\ \A d \in Deliveries : DeliveryInv(d)
  /\ \A w \in Workers : JobShape(w)

-----------------------------------------------------------------------------
(* Liveness.  The platform runs a scheduled alarm and re-runs one that was *)
(* cut short, time passes, the oldest due row is claimed first, evictions  *)
(* do not hit the same point of every pass, and outages of what preflight  *)
(* depends on end.                                                         *)

Fairness ==
  /\ \A d \in Deliveries : WF_vars(BecomeDue(d)) /\ WF_vars(LeaseExpires(d))
  /\ \A w \in Workers :
       /\ WF_vars(Pass(w))
       /\ \A d \in Deliveries : SF_vars(ClaimNextForPreflight(w, d))
       /\ SF_vars(BeginProviderAttempt(w))

FairSpec == Spec /\ Fairness

\* Every delivery that is queued, retrying or sending comes to rest: no
\* crash, lost lease, expired lease or stale attempt leaves it open forever.
OpenComesToRest ==
  \A d \in Deliveries :
    dlv[d].status \in {"queued", "retrying", "sending"} ~>
      dlv[d].status \in {"sent", "bounced", "failed", "unknown", "cancelled"}
=============================================================================
