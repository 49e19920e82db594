--------------------------- MODULE ServicesProofs ---------------------------
(***************************************************************************)
(* RecoveryInv is inductive, for any number of requests, drains, tokens,   *)
(* leases and submissions: one link of the account works, a link changes   *)
(* the credentials once, a completed request is answered by one link.      *)
(*                                                                         *)
(* PushInv is inductive, for any number of devices, users, registrations   *)
(* and attempts: a notification goes only to a device its user still has,  *)
(* no more often than it may, and forgets no device.                       *)
(*                                                                         *)
(* AiInv is inductive, for any number of requests and months: the ledger   *)
(* of artificial intelligence adds up, and exceeds its budget only by what *)
(* calls cost beyond their estimates.                                      *)
(***************************************************************************)
EXTENDS CredentialRecovery, PushOutbox, AiUsage, FiniteSetTheorems, TLAPS

-----------------------------------------------------------------------------
(* What the parts of the invariant depend on                               *)

\* The next token is the first that was not issued.
LEMMA NextToken ==
  ASSUME TokensInv, NEW id, id = Cardinality(Issued) + 1, id \in Tokens
  PROVE  /\ id \notin Issued
         /\ Issued \cup {id} = 1..id
<1>1. PICK n \in 0..MaxTokens : Issued = 1..n
  BY DEF TokensInv
<1>2. Cardinality(1..n) = n
  BY <1>1, FS_Interval, RecoveryAssumption
<1>3. id = n + 1
  BY <1>1, <1>2
<1> QED BY <1>1, <1>3, RecoveryAssumption

\* A delivery that changes belongs to an issued token.
LEMMA TokensKept ==
  ASSUME TokensInv, UNCHANGED <<tokens, changes>>,
         user'.active = user.active \/ user'.active,
         \A t \in Tokens \ Issued : outbox[t].state = "none" => outbox'[t] = outbox[t]
  PROVE  TokensInv'
<1>1. Issued' = Issued
  BY DEF Issued
<1> QED BY <1>1 DEF TokensInv

\* Tokens only end, and no delivery begins.
LEMMA TokensEnd ==
  ASSUME TypeOK, TokensInv, tokens' \in [Tokens -> TokenRows], UNCHANGED changes,
         \A t \in Tokens : /\ tokens'[t].state = "none" <=> tokens[t].state = "none"
                           /\ tokens'[t].state \in {tokens[t].state, "consumed"}
                           /\ tokens'[t].by = tokens[t].by,
         user'.active = user.active \/ user'.active
           \/ \A t \in Tokens : tokens'[t].state # "live",
         \A t \in Tokens : outbox[t].state = "none" => outbox'[t] = outbox[t]
  PROVE  TokensInv'
<1>1. Issued' = Issued
  BY DEF Issued
<1>2. \A t \in Tokens : tokens'[t].state = "live" => tokens[t].state = "live"
  BY DEF TypeOK, TokenRows
<1> QED BY <1>1, <1>2 DEF TokensInv

\* Who answers what stays.
LEMMA AnswersKept ==
  ASSUME \A t \in Tokens : tokens'[t].by = tokens[t].by
  PROVE  \A j \in Jobs : Answers(j)' = Answers(j)
BY DEF Answers

\* The row of one request changes, but it is not completed.
LEMMA JobChanges ==
  ASSUME TypeOK, JobsInv, NEW j \in Jobs, NEW r \in JobRows,
         jobs' = [jobs EXCEPT ![j] = r], jobs[j].state # "completed",
         r.state # "completed",
         r.state \in {"none", "pending", "leased"} => r.tries < MaxTries,
         \A t \in Tokens : tokens'[t].by = tokens[t].by
  PROVE  jobs' \in [Jobs -> JobRows] /\ JobsInv'
<1>1. jobs' \in [Jobs -> JobRows]
  BY DEF TypeOK
<1>2. jobs'[j] = r /\ \A k \in Jobs \ {j} : jobs'[k] = jobs[k]
  BY DEF TypeOK
<1>3. \A k \in Jobs : Answers(k)' = Answers(k)
  BY AnswersKept
<1> QED BY <1>1, <1>2, <1>3 DEF JobsInv

\* Requests stay while others work.
LEMMA JobsKept ==
  ASSUME JobsInv, UNCHANGED jobs, \A t \in Tokens : tokens'[t].by = tokens[t].by
  PROVE  JobsInv'
<1>1. \A k \in Jobs : Answers(k)' = Answers(k)
  BY AnswersKept
<1> QED BY <1>1 DEF JobsInv

\* A drain that takes up a delivery that was leased or given out.
Sound(d) ==
  /\ d.pc \in {"preflight", "fence", "sending", "accepted", "failed", "settle"} =>
       d.lease \in Leases /\ d.token \in Tokens
  /\ d.pc \in {"sending", "accepted", "failed"} => attempts'[d.lease].state # "none"
  /\ d.pc = "accepted" => d.lease \in accepted'

\* Attempts, deliveries and drains, when one drain goes on.
LEMMA AttemptsStep ==
  ASSUME TypeOK, AttemptsInv, NEW w \in Drains, NEW d \in DrainStates, Turn(w, d), Sound(d),
         accepted \subseteq accepted', accepted' \subseteq Leases,
         attempts' \in [Leases -> AttemptRows],
         \A l \in Leases :
           /\ attempts[l].state # "none" => attempts'[l].state # "none"
           /\ attempts'[l].state # "none" => attempts'[l].token \in Issued',
         \A l \in accepted' \ accepted : attempts'[l].state # "none",
         \A t \in Tokens :
           /\ outbox'[t].state \in {"leased", "dispatching"} => outbox'[t].lease \in Leases
           /\ outbox'[t].state = "accepted" => outbox'[t].accepted \in accepted'
  PROVE  drain' \in [Drains -> DrainStates] /\ AttemptsInv'
<1>1. /\ drain' \in [Drains -> DrainStates] /\ drain'[w] = d
      /\ \A v \in Drains \ {w} : drain'[v] = drain[v]
  BY DEF Turn, TypeOK
<1>2. ASSUME NEW v \in Drains
      PROVE  /\ drain'[v].pc \in {"preflight", "fence", "sending", "accepted", "failed",
                                  "settle"} =>
                  drain'[v].lease \in Leases /\ drain'[v].token \in Tokens
             /\ drain'[v].pc \in {"sending", "accepted", "failed"} =>
                  attempts'[drain'[v].lease].state # "none"
             /\ drain'[v].pc = "accepted" => drain'[v].lease \in accepted'
  <2>1. CASE v = w
    BY <1>1, <2>1 DEF Sound
  <2>2. CASE v # w
    BY <1>1, <2>2 DEF AttemptsInv
  <2> QED BY <2>1, <2>2
<1>3. \A l \in accepted' : attempts'[l].state # "none"
  BY DEF AttemptsInv
<1> QED BY <1>1, <1>2, <1>3 DEF AttemptsInv

\* ... and when the drains rest.
LEMMA AttemptsKept ==
  ASSUME TypeOK, AttemptsInv, UNCHANGED <<drain, accepted>>,
         \A l \in Leases :
           /\ attempts[l].state # "none" => attempts'[l].state # "none"
           /\ attempts'[l].state # "none" => attempts'[l].token \in Issued',
         \A t \in Tokens :
           /\ outbox'[t].state \in {"leased", "dispatching"} => outbox'[t].lease \in Leases
           /\ outbox'[t].state = "accepted" => outbox'[t].accepted \in accepted
  PROVE  AttemptsInv'
<1>1. \A l \in accepted : attempts'[l].state # "none"
  BY DEF AttemptsInv, TypeOK
<1>2. \A w \in Drains : drain[w].pc \in {"sending", "accepted", "failed"} =>
        attempts'[drain[w].lease].state # "none"
  BY DEF AttemptsInv
<1> QED BY <1>1, <1>2 DEF AttemptsInv

-----------------------------------------------------------------------------
(* Requests                                                                *)

\* The row of a request changes to one that is not completed.
RowChanges(j, r) ==
  /\ r \in JobRows /\ jobs' = [jobs EXCEPT ![j] = r]
  /\ jobs[j].state # "completed" /\ r.state # "completed"
  /\ r.state \in {"none", "pending", "leased"} => r.tries < MaxTries

\* A drain goes on, and at most a request changes.
LEMMA DrainGoes ==
  ASSUME RecoveryInv, NEW w \in Drains, NEW d \in DrainStates, Turn(w, d), Sound(d),
         leases' \in 0..MaxLeases,
         UNCHANGED <<enabled, user, tokens, outbox, attempts, form, accepted, changes>>,
         jobs' = jobs \/ \E j \in Jobs, r \in JobRows : RowChanges(j, r)
  PROVE  RecoveryInv'
<1>1. TypeOK /\ TokensInv /\ JobsInv /\ AttemptsInv
  BY DEF RecoveryInv
<1>2. TokensInv'
  BY <1>1, TokensKept
<1>3. jobs' \in [Jobs -> JobRows] /\ JobsInv'
  BY <1>1, JobChanges, JobsKept DEF RowChanges, TypeOK
<1>4. drain' \in [Drains -> DrainStates] /\ AttemptsInv'
  <2>1. /\ \A l \in Leases : attempts[l].state # "none" => attempts[l].token \in Issued'
        /\ \A t \in Tokens :
             /\ outbox[t].state \in {"leased", "dispatching"} => outbox[t].lease \in Leases
             /\ outbox[t].state = "accepted" => outbox[t].accepted \in accepted
    BY <1>1 DEF AttemptsInv, Issued
  <2>2. accepted \subseteq Leases /\ attempts \in [Leases -> AttemptRows]
    BY <1>1 DEF TypeOK
  <2> QED BY <1>1, <2>1, <2>2, AttemptsStep
<1>5. TypeOK'
  BY <1>1, <1>3, <1>4 DEF TypeOK
<1> QED BY <1>2, <1>3, <1>4, <1>5 DEF RecoveryInv

\* A request changes while the drains rest.
LEMMA RowGoes ==
  ASSUME RecoveryInv, NEW j \in Jobs, NEW r, RowChanges(j, r),
         UNCHANGED <<enabled, user, tokens, outbox, attempts, leases, drain, form, accepted,
                     changes>>
  PROVE  RecoveryInv'
<1>1. TypeOK /\ TokensInv /\ JobsInv /\ AttemptsInv
  BY DEF RecoveryInv
<1>2. jobs' \in [Jobs -> JobRows] /\ JobsInv'
  BY <1>1, JobChanges DEF RowChanges
<1>3. TokensInv' /\ AttemptsInv'
  BY <1>1, TokensKept DEF AttemptsInv, Issued
<1>4. TypeOK'
  BY <1>1, <1>2 DEF TypeOK
<1> QED BY <1>2, <1>3, <1>4 DEF RecoveryInv

\* The row of a request that is open.
LEMMA OpenRow ==
  ASSUME RecoveryInv, NEW j \in Jobs
  PROVE  /\ jobs[j] \in JobRows /\ jobs[j].tries \in Nat
         /\ jobs[j].state \in {"none", "pending", "leased"} => jobs[j].tries < MaxTries
BY RecoveryAssumption DEF RecoveryInv, TypeOK, JobsInv, JobRows

\* The row of a request that ends, or waits again.
LEMMA EndedRow ==
  ASSUME RecoveryInv, NEW j \in Jobs, NEW state \in JobDone \cup {"pending"}
  PROVE  /\ [jobs[j] EXCEPT !.state = state, !.lease = 0] \in JobRows
         /\ [jobs[j] EXCEPT !.state = state, !.lease = 0].state = state
         /\ [jobs[j] EXCEPT !.state = state, !.lease = 0].tries = jobs[j].tries
<1>1. 0 \in 0..MaxLeases
  BY RecoveryAssumption
<1>2. state \in JobDone \cup {"none", "pending", "leased"}
  OBVIOUS
<1> QED BY <1>1, <1>2, OpenRow DEF JobRows

\* A request is made.
LEMMA KeepEnqueue ==
  ASSUME RecoveryInv, NEW j \in Jobs, Enqueue(j)
  PROVE  RecoveryInv'
<1>1. RowChanges(j, [jobs[j] EXCEPT !.state = "pending"])
  BY OpenRow DEF RowChanges, Enqueue, JobRows
<1> QED BY <1>1, RowGoes DEF Enqueue

\* A request grows old.
LEMMA KeepGrowOld ==
  ASSUME RecoveryInv, NEW j \in Jobs, GrowOld(j)
  PROVE  RecoveryInv'
<1>1. RowChanges(j, [jobs[j] EXCEPT !.old = TRUE])
  BY OpenRow DEF RowChanges, GrowOld, JobRows
<1> QED BY <1>1, RowGoes DEF GrowOld

\* An old request expires.
LEMMA KeepExpireJob ==
  ASSUME RecoveryInv, NEW j \in Jobs, ExpireJob(j)
  PROVE  RecoveryInv'
<1> DEFINE r == [jobs[j] EXCEPT !.state = "expired", !.lease = 0]
<1>1. r \in JobRows /\ r.state = "expired"
  BY EndedRow DEF JobDone
<1>2. jobs' = [jobs EXCEPT ![j] = r]
  BY DEF ExpireJob
<1> HIDE DEF r
<1>3. RowChanges(j, r)
  BY <1>1, <1>2 DEF RowChanges, ExpireJob
<1> QED BY <1>3, RowGoes DEF ExpireJob

\* The state of a drain is one of the states of drains.
LEMMA DrainTyped ==
  ASSUME RecoveryInv, NEW w \in Drains
  PROVE  drain[w] \in DrainStates /\ Free \in DrainStates
BY RecoveryAssumption DEF RecoveryInv, TypeOK, DrainStates, Free

\* The next lease is given out within the bound.
LEMMA FreshLease ==
  ASSUME RecoveryInv, leases < MaxLeases
  PROVE  Fresh \in Leases /\ Fresh \in 0..MaxLeases
BY RecoveryAssumption DEF RecoveryInv, TypeOK, Fresh, Leases

\* A drain that has nothing in its hands.
LEMMA IdleSound ==
  ASSUME NEW d \in DrainStates, d.pc \in {"free", "request", "issue", "retry"}
  PROVE  Sound(d)
BY DEF Sound

\* A drain leases a request.
LEMMA KeepLeaseJob ==
  ASSUME RecoveryInv, NEW w \in Drains, NEW j \in Jobs, LeaseJob(w, j)
  PROVE  RecoveryInv'
<1> DEFINE d == [Free EXCEPT !.pc = "request", !.job = {j}, !.lease = Fresh]
           r == [jobs[j] EXCEPT !.state = "leased", !.lease = Fresh]
<1>1. Fresh \in 0..MaxLeases
  BY FreshLease DEF LeaseJob
<1>2. d \in DrainStates /\ Sound(d)
  <2>1. d.pc = "request" /\ d.job = {j} /\ d.token = 0 /\ d.lease = Fresh /\ d.verdict = "none"
    BY DEF Free
  <2>2. 0 \in 0..MaxTokens
    BY RecoveryAssumption
  <2>3. d \in DrainStates
    BY <1>1, <2>1, <2>2 DEF Free, DrainStates
  <2> HIDE DEF d
  <2> QED BY <2>1, <2>3, IdleSound
<1>3. RowChanges(j, r) /\ r \in JobRows
  BY <1>1, OpenRow DEF RowChanges, LeaseJob, JobRows
<1>4. /\ Turn(w, d) /\ leases' \in 0..MaxLeases
      /\ UNCHANGED <<enabled, user, tokens, outbox, attempts, form, accepted, changes>>
  BY <1>1 DEF LeaseJob
<1> HIDE DEF d, r
<1> QED BY <1>2, <1>3, <1>4, DrainGoes

\* A drain that works on requests goes on.
LEMMA RequestGoes ==
  ASSUME RecoveryInv, NEW w \in Drains, NEW pc \in {"issue", "retry"},
         Turn(w, Free) \/ Turn(w, [drain[w] EXCEPT !.pc = pc]), leases' = leases,
         UNCHANGED <<enabled, user, tokens, outbox, attempts, form, accepted, changes>>,
         jobs' = jobs \/ \E j \in Jobs, r \in JobRows : RowChanges(j, r)
  PROVE  RecoveryInv'
<1>1. leases \in 0..MaxLeases
  BY DEF RecoveryInv, TypeOK
<1>2. ASSUME Turn(w, Free)
      PROVE  RecoveryInv'
  <2>1. Free \in DrainStates /\ Free.pc = "free"
    BY DrainTyped DEF Free
  <2> QED BY <1>1, <1>2, <2>1, IdleSound, DrainGoes
<1>3. ASSUME Turn(w, [drain[w] EXCEPT !.pc = pc])
      PROVE  RecoveryInv'
  <2> DEFINE d == [drain[w] EXCEPT !.pc = pc]
  <2>1. d \in DrainStates /\ d.pc = pc
    BY DrainTyped DEF DrainStates
  <2>2. Turn(w, d)
    BY <1>3
  <2> HIDE DEF d
  <2> QED BY <1>1, <2>1, <2>2, IdleSound, DrainGoes
<1> QED BY <1>2, <1>3

\* A request that is held is given another state.
LEMMA CompleteRow ==
  ASSUME RecoveryInv, NEW w \in Drains, NEW j \in Jobs, NEW state \in JobDone \ {"completed"},
         CompleteJob(w, j, state)
  PROVE  jobs' = jobs \/ \E k \in Jobs, r \in JobRows : RowChanges(k, r)
<1>1. CASE HoldsJob(w, j)
  <2> DEFINE r == [jobs[j] EXCEPT !.state = state, !.lease = 0]
  <2>1. RowChanges(j, r) /\ r \in JobRows
    <3>1. r \in JobRows /\ r.state = state
      BY EndedRow
    <3>2. jobs' = [jobs EXCEPT ![j] = r] /\ jobs[j].state = "leased"
      BY <1>1 DEF CompleteJob, HoldsJob
    <3> HIDE DEF r
    <3> QED BY <3>1, <3>2 DEF RowChanges, JobDone
  <2> QED BY <2>1
<1>2. CASE ~HoldsJob(w, j)
  BY <1>2 DEF CompleteJob
<1> QED BY <1>1, <1>2

\* A drain reads its request.
LEMMA KeepReadRequest ==
  ASSUME RecoveryInv, NEW w \in Drains, NEW j \in Jobs, ReadRequest(w, j)
  PROVE  RecoveryInv'
<1>1. /\ leases' = leases
      /\ UNCHANGED <<enabled, user, tokens, outbox, attempts, form, accepted, changes>>
  BY DEF ReadRequest
<1>2. CASE (CompleteJob(w, j, "parked") \/ CompleteJob(w, j, "suppressed")) /\ Turn(w, Free)
  <2>1. jobs' = jobs \/ \E k \in Jobs, r \in JobRows : RowChanges(k, r)
    BY <1>2, CompleteRow DEF JobDone
  <2> QED BY <1>1, <1>2, <2>1, RequestGoes
<1>3. CASE jobs' = jobs /\ \/ Turn(w, [drain[w] EXCEPT !.pc = "retry"])
                           \/ Turn(w, [drain[w] EXCEPT !.pc = "issue"])
  BY <1>1, <1>3, RequestGoes
<1> QED BY <1>2, <1>3 DEF ReadRequest

\* A drain gives its request back.
LEMMA KeepRetryRequest ==
  ASSUME RecoveryInv, NEW w \in Drains, NEW j \in Jobs, RetryRequest(w, j)
  PROVE  RecoveryInv'
<1>1. /\ leases' = leases /\ Turn(w, Free)
      /\ UNCHANGED <<enabled, user, tokens, outbox, attempts, form, accepted, changes>>
  BY DEF RetryRequest
<1>2. jobs' = jobs \/ \E k \in Jobs, r \in JobRows : RowChanges(k, r)
  <2>1. CASE HoldsJob(w, j)
    <3> DEFINE s == IF jobs[j].old THEN "expired" ELSE IF Exhausted(j) THEN "parked"
                    ELSE "pending"
               r == [jobs[j] EXCEPT !.lease = 0, !.tries = @ + 1, !.state = s]
    <3>1. jobs[j] \in JobRows /\ jobs[j].tries \in Nat /\ jobs[j].tries < MaxTries
      BY <2>1, OpenRow DEF HoldsJob
    <3>2. jobs' = [jobs EXCEPT ![j] = r]
      BY <2>1 DEF RetryRequest
    <3>3. s \in {"expired", "parked", "pending"} /\ (s = "pending" => jobs[j].tries + 1 < MaxTries)
      BY <3>1, RecoveryAssumption DEF Exhausted
    <3> HIDE DEF s
    <3>4. r \in JobRows /\ r.state = s /\ r.tries = jobs[j].tries + 1
      <4>1. 0 \in 0..MaxLeases /\ jobs[j].tries + 1 \in 0..MaxTries
        BY <3>1, RecoveryAssumption
      <4>2. s \in JobDone \cup {"none", "pending", "leased"}
        BY <3>3 DEF JobDone
      <4> QED BY <3>1, <4>1, <4>2 DEF JobRows
    <3> HIDE DEF r
    <3>5. RowChanges(j, r)
      BY <2>1, <3>2, <3>3, <3>4 DEF RowChanges, HoldsJob
    <3> QED BY <3>4, <3>5
  <2>2. CASE ~HoldsJob(w, j)
    BY <2>2 DEF RetryRequest
  <2> QED BY <2>1, <2>2
<1> QED BY <1>1, <1>2, RequestGoes

\* A drain is stopped, or its batch fails.
LEMMA KeepDrainEnds ==
  ASSUME RecoveryInv, NEW w \in Drains, IssueFails(w) \/ DrainEnds(w)
  PROVE  RecoveryInv'
<1>1. /\ leases' = leases /\ jobs' = jobs
      /\ Turn(w, Free) \/ Turn(w, [drain[w] EXCEPT !.pc = "retry"])
      /\ UNCHANGED <<enabled, user, tokens, outbox, attempts, form, accepted, changes>>
  BY DEF IssueFails, DrainEnds
<1> QED BY <1>1, RequestGoes

-----------------------------------------------------------------------------
(* Tokens                                                                  *)

\* What is left of the tokens when every unused one is consumed.
LEMMA ConsumedFacts ==
  ASSUME TypeOK
  PROVE  /\ Consumed \in [Tokens -> TokenRows]
         /\ \A t \in Tokens : /\ Consumed[t].by = tokens[t].by
                              /\ Consumed[t].recent = tokens[t].recent
                              /\ Consumed[t].state # "live"
                              /\ Consumed[t].state \in {tokens[t].state, "consumed"}
                              /\ Consumed[t].state = "none" <=> tokens[t].state = "none"
BY DEF TypeOK, Consumed, TokenRows

\* Cancelling touches only deliveries that have not begun.
LEMMA CancelledFacts ==
  ASSUME TypeOK, NEW ts
  PROVE  /\ Cancelled(ts) \in [Tokens -> DeliveryRows]
         /\ \A t \in Tokens :
              \/ Cancelled(ts)[t] = outbox[t]
              \/ /\ outbox[t].state \in {"pending", "leased"}
                 /\ Cancelled(ts)[t].state = "cancelled"
<1>1. ASSUME NEW t \in Tokens
      PROVE  [outbox[t] EXCEPT !.state = "cancelled", !.lease = 0] \in DeliveryRows
  <2>1. 0 \in 0..MaxLeases /\ "cancelled" \in Verdicts
    BY RecoveryAssumption DEF Verdicts
  <2> QED BY <2>1 DEF TypeOK, DeliveryRows
<1>2. Cancelled(ts) \in [Tokens -> DeliveryRows]
  BY <1>1 DEF Cancelled, TypeOK
<1>3. ASSUME NEW t \in Tokens
      PROVE  \/ Cancelled(ts)[t] = outbox[t]
             \/ /\ outbox[t].state \in {"pending", "leased"}
                /\ Cancelled(ts)[t].state = "cancelled"
  BY DEF Cancelled, TypeOK, DeliveryRows
<1> QED BY <1>2, <1>3

\* The drains do not notice a delivery that is cancelled.
LEMMA CancelKeeps ==
  ASSUME TypeOK, AttemptsInv, NEW ts, outbox' = outbox \/ outbox' = Cancelled(ts),
         UNCHANGED <<attempts, drain, accepted>>, Issued \subseteq Issued'
  PROVE  /\ outbox' \in [Tokens -> DeliveryRows] /\ AttemptsInv'
         /\ \A t \in Tokens : outbox[t].state = "none" => outbox'[t] = outbox[t]
<1>1. \A t \in Tokens : \/ outbox'[t] = outbox[t]
                        \/ /\ outbox[t].state \in {"pending", "leased"}
                           /\ outbox'[t].state = "cancelled"
  BY CancelledFacts
<1>2. outbox' \in [Tokens -> DeliveryRows]
  BY CancelledFacts DEF TypeOK
<1>3. \A t \in Tokens :
        /\ outbox'[t].state \in {"leased", "dispatching"} => outbox'[t].lease \in Leases
        /\ outbox'[t].state = "accepted" => outbox'[t].accepted \in accepted
  BY <1>1 DEF AttemptsInv
<1>4. \A l \in Leases : attempts[l].state # "none" => attempts[l].token \in Issued'
  BY DEF AttemptsInv
<1> QED BY <1>1, <1>2, <1>3, <1>4, AttemptsKept

\* Tokens end, and deliveries with them, while requests and drains rest.
LEMMA TokensGo ==
  ASSUME RecoveryInv, NEW ts, outbox' = outbox \/ outbox' = Cancelled(ts),
         tokens' \in [Tokens -> TokenRows], enabled' \in BOOLEAN,
         user' \in [active : BOOLEAN, version : Nat], form' \in [Submitters -> 0..MaxTokens],
         UNCHANGED <<jobs, attempts, leases, drain, accepted, changes>>,
         \A t \in Tokens : /\ tokens'[t].state = "none" <=> tokens[t].state = "none"
                           /\ tokens'[t].state \in {tokens[t].state, "consumed"}
                           /\ tokens'[t].by = tokens[t].by,
         user'.active = user.active \/ user'.active
           \/ \A t \in Tokens : tokens'[t].state # "live"
  PROVE  RecoveryInv'
<1>1. TypeOK /\ TokensInv /\ JobsInv /\ AttemptsInv
  BY DEF RecoveryInv
<1>2. /\ outbox' \in [Tokens -> DeliveryRows] /\ AttemptsInv'
      /\ \A t \in Tokens : outbox[t].state = "none" => outbox'[t] = outbox[t]
  <2>1. Issued \subseteq Issued'
    BY DEF Issued
  <2> QED BY <1>1, <2>1, CancelKeeps
<1>3. TokensInv' /\ JobsInv'
  BY <1>1, <1>2, TokensEnd, JobsKept
<1>4. TypeOK'
  BY <1>1, <1>2 DEF TypeOK
<1> QED BY <1>2, <1>3, <1>4 DEF RecoveryInv

\* A token leaves the window of the limit, or expires.
LEMMA KeepTimePasses ==
  ASSUME RecoveryInv, NEW t \in Tokens, WindowPasses(t) \/ TokenExpires(t)
  PROVE  RecoveryInv'
<1>1. TypeOK
  BY DEF RecoveryInv
<1>2. /\ tokens' \in [Tokens -> TokenRows]
      /\ \A u \in Tokens : tokens'[u].state = tokens[u].state /\ tokens'[u].by = tokens[u].by
  <2>1. CASE WindowPasses(t)
    BY <1>1, <2>1 DEF WindowPasses, TypeOK, TokenRows
  <2>2. CASE TokenExpires(t)
    <3> DEFINE r == [tokens[t] EXCEPT !.expired = TRUE, !.recent = FALSE]
    <3>1. r \in TokenRows /\ r.state = tokens[t].state /\ r.by = tokens[t].by
      BY <1>1 DEF TypeOK, TokenRows
    <3>2. tokens' = [tokens EXCEPT ![t] = r]
      BY <2>2 DEF TokenExpires
    <3> HIDE DEF r
    <3> QED BY <1>1, <3>1, <3>2 DEF TypeOK
  <2> QED BY <2>1, <2>2
<1>3. UNCHANGED <<enabled, user, jobs, outbox, attempts, leases, drain, form, accepted, changes>>
  BY DEF WindowPasses, TokenExpires
<1> QED BY <1>1, <1>2, <1>3, TokensGo DEF TypeOK

\* A form is opened, an account activated, the switch turned.
LEMMA KeepOpenings ==
  ASSUME RecoveryInv,
         \/ \E s \in Submitters, t \in Tokens : OpenForm(s, t)
         \/ Activate \/ SetControl
  PROVE  RecoveryInv'
<1>1. TypeOK
  BY DEF RecoveryInv
<1>2. form' \in [Submitters -> 0..MaxTokens]
  <2>1. ASSUME NEW s \in Submitters, NEW t \in Tokens, OpenForm(s, t)
        PROVE  form' \in [Submitters -> 0..MaxTokens]
    <3>1. t \in 0..MaxTokens
      BY RecoveryAssumption DEF Tokens
    <3> QED BY <1>1, <2>1, <3>1 DEF TypeOK, OpenForm
  <2> QED BY <1>1, <2>1 DEF TypeOK, Activate, SetControl
<1>3. user' \in [active : BOOLEAN, version : Nat] /\ (user'.active = user.active \/ user'.active)
  BY <1>1 DEF TypeOK, OpenForm, Activate, SetControl
<1>4. /\ enabled' \in BOOLEAN
      /\ UNCHANGED <<jobs, tokens, outbox, attempts, leases, drain, accepted, changes>>
  BY <1>1 DEF TypeOK, OpenForm, Activate, SetControl
<1> QED BY <1>1, <1>2, <1>3, <1>4, TokensGo DEF TypeOK

\* An administrator replaces the credentials, or deactivates the account.
LEMMA KeepAdministration ==
  ASSUME RecoveryInv, ReplaceCredentials \/ Deactivate
  PROVE  RecoveryInv'
<1>1. TypeOK
  BY DEF RecoveryInv
<1>2. user' \in [active : BOOLEAN, version : Nat]
  <2>1. user \in [active : BOOLEAN, version : Nat] /\ user.version + 1 \in Nat
    BY <1>1 DEF TypeOK
  <2>2. user' \in {[user EXCEPT !.version = user.version + 1],
                   [user EXCEPT !.active = FALSE, !.version = user.version + 1]}
    BY DEF ReplaceCredentials, Deactivate
  <2> QED BY <2>1, <2>2
<1>3. /\ tokens' = Consumed /\ outbox' = Cancelled(Tokens)
      /\ UNCHANGED <<enabled, jobs, attempts, leases, drain, form, accepted, changes>>
  BY DEF ReplaceCredentials, Deactivate
<1> QED BY <1>1, <1>2, <1>3, ConsumedFacts, TokensGo DEF TypeOK

\* A link is used: its token is consumed, and counts one change.
LEMMA KeepConsume ==
  ASSUME RecoveryInv, NEW s \in Submitters, Consume(s)
  PROVE  RecoveryInv'
<1> DEFINE t == form[s]
<1>1. TypeOK /\ TokensInv /\ JobsInv /\ AttemptsInv
  BY DEF RecoveryInv
<1>2. /\ form' \in [Submitters -> 0..MaxTokens]
      /\ UNCHANGED <<enabled, jobs, attempts, leases, drain, accepted>>
  BY <1>1, RecoveryAssumption DEF Consume, TypeOK
<1>3. CASE ~Usable(t)
  <2>1. UNCHANGED <<tokens, outbox, user, changes>>
    BY <1>3 DEF Consume
  <2> QED BY <1>1, <1>2, <2>1, TokensGo DEF TypeOK
<1>4. CASE Usable(t)
  <2>1. t \in Tokens /\ tokens[t].state = "live" /\ t \in Issued
    BY <1>4 DEF Usable, Live, Issued
  <2>2. /\ tokens' = [tokens EXCEPT ![t].state = "consumed"] /\ outbox' = Cancelled({t})
        /\ user' = [user EXCEPT !.version = @ + 1]
        /\ changes' = [changes EXCEPT ![t] = @ + 1]
    BY <1>4 DEF Consume
  <2> HIDE DEF t
  <2>3. /\ tokens' \in [Tokens -> TokenRows]
        /\ tokens'[t].state = "consumed" /\ tokens'[t].by = tokens[t].by
        /\ \A u \in Tokens \ {t} : tokens'[u] = tokens[u]
    BY <1>1, <2>1, <2>2 DEF TypeOK, TokenRows
  <2>4. /\ changes[t] = 0 /\ changes'[t] = 1 /\ changes' \in [Tokens -> Nat]
        /\ \A u \in Tokens \ {t} : changes'[u] = changes[u]
    BY <1>1, <2>1, <2>2 DEF TypeOK, TokensInv
  <2>5. user' \in [active : BOOLEAN, version : Nat] /\ user'.active = user.active
    BY <1>1, <2>2 DEF TypeOK
  <2>6. /\ outbox' \in [Tokens -> DeliveryRows] /\ AttemptsInv'
        /\ \A u \in Tokens : outbox[u].state = "none" => outbox'[u] = outbox[u]
    <3>1. Issued \subseteq Issued'
      BY <2>3 DEF Issued
    <3> QED BY <1>1, <1>2, <2>2, <3>1, CancelKeeps
  <2>7. JobsInv'
    BY <1>1, <1>2, <2>3, JobsKept
  <2>8. TokensInv'
    <3>1. Issued' = Issued
      BY <2>1, <2>3 DEF Issued
    <3>2. \A u \in Tokens : tokens'[u].state = "live" => tokens[u].state = "live"
      BY <2>3
    <3> QED BY <1>1, <2>3, <2>4, <2>5, <2>6, <3>1, <3>2 DEF TokensInv
  <2> QED BY <1>1, <1>2, <2>3, <2>4, <2>5, <2>6, <2>7, <2>8 DEF RecoveryInv, TypeOK
<1> QED BY <1>3, <1>4

\* A link is issued for a request: the first token that was not issued yet is
\* the one that works, and the answer to the request.
LEMMA IssueGoes ==
  ASSUME RecoveryInv, NEW j \in Jobs, NEW id, id = Cardinality(Issued) + 1, id \in Tokens,
         Supersede(id, [NoToken EXCEPT !.state = "live", !.recent = TRUE, !.by = j]),
         jobs' = [jobs EXCEPT ![j].state = "completed", ![j].lease = 0],
         jobs[j].state = "leased", user.active,
         UNCHANGED <<user, attempts, accepted, changes>>
  PROVE  /\ tokens' \in [Tokens -> TokenRows] /\ outbox' \in [Tokens -> DeliveryRows]
         /\ jobs' \in [Jobs -> JobRows] /\ TokensInv' /\ JobsInv'
         /\ Issued \subseteq Issued'
         /\ \A t \in Tokens :
              /\ outbox'[t].state \in {"leased", "dispatching"} => outbox'[t].lease \in Leases
              /\ outbox'[t].state = "accepted" => outbox'[t].accepted \in accepted
<1> DEFINE new == [NoToken EXCEPT !.state = "live", !.recent = TRUE, !.by = j]
           sent == [NoDelivery EXCEPT !.state = "pending"]
           done == [jobs[j] EXCEPT !.state = "completed", !.lease = 0]
<1>1. TypeOK /\ TokensInv /\ JobsInv /\ AttemptsInv
  BY DEF RecoveryInv
<1>2. id \notin Issued /\ Issued \cup {id} = 1..id /\ id \in 0..MaxTokens
  BY <1>1, NextToken, RecoveryAssumption DEF Tokens
<1>3. new \in TokenRows /\ new.state = "live" /\ new.by = j
  BY DEF NoToken, TokenRows
<1>4. sent \in DeliveryRows /\ sent.state = "pending"
  <2>1. 0 \in 0..MaxLeases /\ "pending" \in Verdicts
    BY RecoveryAssumption DEF Verdicts
  <2> QED BY <2>1 DEF NoDelivery, DeliveryRows
<1>5. done \in JobRows /\ done.state = "completed"
  BY EndedRow DEF JobDone
<1>6. /\ tokens' = [Consumed EXCEPT ![id] = new]
      /\ outbox' = [Cancelled(Tokens) EXCEPT ![id] = sent]
      /\ jobs' = [jobs EXCEPT ![j] = done]
  BY DEF Supersede
<1> HIDE DEF new, sent, done
<1>7. /\ tokens' \in [Tokens -> TokenRows] /\ tokens'[id] = new
      /\ \A t \in Tokens \ {id} : tokens'[t] = Consumed[t]
  BY <1>1, <1>3, <1>6, ConsumedFacts
<1>8. /\ outbox' \in [Tokens -> DeliveryRows] /\ outbox'[id] = sent
      /\ \A t \in Tokens \ {id} : outbox'[t] = Cancelled(Tokens)[t]
  BY <1>1, <1>4, <1>6, CancelledFacts
<1>9. /\ jobs' \in [Jobs -> JobRows] /\ jobs'[j] = done
      /\ \A k \in Jobs \ {j} : jobs'[k] = jobs[k]
  BY <1>1, <1>5, <1>6 DEF TypeOK
<1>10. Issued' = Issued \cup {id}
  BY <1>1, <1>3, <1>7, ConsumedFacts DEF Issued
<1>11. TokensInv'
  <2>1. \A t \in Tokens : tokens'[t].state = "live" <=> t = id
    BY <1>1, <1>3, <1>7, ConsumedFacts
  <2>2. changes[id] # 1
    BY <1>1, <1>2 DEF TokensInv, Issued
  <2>3. ASSUME NEW t \in Tokens
        PROVE  changes[t] <= 1 /\ (changes[t] = 1 => tokens'[t].state = "consumed")
    <3>1. CASE t = id
      BY <1>1, <2>2, <3>1 DEF TokensInv
    <3>2. CASE t # id
      BY <1>1, <1>7, <3>2, ConsumedFacts DEF TokensInv
    <3> QED BY <3>1, <3>2
  <2>4. ASSUME NEW t \in Tokens \ Issued'
        PROVE  tokens'[t].by = "none" /\ outbox'[t].state = "none"
    <3>1. t # id /\ t \notin Issued
      BY <1>10
    <3>2. tokens[t].by = "none" /\ outbox[t].state = "none"
      BY <1>1, <3>1 DEF TokensInv
    <3>3. Cancelled(Tokens)[t] = outbox[t]
      BY <1>1, <3>2, CancelledFacts
    <3> QED BY <1>1, <1>7, <1>8, <3>1, <3>2, <3>3, ConsumedFacts
  <2>5. \E n \in 0..MaxTokens : Issued' = 1..n
    BY <1>2, <1>10
  <2> QED BY <2>1, <2>3, <2>4, <2>5 DEF TokensInv
<1>12. JobsInv'
  <2>1. tokens[id].by = "none" /\ j # "none"
    BY <1>1, <1>2, RecoveryAssumption DEF TokensInv
  <2>2. Answers(j)' = {id}
    <3>1. Answers(j) = {}
      BY <1>1 DEF JobsInv
    <3> QED BY <1>1, <1>3, <1>7, <3>1, ConsumedFacts DEF Answers
  <2>3. \A k \in Jobs \ {j} : Answers(k)' = Answers(k)
    BY <1>1, <1>3, <1>7, <2>1, ConsumedFacts, RecoveryAssumption DEF Answers
  <2> QED BY <1>1, <1>5, <1>9, <2>2, <2>3 DEF JobsInv
<1>13. ASSUME NEW t \in Tokens
       PROVE  /\ outbox'[t].state \in {"leased", "dispatching"} => outbox'[t].lease \in Leases
              /\ outbox'[t].state = "accepted" => outbox'[t].accepted \in accepted
  <2>1. CASE t = id
    BY <1>4, <1>8, <2>1
  <2>2. CASE t # id
    BY <1>1, <1>8, <2>2, CancelledFacts DEF AttemptsInv
  <2> QED BY <2>1, <2>2
<1> QED BY <1>7, <1>8, <1>9, <1>10, <1>11, <1>12, <1>13

\* A drain issues a link, or finds that it may not.
LEMMA KeepIssue ==
  ASSUME RecoveryInv, NEW w \in Drains, NEW j \in Jobs, Issue(w, j)
  PROVE  RecoveryInv'
<1>1. TypeOK /\ TokensInv /\ JobsInv /\ AttemptsInv
  BY DEF RecoveryInv
<1>2. /\ Turn(w, Free) \/ Turn(w, [drain[w] EXCEPT !.pc = "retry"])
      /\ UNCHANGED <<enabled, user, attempts, leases, form, accepted, changes>>
  BY DEF Issue
<1>3. CASE HoldsForIssue(w, j) /\ MayIssue
  <2>1. /\ tokens' \in [Tokens -> TokenRows] /\ outbox' \in [Tokens -> DeliveryRows]
        /\ jobs' \in [Jobs -> JobRows] /\ TokensInv' /\ JobsInv'
        /\ Issued \subseteq Issued'
        /\ \A t \in Tokens :
             /\ outbox'[t].state \in {"leased", "dispatching"} => outbox'[t].lease \in Leases
             /\ outbox'[t].state = "accepted" => outbox'[t].accepted \in accepted
    <3> DEFINE id == Cardinality(Issued) + 1
    <3>1. /\ id \in Tokens
          /\ Supersede(id, [NoToken EXCEPT !.state = "live", !.recent = TRUE, !.by = j])
          /\ jobs' = [jobs EXCEPT ![j].state = "completed", ![j].lease = 0]
      BY <1>3 DEF Issue
    <3>2. jobs[j].state = "leased" /\ user.active
      BY <1>3 DEF HoldsForIssue, HoldsJob, MayIssue
    <3> HIDE DEF id
    <3>3. id = Cardinality(Issued) + 1
      BY DEF id
    <3> QED BY <1>2, <3>1, <3>2, <3>3, IssueGoes
  <2>2. PICK d \in DrainStates : Turn(w, d) /\ d.pc \in {"free", "retry"}
    <3>1. Free \in DrainStates /\ Free.pc = "free"
      BY DrainTyped DEF Free
    <3>2. /\ [drain[w] EXCEPT !.pc = "retry"] \in DrainStates
          /\ [drain[w] EXCEPT !.pc = "retry"].pc = "retry"
      BY DrainTyped DEF DrainStates
    <3> QED BY <1>2, <3>1, <3>2
  <2>3. drain' \in [Drains -> DrainStates] /\ AttemptsInv'
    <3>1. \A l \in Leases : attempts[l].state # "none" => attempts[l].token \in Issued'
      BY <1>1, <2>1 DEF AttemptsInv
    <3>2. Sound(d)
      BY <2>2, IdleSound
    <3>3. accepted \subseteq Leases /\ attempts \in [Leases -> AttemptRows]
      BY <1>1 DEF TypeOK
    <3> QED BY <1>1, <1>2, <2>1, <2>2, <3>1, <3>2, <3>3, AttemptsStep
  <2> QED BY <1>1, <1>2, <2>1, <2>3 DEF RecoveryInv, TypeOK
<1>4. CASE ~(HoldsForIssue(w, j) /\ MayIssue)
  <2>1. UNCHANGED <<tokens, outbox>>
    BY <1>4 DEF Issue
  <2>2. jobs' = jobs \/ \E k \in Jobs, r \in JobRows : RowChanges(k, r)
    <3>1. CASE HoldsJob(w, j)
      <4> DEFINE s == IF ~user.active THEN "suppressed"
                      ELSE IF jobs[j].old THEN "expired" ELSE "pending"
                 r == [jobs[j] EXCEPT !.state = s, !.lease = 0]
      <4>1. s \in {"suppressed", "expired", "pending"}
        OBVIOUS
      <4>2. jobs' = [jobs EXCEPT ![j] = r]
        BY <1>4, <3>1 DEF Issue
      <4> HIDE DEF s
      <4>3. r \in JobRows /\ r.state = s /\ r.tries = jobs[j].tries
        BY <4>1, EndedRow DEF JobDone
      <4> HIDE DEF r
      <4>4. RowChanges(j, r)
        BY <3>1, <4>1, <4>2, <4>3, OpenRow DEF RowChanges, HoldsJob
      <4> QED BY <4>3, <4>4
    <3>2. CASE ~HoldsJob(w, j)
      BY <1>4, <3>2 DEF Issue
    <3> QED BY <3>1, <3>2
  <2> QED BY <1>2, <2>1, <2>2, RequestGoes
<1> QED BY <1>3, <1>4

-----------------------------------------------------------------------------
(* Deliveries                                                              *)

\* A drain goes on, and with it a delivery, attempts and acceptances.
LEMMA DeliveryGoes ==
  ASSUME RecoveryInv, NEW w \in Drains, NEW d \in DrainStates, Turn(w, d), Sound(d),
         UNCHANGED <<enabled, user, jobs, tokens, form, changes>>,
         leases' \in 0..MaxLeases, accepted \subseteq accepted', accepted' \subseteq Leases,
         attempts' \in [Leases -> AttemptRows], outbox' \in [Tokens -> DeliveryRows],
         \A l \in Leases :
           /\ attempts[l].state # "none" => attempts'[l].state # "none"
           /\ attempts'[l].state # "none" => attempts'[l].token \in Issued,
         \A l \in accepted' \ accepted : attempts'[l].state # "none",
         \A t \in Tokens :
           /\ outbox[t].state = "none" => outbox'[t] = outbox[t]
           /\ outbox'[t].state \in {"leased", "dispatching"} => outbox'[t].lease \in Leases
           /\ outbox'[t].state = "accepted" => outbox'[t].accepted \in accepted'
  PROVE  RecoveryInv'
<1>1. TypeOK /\ TokensInv /\ JobsInv /\ AttemptsInv
  BY DEF RecoveryInv
<1>2. TokensInv' /\ JobsInv'
  BY <1>1, TokensKept, JobsKept
<1>3. drain' \in [Drains -> DrainStates] /\ AttemptsInv'
  <2>1. Issued' = Issued
    BY DEF Issued
  <2> QED BY <1>1, <2>1, AttemptsStep
<1>4. TypeOK'
  BY <1>1, <1>3 DEF TypeOK
<1> QED BY <1>2, <1>3, <1>4 DEF RecoveryInv

\* What a drain that works on a delivery has in its hands.
LEMMA InHands ==
  ASSUME RecoveryInv, NEW w \in Drains,
         drain[w].pc \in {"preflight", "fence", "sending", "accepted", "failed", "settle"}
  PROVE  /\ drain[w] \in DrainStates
         /\ drain[w].lease \in Leases /\ drain[w].token \in Tokens
         /\ drain[w].pc \in {"sending", "accepted", "failed"} =>
              attempts[drain[w].lease].state # "none"
         /\ drain[w].pc = "accepted" => drain[w].lease \in accepted
BY DEF RecoveryInv, TypeOK, AttemptsInv

\* A drain leaves the requests, deliveries and attempts as they are.
LEMMA HandsGo ==
  ASSUME RecoveryInv, NEW w \in Drains, NEW d \in DrainStates, Turn(w, d), Sound(d),
         UNCHANGED <<enabled, user, jobs, tokens, outbox, attempts, leases, form, accepted,
                     changes>>
  PROVE  RecoveryInv'
<1>1. leases \in 0..MaxLeases
  BY DEF RecoveryInv, TypeOK
<1> QED BY <1>1, DrainGoes

\* Nobody has anything to do.
LEMMA FreeGo ==
  ASSUME RecoveryInv, NEW w \in Drains, Turn(w, Free),
         UNCHANGED <<enabled, user, jobs, tokens, outbox, attempts, leases, form, accepted,
                     changes>>
  PROVE  RecoveryInv'
<1>1. Free \in DrainStates /\ Free.pc = "free"
  BY DrainTyped DEF Free
<1> QED BY <1>1, IdleSound, HandsGo

\* A drain is about to settle its delivery.
LEMMA SettleGo ==
  ASSUME RecoveryInv, NEW w \in Drains, NEW v \in Verdicts,
         drain[w].pc \in {"preflight", "fence", "failed"},
         Turn(w, [drain[w] EXCEPT !.pc = "settle", !.verdict = v]),
         UNCHANGED <<enabled, user, jobs, tokens, outbox, attempts, leases, form, accepted,
                     changes>>
  PROVE  RecoveryInv'
<1> DEFINE d == [drain[w] EXCEPT !.pc = "settle", !.verdict = v]
<1>1. d \in DrainStates /\ Sound(d)
  BY InHands DEF DrainStates, Sound
<1>2. Turn(w, d)
  OBVIOUS
<1> HIDE DEF d
<1> QED BY <1>1, <1>2, HandsGo

\* What a token's row says is a verdict.
LEMMA JudgedFacts ==
  ASSUME NEW t
  PROVE  Judged(t) \in Verdicts
BY DEF Judged, Verdicts

\* A drain leases a delivery.
LEMMA KeepLeaseDelivery ==
  ASSUME RecoveryInv, NEW w \in Drains, NEW t \in Tokens, LeaseDelivery(w, t)
  PROVE  RecoveryInv'
<1> DEFINE d == [Free EXCEPT !.pc = "preflight", !.token = t, !.lease = Fresh]
           r == [outbox[t] EXCEPT !.state = "leased", !.lease = Fresh]
<1>1. TypeOK /\ AttemptsInv /\ Fresh \in Leases /\ Fresh \in 0..MaxLeases
  BY FreshLease DEF LeaseDelivery, RecoveryInv
<1>2. d \in DrainStates /\ Sound(d)
  <2>1. t \in 0..MaxTokens
    BY RecoveryAssumption DEF Tokens
  <2> QED BY <1>1, <2>1, DrainTyped DEF DrainStates, Sound, Free
<1>3. r \in DeliveryRows /\ r.state = "leased" /\ r.lease = Fresh
  BY <1>1 DEF TypeOK, DeliveryRows
<1>4. /\ outbox' = [outbox EXCEPT ![t] = r] /\ outbox[t].state \in {"pending", "leased"}
      /\ leases' = Fresh /\ Turn(w, d)
      /\ UNCHANGED <<enabled, user, jobs, tokens, attempts, form, accepted, changes>>
  BY DEF LeaseDelivery
<1> HIDE DEF d, r
<1>5. /\ outbox' \in [Tokens -> DeliveryRows] /\ outbox'[t] = r
      /\ \A u \in Tokens \ {t} : outbox'[u] = outbox[u]
  BY <1>1, <1>3, <1>4 DEF TypeOK
<1>6. \A u \in Tokens :
        /\ outbox[u].state = "none" => outbox'[u] = outbox[u]
        /\ outbox'[u].state \in {"leased", "dispatching"} => outbox'[u].lease \in Leases
        /\ outbox'[u].state = "accepted" => outbox'[u].accepted \in accepted'
  BY <1>1, <1>3, <1>4, <1>5 DEF AttemptsInv
<1>7. /\ \A l \in Leases : attempts[l].state # "none" => attempts[l].token \in Issued
      /\ attempts \in [Leases -> AttemptRows] /\ accepted \subseteq Leases
  BY <1>1 DEF AttemptsInv, TypeOK
<1> QED BY <1>1, <1>2, <1>4, <1>5, <1>6, <1>7, DeliveryGoes

\* A drain looks at the token before it sends.
LEMMA KeepPreflight ==
  ASSUME RecoveryInv, NEW w \in Drains, Preflight(w)
  PROVE  RecoveryInv'
<1>1. /\ drain[w].pc = "preflight"
      /\ UNCHANGED <<enabled, user, jobs, tokens, outbox, attempts, leases, form, accepted,
                     changes>>
  BY DEF Preflight, At
<1>2. CASE Turn(w, Free)
  BY <1>1, <1>2, FreeGo
<1>3. CASE \E v \in Verdicts : Turn(w, [drain[w] EXCEPT !.pc = "settle", !.verdict = v])
  BY <1>1, <1>3, SettleGo
<1>4. CASE Turn(w, [drain[w] EXCEPT !.pc = "fence"])
  <2> DEFINE d == [drain[w] EXCEPT !.pc = "fence"]
  <2>1. d \in DrainStates /\ Sound(d) /\ Turn(w, d)
    BY <1>1, <1>4, InHands DEF DrainStates, Sound
  <2> HIDE DEF d
  <2> QED BY <1>1, <2>1, HandsGo
<1> QED BY <1>2, <1>3, <1>4, JudgedFacts DEF Preflight, Verdicts

\* A drain takes the last look, and the attempt gets its row.
LEMMA KeepFence ==
  ASSUME RecoveryInv, NEW w \in Drains, Fence(w)
  PROVE  RecoveryInv'
<1> DEFINE t == drain[w].token
           l == drain[w].lease
<1>1. /\ drain[w].pc = "fence"
      /\ UNCHANGED <<enabled, user, jobs, tokens, leases, form, accepted, changes>>
  BY DEF Fence, At
<1>2. TypeOK /\ AttemptsInv /\ t \in Tokens /\ l \in Leases
  BY <1>1, InHands DEF RecoveryInv
<1>3. CASE FenceOpen(w, t)
  <2> DEFINE d == [drain[w] EXCEPT !.pc = "sending"]
             a == [state |-> "dispatching", token |-> t]
             r == [outbox[t] EXCEPT !.state = "dispatching"]
  <2>1. /\ outbox' = [outbox EXCEPT ![t] = r] /\ attempts' = [attempts EXCEPT ![l] = a]
        /\ Turn(w, d) /\ outbox[t].state = "leased" /\ t \in Issued
    BY <1>3 DEF Fence, FenceOpen, Holds, Live
  <2>2. a \in AttemptRows /\ a.state # "none" /\ a.token = t
    BY <1>2, RecoveryAssumption DEF AttemptRows, Tokens
  <2>3. r \in DeliveryRows /\ r.state = "dispatching" /\ r.lease = outbox[t].lease
    BY <1>2 DEF TypeOK, DeliveryRows
  <2>4. d \in DrainStates /\ d.pc = "sending" /\ d.lease = l /\ d.token = t
    BY <1>1, InHands DEF DrainStates
  <2> HIDE DEF d, a, r, t, l
  <2>5. /\ outbox' \in [Tokens -> DeliveryRows] /\ outbox'[t] = r
        /\ \A u \in Tokens \ {t} : outbox'[u] = outbox[u]
    BY <1>2, <2>1, <2>3 DEF TypeOK
  <2>6. /\ attempts' \in [Leases -> AttemptRows] /\ attempts'[l] = a
        /\ \A m \in Leases \ {l} : attempts'[m] = attempts[m]
    BY <1>2, <2>1, <2>2 DEF TypeOK
  <2>7. Sound(d)
    BY <1>2, <2>2, <2>4, <2>6 DEF Sound
  <2>8. \A u \in Tokens :
          /\ outbox[u].state = "none" => outbox'[u] = outbox[u]
          /\ outbox'[u].state \in {"leased", "dispatching"} => outbox'[u].lease \in Leases
          /\ outbox'[u].state = "accepted" => outbox'[u].accepted \in accepted'
    BY <1>1, <1>2, <2>1, <2>3, <2>5 DEF AttemptsInv
  <2>9. \A m \in Leases :
          /\ attempts[m].state # "none" => attempts'[m].state # "none"
          /\ attempts'[m].state # "none" => attempts'[m].token \in Issued
    BY <1>2, <2>1, <2>2, <2>6 DEF AttemptsInv
  <2>10. accepted \subseteq Leases /\ leases \in 0..MaxLeases
    BY <1>2 DEF TypeOK
  <2> QED BY <1>1, <2>1, <2>4, <2>5, <2>6, <2>7, <2>8, <2>9, <2>10, DeliveryGoes
<1>4. CASE ~FenceOpen(w, t)
  <2>1. /\ UNCHANGED <<outbox, attempts>>
        /\ \/ Turn(w, Free)
           \/ Turn(w, [drain[w] EXCEPT !.pc = "settle", !.verdict = Judged(t)])
    BY <1>4 DEF Fence
  <2> QED BY <1>1, <2>1, FreeGo, SettleGo, JudgedFacts
<1> QED BY <1>3, <1>4

\* The provider answers, or does not.
LEMMA KeepDispatch ==
  ASSUME RecoveryInv, NEW w \in Drains, Dispatch(w)
  PROVE  RecoveryInv'
<1> DEFINE l == drain[w].lease
<1>1. /\ drain[w].pc = "sending"
      /\ UNCHANGED <<enabled, user, jobs, tokens, outbox, attempts, leases, form, changes>>
  BY DEF Dispatch, At
<1>2. /\ TypeOK /\ AttemptsInv /\ l \in Leases /\ attempts[l].state # "none"
      /\ drain[w] \in DrainStates /\ drain[w].token \in Tokens
  BY <1>1, InHands DEF RecoveryInv
<1>3. PICK pc \in {"accepted", "failed"} :
        /\ Turn(w, [drain[w] EXCEPT !.pc = pc]) /\ accepted' \in {accepted, accepted \cup {l}}
        /\ pc = "accepted" => l \in accepted'
  BY DEF Dispatch
<1> DEFINE d == [drain[w] EXCEPT !.pc = pc]
<1>4. d \in DrainStates /\ Sound(d) /\ Turn(w, d)
  BY <1>1, <1>2, <1>3 DEF DrainStates, Sound
<1>5. /\ accepted \subseteq accepted' /\ accepted' \subseteq Leases
      /\ \A m \in accepted' \ accepted : attempts[m].state # "none"
  BY <1>2, <1>3 DEF TypeOK
<1>6. /\ \A m \in Leases : attempts[m].state # "none" => attempts[m].token \in Issued
      /\ \A t \in Tokens :
           /\ outbox[t].state \in {"leased", "dispatching"} => outbox[t].lease \in Leases
           /\ outbox[t].state = "accepted" => outbox[t].accepted \in accepted'
  BY <1>2, <1>5 DEF AttemptsInv
<1>7. /\ attempts \in [Leases -> AttemptRows] /\ outbox \in [Tokens -> DeliveryRows]
      /\ leases \in 0..MaxLeases
  BY <1>2 DEF TypeOK
<1> HIDE DEF d, l
<1> QED BY <1>1, <1>4, <1>5, <1>6, <1>7, DeliveryGoes

\* An attempt that is resolved keeps its token.
LEMMA ResolvedFacts ==
  ASSUME TypeOK, NEW l \in Leases, NEW state \in {"accepted", "failed"}
  PROVE  /\ Resolved(l, state) \in [Leases -> AttemptRows]
         /\ \A m \in Leases : Resolved(l, state)[m].token = attempts[m].token
         /\ \A m \in Leases \ {l} : Resolved(l, state)[m] = attempts[m]
         /\ Resolved(l, state)[l].state = state
BY DEF Resolved, TypeOK, AttemptRows

\* The rows of a delivery and of its attempt, when a drain is done with them.
LEMMA RowsGo ==
  ASSUME RecoveryInv, NEW w \in Drains, NEW t \in Tokens, NEW l \in Leases, Turn(w, Free),
         UNCHANGED <<enabled, user, jobs, tokens, leases, form, accepted, changes>>,
         attempts[l].state # "none" \/ attempts' = attempts,
         attempts' \in {attempts, Resolved(l, "accepted"), Resolved(l, "failed")},
         NEW r \in DeliveryRows, outbox' = outbox \/ outbox' = [outbox EXCEPT ![t] = r],
         outbox[t].state # "none" \/ outbox' = outbox,
         r.state \notin {"leased", "dispatching"},
         r.state = "accepted" => r.accepted \in accepted
  PROVE  RecoveryInv'
<1>1. TypeOK /\ AttemptsInv
  BY DEF RecoveryInv
<1>2. /\ attempts' \in [Leases -> AttemptRows]
      /\ \A m \in Leases :
           /\ attempts[m].state # "none" => attempts'[m].state # "none"
           /\ attempts'[m].state # "none" => attempts'[m].token \in Issued
  <2>1. \A m \in Leases : attempts[m].state # "none" => attempts[m].token \in Issued
    BY <1>1 DEF AttemptsInv
  <2>2. CASE attempts' = attempts
    BY <1>1, <2>1, <2>2 DEF TypeOK
  <2>3. CASE attempts' = Resolved(l, "accepted") /\ attempts[l].state # "none"
    BY <1>1, <2>1, <2>3, ResolvedFacts
  <2>4. CASE attempts' = Resolved(l, "failed") /\ attempts[l].state # "none"
    BY <1>1, <2>1, <2>4, ResolvedFacts
  <2> QED BY <2>2, <2>3, <2>4
<1>3. outbox' \in [Tokens -> DeliveryRows]
  BY <1>1 DEF TypeOK
<1>4. ASSUME NEW u \in Tokens
      PROVE  /\ outbox[u].state = "none" => outbox'[u] = outbox[u]
             /\ outbox'[u].state \in {"leased", "dispatching"} => outbox'[u].lease \in Leases
             /\ outbox'[u].state = "accepted" => outbox'[u].accepted \in accepted
  <2>1. CASE outbox'[u] = outbox[u]
    BY <1>1, <2>1 DEF AttemptsInv
  <2>2. CASE u = t /\ outbox'[t] = r /\ outbox[t].state # "none"
    BY <2>2
  <2> QED BY <1>1, <2>1, <2>2 DEF TypeOK
<1>5. accepted \subseteq Leases /\ leases \in 0..MaxLeases
  BY <1>1 DEF TypeOK
<1>6. Free \in DrainStates /\ Sound(Free)
  BY DrainTyped, IdleSound DEF Free
<1> QED BY <1>2, <1>3, <1>4, <1>5, <1>6, DeliveryGoes

\* The row of a delivery that is settled.
LEMMA SettledRow ==
  ASSUME RecoveryInv, NEW t \in Tokens, NEW v \in Verdicts \cup {"none"}
  PROVE  /\ [outbox[t] EXCEPT !.state = v, !.lease = 0] \in DeliveryRows
         /\ [outbox[t] EXCEPT !.state = v, !.lease = 0].state = v
<1>1. 0 \in 0..MaxLeases /\ outbox[t] \in DeliveryRows
  BY RecoveryAssumption DEF RecoveryInv, TypeOK
<1> QED BY <1>1 DEF DeliveryRows

\* The row of a delivery that was accepted.
LEMMA AcceptedRow ==
  ASSUME RecoveryInv, NEW t \in Tokens, NEW l \in Leases
  PROVE  /\ [outbox[t] EXCEPT !.state = "accepted", !.lease = 0, !.accepted = l] \in DeliveryRows
         /\ [outbox[t] EXCEPT !.state = "accepted", !.lease = 0, !.accepted = l].state = "accepted"
         /\ [outbox[t] EXCEPT !.state = "accepted", !.lease = 0, !.accepted = l].accepted = l
<1>1. 0 \in 0..MaxLeases /\ l \in 0..MaxLeases /\ outbox[t] \in DeliveryRows
  BY RecoveryAssumption DEF RecoveryInv, TypeOK, Leases
<1> QED BY <1>1 DEF DeliveryRows

\* A drain records the acceptance.
LEMMA KeepMarkAccepted ==
  ASSUME RecoveryInv, NEW w \in Drains, MarkAccepted(w)
  PROVE  RecoveryInv'
<1> DEFINE t == drain[w].token
           l == drain[w].lease
           r == [outbox[t] EXCEPT !.state = "accepted", !.lease = 0, !.accepted = l]
<1>1. /\ drain[w].pc = "accepted" /\ Turn(w, Free)
      /\ UNCHANGED <<enabled, user, jobs, tokens, leases, form, accepted, changes>>
  BY DEF MarkAccepted, At
<1>2. t \in Tokens /\ l \in Leases /\ l \in accepted /\ attempts[l].state # "none"
  BY <1>1, InHands
<1>3. r \in DeliveryRows /\ r.state = "accepted" /\ r.accepted = l
  BY <1>2, AcceptedRow
<1>4. /\ outbox' = outbox \/ (outbox' = [outbox EXCEPT ![t] = r] /\ outbox[t].state # "none")
      /\ attempts' \in {attempts, Resolved(l, "accepted")}
  BY DEF MarkAccepted, Holds
<1> HIDE DEF t, l, r
<1> QED BY <1>1, <1>2, <1>3, <1>4, RowsGo

\* A drain judges a failure.
LEMMA KeepJudgeFailure ==
  ASSUME RecoveryInv, NEW w \in Drains, JudgeFailure(w)
  PROVE  RecoveryInv'
<1>1. /\ drain[w].pc = "failed"
      /\ UNCHANGED <<enabled, user, jobs, tokens, outbox, attempts, leases, form, accepted,
                     changes>>
      /\ \/ Turn(w, Free)
         \/ Turn(w, [drain[w] EXCEPT !.pc = "settle", !.verdict = Judged(drain[w].token)])
  BY DEF JudgeFailure, At
<1> QED BY <1>1, FreeGo, SettleGo, JudgedFacts

\* A drain settles its delivery.
LEMMA KeepSettle ==
  ASSUME RecoveryInv, NEW w \in Drains, Settle(w)
  PROVE  RecoveryInv'
<1> DEFINE t == drain[w].token
           l == drain[w].lease
           r == [outbox[t] EXCEPT !.state = drain[w].verdict, !.lease = 0]
<1>1. /\ drain[w].pc = "settle" /\ Turn(w, Free)
      /\ UNCHANGED <<enabled, user, jobs, tokens, leases, form, accepted, changes>>
  BY DEF Settle, At
<1>2. t \in Tokens /\ l \in Leases /\ drain[w].verdict \in Verdicts \cup {"none"}
  BY <1>1, InHands DEF DrainStates
<1>3. r \in DeliveryRows /\ r.state \in Verdicts \cup {"none"}
  BY <1>2, SettledRow
<1>4. /\ outbox' = outbox \/ (outbox' = [outbox EXCEPT ![t] = r] /\ outbox[t].state # "none")
      /\ attempts' = attempts \/ (attempts' = Resolved(l, "failed") /\ attempts[l].state # "none")
  BY DEF Settle, Holds
<1> HIDE DEF t, l, r
<1> QED BY <1>1, <1>2, <1>3, <1>4, RowsGo DEF Verdicts

\* A drain takes up a dispatch whose lease has run out.
LEMMA KeepRecoverDispatch ==
  ASSUME RecoveryInv, NEW w \in Drains, NEW t \in Tokens, RecoverDispatch(w, t)
  PROVE  RecoveryInv'
<1> DEFINE d == [Free EXCEPT !.pc = "settle", !.token = t, !.lease = outbox[t].lease,
                             !.verdict = Judged(t)]
<1>1. Turn(w, d) /\ outbox[t].lease \in Leases
  BY DEF RecoverDispatch, RecoveryInv, AttemptsInv
<1>2. d \in DrainStates /\ Sound(d)
  <2>1. t \in 0..MaxTokens /\ outbox[t].lease \in 0..MaxLeases
    BY <1>1, RecoveryAssumption DEF Tokens, Leases
  <2> QED BY <1>1, <2>1, JudgedFacts DEF DrainStates, Sound, Free
<1> HIDE DEF d
<1> QED BY <1>1, <1>2, HandsGo DEF RecoverDispatch

\* The provider reports an attempt.
LEMMA KeepProviderEvent ==
  ASSUME RecoveryInv, NEW l \in Leases, ProviderEvent(l)
  PROVE  RecoveryInv'
<1> DEFINE t == attempts[l].token
           r == [outbox[t] EXCEPT !.state = "accepted", !.lease = 0, !.accepted = l]
<1>1. /\ l \in accepted
      /\ UNCHANGED <<enabled, user, jobs, tokens, leases, drain, form, accepted, changes>>
  BY DEF ProviderEvent
<1>2. TypeOK /\ TokensInv /\ JobsInv /\ AttemptsInv
  BY DEF RecoveryInv
<1>3. t \in Tokens /\ t \in Issued /\ attempts[l].state # "none"
  BY <1>1, <1>2 DEF AttemptsInv, Issued
<1>4. r \in DeliveryRows /\ r.state = "accepted" /\ r.accepted = l
  BY <1>3, AcceptedRow
<1>5. /\ outbox' = outbox \/ outbox' = [outbox EXCEPT ![t] = r]
      /\ attempts' = attempts \/ attempts' = Resolved(l, "accepted")
  BY DEF ProviderEvent
<1> HIDE DEF t, r
<1>6. /\ outbox' \in [Tokens -> DeliveryRows]
      /\ \A u \in Tokens : outbox'[u] = outbox[u] \/ (u = t /\ outbox'[u] = r)
  BY <1>2, <1>4, <1>5 DEF TypeOK
<1>7. /\ attempts' \in [Leases -> AttemptRows]
      /\ \A m \in Leases :
           /\ attempts[m].state # "none" => attempts'[m].state # "none"
           /\ attempts'[m].state # "none" => attempts'[m].token \in Issued
  <2>1. \A m \in Leases : attempts[m].state # "none" => attempts[m].token \in Issued
    BY <1>2 DEF AttemptsInv
  <2>2. CASE attempts' = attempts
    BY <1>2, <2>1, <2>2 DEF TypeOK
  <2>3. CASE attempts' = Resolved(l, "accepted")
    BY <1>2, <1>3, <2>1, <2>3, ResolvedFacts
  <2> QED BY <1>5, <2>2, <2>3
<1>8. \A u \in Tokens :
        /\ outbox'[u].state \in {"leased", "dispatching"} => outbox'[u].lease \in Leases
        /\ outbox'[u].state = "accepted" => outbox'[u].accepted \in accepted
  BY <1>1, <1>2, <1>4, <1>6 DEF AttemptsInv
<1>9. TokensInv' /\ JobsInv'
  BY <1>1, <1>2, <1>3, <1>6, TokensKept, JobsKept
<1>10. AttemptsInv'
  <2>1. Issued' = Issued
    BY <1>1 DEF Issued
  <2> QED BY <1>1, <1>2, <1>7, <1>8, <2>1, AttemptsKept
<1> QED BY <1>1, <1>2, <1>6, <1>7, <1>9, <1>10 DEF RecoveryInv, TypeOK

-----------------------------------------------------------------------------
(* The theorems                                                            *)

\* Before anything happens.
LEMMA InitRecovery == Init => RecoveryInv
<1> SUFFICES ASSUME Init PROVE RecoveryInv
  OBVIOUS
<1>1. 0 \in 0..MaxLeases /\ 0 \in 0..MaxTokens /\ 0 \in 0..MaxTries /\ 0 < MaxTries
  BY RecoveryAssumption
<1>2. TypeOK
  <2>1. /\ [state |-> "none", lease |-> 0, old |-> FALSE, tries |-> 0] \in JobRows
        /\ NoToken \in TokenRows /\ NoDelivery \in DeliveryRows /\ NoAttempt \in AttemptRows
        /\ Free \in DrainStates
    BY <1>1 DEF JobRows, NoToken, TokenRows, NoDelivery, DeliveryRows, NoAttempt, AttemptRows,
                Free, DrainStates
  <2> QED BY <1>1, <2>1 DEF Init, TypeOK
<1>3. TokensInv
  <2>1. Issued = 1..0
    BY DEF Init, Issued, NoToken
  <2> QED BY <1>1, <2>1 DEF Init, TokensInv, NoToken, NoDelivery, Tokens
<1>4. JobsInv
  BY <1>1, RecoveryAssumption DEF Init, JobsInv, Answers, NoToken
<1>5. AttemptsInv
  BY DEF Init, AttemptsInv, NoDelivery, NoAttempt, Free
<1> QED BY <1>2, <1>3, <1>4, <1>5 DEF RecoveryInv

\* Every step keeps the invariant.
LEMMA RecoveryKept == RecoveryInv /\ [Next]_recoveryVars => RecoveryInv'
<1> SUFFICES ASSUME RecoveryInv, [Next]_recoveryVars PROVE RecoveryInv'
  OBVIOUS
<1>1. ASSUME NEW w \in Drains, DrainStep(w)
      PROVE  RecoveryInv'
  BY <1>1, KeepLeaseJob, KeepReadRequest, KeepIssue, KeepRetryRequest, KeepLeaseDelivery,
     KeepRecoverDispatch, KeepDrainEnds, KeepPreflight, KeepFence, KeepDispatch,
     KeepMarkAccepted, KeepJudgeFailure, KeepSettle DEF DrainStep
<1>2. ASSUME NEW j \in Jobs, Enqueue(j) \/ GrowOld(j) \/ ExpireJob(j)
      PROVE  RecoveryInv'
  BY <1>2, KeepEnqueue, KeepGrowOld, KeepExpireJob
<1>3. CASE UNCHANGED recoveryVars
  BY <1>3
     DEF recoveryVars, RecoveryInv, TypeOK, TokensInv, JobsInv, AttemptsInv, Answers, Issued
<1> QED
  BY <1>1, <1>2, <1>3, KeepTimePasses, KeepConsume, KeepOpenings, KeepProviderEvent,
     KeepAdministration DEF Next

\* The inductive invariant of the recovery of an account holds in every
\* reachable state.
THEOREM RecoveryInvariant == Spec => []RecoveryInv
<1> QED BY InitRecovery, RecoveryKept, PTL DEF Spec

\* A set without two different members has at most one.
LEMMA AtMostOne ==
  ASSUME NEW S, \A x, y \in S : x = y
  PROVE  Cardinality(S) <= 1
<1>1. CASE S = {}
  BY <1>1, FS_EmptySet
<1>2. CASE S # {}
  <2>1. PICK x : x \in S
    BY <1>2
  <2>2. S = {x}
    BY <2>1
  <2> QED BY <2>2, FS_Singleton
<1> QED BY <1>1, <1>2

\* One link of the account works at a time and none of a deactivated account,
\* a link changes the credentials once, and a completed request was answered
\* by exactly one link: the batch of issue supersedes and completes together,
\* and that of consume is decided by the token's row.
THEOREM LinksStaySingle == Spec => []LinksAreSingle
<1>1. ASSUME RecoveryInv
      PROVE  LinksAreSingle
  <2>1. OneLinkWorks
    <3>1. Cardinality({t \in Tokens : tokens[t].state = "live"}) <= 1
      BY <1>1, AtMostOne DEF RecoveryInv, TokensInv
    <3> QED BY <1>1, <3>1 DEF RecoveryInv, TokensInv, OneLinkWorks
  <2>2. ChangedOnce
    BY <1>1 DEF RecoveryInv, TokensInv, ChangedOnce
  <2>3. AnsweredOnce
    BY <1>1, FS_Singleton, FS_EmptySet DEF RecoveryInv, JobsInv, Answers, AnsweredOnce
  <2> QED BY <1>1, <2>1, <2>2, <2>3 DEF RecoveryInv, LinksAreSingle
<1> QED BY <1>1, RecoveryInvariant, PTL

\* No attempt to send a link begins once it was used, replaced, revoked or
\* stopped: the fence decides and records the attempt in one batch.
THEOREM LinksAreSentWhileGood == Spec => SentWhileGood
<1>1. ASSUME RecoveryInv, [Next]_recoveryVars
      PROVE  [SendsWhileGood]_recoveryVars
  <2>1. ASSUME NEW w \in Drains, Fence(w)
        PROVE  SendsWhileGood
    <3>1. drain[w].lease \in Leases
      BY <1>1, <2>1, InHands DEF Fence, At
    <3> QED BY <1>1, <2>1, <3>1
            DEF Fence, FenceOpen, SendsWhileGood, RecoveryInv, TypeOK
  <2>2. ASSUME \/ attempts' = attempts
               \/ \E l \in Leases, state \in {"accepted", "failed"} : attempts' = Resolved(l, state)
        PROVE  SendsWhileGood
    <3>1. \A m \in Leases : attempts'[m].state = "dispatching" => attempts[m].state = "dispatching"
      <4>1. ASSUME NEW l \in Leases, NEW state \in {"accepted", "failed"},
                   attempts' = Resolved(l, state), NEW m \in Leases,
                   attempts'[m].state = "dispatching"
            PROVE  attempts[m].state = "dispatching"
        <5>1. Resolved(l, state)[l].state = state
          BY <1>1, ResolvedFacts DEF RecoveryInv
        <5>2. m # l
          BY <4>1, <5>1
        <5> QED BY <1>1, <4>1, <5>2, ResolvedFacts DEF RecoveryInv
      <4> QED BY <2>2, <4>1
    <3> QED BY <3>1 DEF SendsWhileGood
  <2>3. ASSUME NEW w \in Drains, MarkAccepted(w) \/ Settle(w)
        PROVE  SendsWhileGood
    <3>1. drain[w].lease \in Leases
      BY <1>1, <2>3, InHands DEF MarkAccepted, Settle, At
    <3> QED BY <2>2, <2>3, <3>1 DEF MarkAccepted, Settle
  <2>4. ASSUME NEW w \in Drains, DrainStep(w), ~Fence(w), ~MarkAccepted(w), ~Settle(w)
        PROVE  attempts' = attempts
    BY <2>4
       DEF DrainStep, LeaseJob, ReadRequest, Issue, RetryRequest, LeaseDelivery,
           RecoverDispatch, IssueFails, Preflight, Dispatch, JudgeFailure, DrainEnds
  <2>5. ASSUME NEW l \in Leases, ProviderEvent(l)
        PROVE  SendsWhileGood
    BY <2>2, <2>5 DEF ProviderEvent
  <2>6. ASSUME \/ \E j \in Jobs : Enqueue(j) \/ GrowOld(j) \/ ExpireJob(j)
               \/ \E t \in Tokens : WindowPasses(t) \/ TokenExpires(t)
               \/ \E s \in Submitters : Consume(s) \/ \E t \in Tokens : OpenForm(s, t)
               \/ ReplaceCredentials \/ Deactivate \/ Activate \/ SetControl
        PROVE  attempts' = attempts
    BY <2>6
       DEF Enqueue, GrowOld, ExpireJob, WindowPasses, TokenExpires, Consume, OpenForm,
           ReplaceCredentials, Deactivate, Activate, SetControl
  <2> QED BY <1>1, <2>1, <2>2, <2>3, <2>4, <2>5, <2>6 DEF Next
<1> QED BY <1>1, RecoveryInvariant, PTL DEF Spec, SentWhileGood

\* A delivery the provider is known to have accepted stays accepted, and names
\* an attempt that was: no settlement, cancellation or recovery opens it again.
THEOREM AcceptedLinksStay == Spec => AcceptedStays
<1>1. ASSUME RecoveryInv, RecoveryInv', [Next]_recoveryVars
      PROVE  [StaysAccepted]_recoveryVars
  <2> SUFFICES ASSUME NEW t \in Tokens, outbox[t].state = "accepted", Next
               PROVE  /\ outbox'[t].state = "accepted" /\ outbox'[t].accepted \in accepted
    BY <1>1 DEF StaysAccepted
  <2>1. outbox[t].accepted \in accepted /\ TypeOK /\ t \in Issued /\ TokensInv
    BY <1>1 DEF RecoveryInv, AttemptsInv, TokensInv, Issued
  <2>2. ASSUME outbox'[t] = outbox[t]
        PROVE  outbox'[t].state = "accepted" /\ outbox'[t].accepted \in accepted
    BY <2>1, <2>2
  <2>3. ASSUME NEW u \in Tokens, NEW r, outbox' = [outbox EXCEPT ![u] = r],
               outbox[u].state # "accepted"
        PROVE  outbox'[t] = outbox[t]
    BY <2>1, <2>3 DEF TypeOK
  <2>4. ASSUME NEW ts, outbox' = Cancelled(ts)
        PROVE  outbox'[t] = outbox[t]
    BY <2>1, <2>4, CancelledFacts
  <2>5. ASSUME NEW w \in Drains, DrainStep(w)
        PROVE  outbox'[t] = outbox[t]
    <3>1. ASSUME NEW j \in Jobs, Issue(w, j)
          PROVE  outbox'[t] = outbox[t]
      <4>1. CASE UNCHANGED outbox
        BY <4>1
      <4>2. ASSUME NEW id \in Tokens, id = Cardinality(Issued) + 1, NEW r,
                   outbox' = [Cancelled(Tokens) EXCEPT ![id] = r]
            PROVE  outbox'[t] = outbox[t]
        <5>1. id # t
          BY <2>1, <4>2, NextToken
        <5> QED BY <2>1, <4>2, <5>1, CancelledFacts
      <4> QED BY <3>1, <4>1, <4>2 DEF Issue, Supersede
    <3>2. ASSUME NEW u \in Tokens, LeaseDelivery(w, u)
          PROVE  outbox'[t] = outbox[t]
      BY <2>1, <3>2 DEF LeaseDelivery, TypeOK
    <3>3. ASSUME Fence(w) \/ MarkAccepted(w) \/ Settle(w)
          PROVE  outbox'[t] = outbox[t]
      BY <2>1, <3>3 DEF Fence, FenceOpen, MarkAccepted, Settle, Holds, TypeOK
    <3> QED BY <2>5, <3>1, <3>2, <3>3
            DEF DrainStep, LeaseJob, ReadRequest, RetryRequest, RecoverDispatch, IssueFails,
                Preflight, Dispatch, JudgeFailure, DrainEnds
  <2>6. ASSUME NEW l \in Leases, ProviderEvent(l)
        PROVE  outbox'[t] = outbox[t]
    BY <2>1, <2>6 DEF ProviderEvent, TypeOK
  <2>7. ASSUME \/ \E j \in Jobs : Enqueue(j) \/ GrowOld(j) \/ ExpireJob(j)
               \/ \E u \in Tokens : WindowPasses(u) \/ TokenExpires(u)
               \/ \E s \in Submitters : Consume(s) \/ \E u \in Tokens : OpenForm(s, u)
               \/ ReplaceCredentials \/ Deactivate \/ Activate \/ SetControl
        PROVE  outbox'[t] = outbox[t]
    BY <2>4, <2>7
       DEF Enqueue, GrowOld, ExpireJob, WindowPasses, TokenExpires, Consume, OpenForm,
           ReplaceCredentials, Deactivate, Activate, SetControl
  <2> QED BY <2>2, <2>5, <2>6, <2>7 DEF Next
<1> QED BY <1>1, RecoveryInvariant, PTL DEF Spec, AcceptedStays

-----------------------------------------------------------------------------
(* The push outbox: what its records are                                   *)

(* What the records that stand for nothing are. *)
LEMMA PushBlank ==
  /\ NoReg \in Registrations /\ NoReg.user = Nobody
  /\ NoReg.id = 0 /\ NoReg.gen = 0
  /\ NoDel \in Deliveries /\ NoDel.status = "none" /\ NoDel.tries = 0
  /\ Idle.pc = "idle" /\ Idle.at = {} /\ Idle.reg = NoReg
  /\ [Idle EXCEPT !.pc = "loop"] = [pc |-> "loop", at |-> {}, reg |-> NoReg]
BY PushAssumption DEF NoReg, Registrations, NoDel, Deliveries, Idle, Nobody, Active

(* What becomes of a delivery that is given up, retried or lost. *)
LEMMA DeliveryFacts ==
  ASSUME NEW r \in Deliveries, over \in BOOLEAN
  PROVE  /\ Finished(r) \in Deliveries /\ Finished(r).status = "terminal"
         /\ Finished(r).tries = r.tries
         /\ \A q \in {Retried(r), LostAttempt(r)} :
              /\ q \in Deliveries /\ q.status \in {"terminal", "retrying"}
              /\ q.status = "retrying" => r.tries < MaxAttempts
              /\ q.tries = r.tries /\ q.target = r.target
         /\ [Finished(r) EXCEPT !.status = "accepted"] \in Deliveries
         /\ [Finished(r) EXCEPT !.status = "accepted"].status = "accepted"
         /\ [Finished(r) EXCEPT !.status = "accepted"].tries = r.tries
<1>1. MaxAttempts \in Nat
  BY PushAssumption
<1>2. r.tries \in 0..MaxAttempts
  BY DEF Deliveries
<1>3. ~(r.tries >= MaxAttempts) => r.tries < MaxAttempts
  BY <1>1, <1>2
<1> QED BY <1>1, <1>2, <1>3 DEF Deliveries, Finished, Retried, LostAttempt, Active

(* The parts of the invariant. *)
LEMMA PushParts ==
  ASSUME PushInv
  PROVE  /\ reg \in [Devices -> Registrations] /\ regs \in 0..MaxRegs /\ regs \in Nat
         /\ MaxAttempts \in Nat /\ MaxAttempts > 0 /\ MaxRegs \in Nat
         /\ note \in {"none", "pending", "completed", "expired", "no_targets", "pruned"}
         /\ over \in BOOLEAN /\ readers \subseteq Users
         /\ del \in [Devices -> Deliveries]
         /\ pass \in [pc : {"idle", "loop", "alarm", "access", "sending"},
                      at : SUBSET Devices, reg : Registrations]
         /\ \A d, e \in pass.at : d = e
         /\ blame \in [Devices -> SUBSET Users] /\ sends \in [Devices -> Nat]
         /\ \A d \in Devices :
              /\ reg[d] \in Registrations /\ del[d] \in Deliveries /\ sends[d] \in Nat
              /\ del[d].tries \in 0..MaxAttempts
         /\ RegInv /\ TriesInv /\ ClaimedInv
         /\ HealthIsItsUsers /\ SendsAreBounded /\ ClosedWhenDone
BY PushAssumption DEF PushInv, PushesAreDue, PushTypeOK, Deliveries

(* A pass that is at no delivery any more has left them as they may be. *)
LEMMA PassLeaves ==
  ASSUME PushInv, UNCHANGED <<regs, over, readers, sends>>,
         pass' \in {Idle, [Idle EXCEPT !.pc = "loop"]},
         del' \in [Devices -> Deliveries], note # "pruned",
         note' \in {note, "completed", "expired"},
         note' = "none" => del' = del,
         note' \in {"completed", "expired", "no_targets"} =>
           \A d \in Devices : del'[d].status \notin Active,
         \A d \in Devices :
           /\ del'[d].status \in Active =>
                del[d].status \in Active /\ del'[d].target = del[d].target
           /\ del'[d].status \in {"pending", "retrying"} => del'[d].tries < MaxAttempts
           /\ sends[d] <= del'[d].tries,
         reg' \in [Devices -> Registrations], RegInv',
         blame' \in [Devices -> SUBSET Users], HealthIsItsUsers'
  PROVE  PushInv'
<1>1. pass'.pc \in {"idle", "loop"} /\ pass'.at = {} /\ pass'.reg = NoReg
      /\ pass' \in [pc : {"idle", "loop", "alarm", "access", "sending"},
                    at : SUBSET Devices, reg : Registrations]
  BY PushBlank DEF Idle
<1>2. PushTypeOK'
  BY <1>1, PushParts DEF PushTypeOK
<1>3. PushedToItsUser'
  BY <1>1 DEF PushedToItsUser
<1>4. ClosedWhenDone'
  <2>1. \A d \in Devices : del'[d].status \in Active \cup {"none", "accepted", "terminal"}
    BY DEF Deliveries
  <2> QED BY <2>1 DEF ClosedWhenDone
<1>5. SendsAreBounded' /\ TriesInv'
  BY PushParts DEF SendsAreBounded, TriesInv
<1>6. ClaimedInv'
  BY <1>1, PushParts DEF ClaimedInv
<1> QED BY <1>2, <1>3, <1>4, <1>5, <1>6 DEF PushInv, PushesAreDue

(* A delivery that a pass has dealt with. *)
LEMMA UpdateStep ==
  ASSUME PushInv, NEW d \in Devices, d \in pass.at, NEW r \in Deliveries, Update(d, r),
         UNCHANGED <<regs, over, readers, sends>>,
         pass' \in {Idle, [Idle EXCEPT !.pc = "loop"]},
         r.status \in {"terminal", "accepted", "retrying"}, r.tries = del[d].tries,
         r.status = "retrying" => r.tries < MaxAttempts /\ r.target = del[d].target,
         reg' \in [Devices -> Registrations], RegInv',
         blame' \in [Devices -> SUBSET Users], HealthIsItsUsers'
  PROVE  PushInv'
<1>1. note = "pending" /\ del[d].status = "sending"
  BY PushParts DEF ClaimedInv
<1>2. /\ del' = [del EXCEPT ![d] = r]
      /\ note' = IF Closed([del EXCEPT ![d] = r])
                 THEN IF over THEN "expired" ELSE "completed" ELSE note
  BY <1>1 DEF Update, OwnsLease, CompleteNotification
<1>3. del' \in [Devices -> Deliveries]
  BY <1>2, PushParts
<1>4. note' \in {"completed", "expired", "no_targets"} =>
        \A e \in Devices : del'[e].status \notin Active
  BY <1>1, <1>2 DEF Closed
<1>5. ASSUME NEW e \in Devices
      PROVE  /\ del'[e].status \in Active =>
                  del[e].status \in Active /\ del'[e].target = del[e].target
             /\ del'[e].status \in {"pending", "retrying"} => del'[e].tries < MaxAttempts
             /\ sends[e] <= del'[e].tries
  BY <1>1, <1>2, PushParts DEF TriesInv, Active
<1> HIDE DEF Update, Idle
<1> QED BY <1>1, <1>2, <1>3, <1>4, <1>5, PassLeaves

(* Health that is charged is that of a target which still has the device. *)
LEMMA ChargedFacts ==
  ASSUME PushInv, NEW ds \in SUBSET Devices,
         \A d \in ds : Registered(d) /\ del[d].status \in Active
  PROVE  /\ Charged(ds) \in [Devices -> SUBSET Users]
         /\ \A d \in Devices : Charged(ds)[d] \subseteq {reg[d].user}
<1>1. \A d \in ds : del[d].target \in Users /\ reg[d].user = del[d].target
  BY PushParts DEF TriesInv, Registered
<1> QED BY <1>1, PushParts DEF Charged, HealthIsItsUsers

(* A notification that has expired closes its deliveries. *)
LEMMA ExpireStep ==
  ASSUME PushInv, Expire, UNCHANGED <<reg, regs, over, readers, sends>>, note = "pending",
         pass' \in {Idle, [Idle EXCEPT !.pc = "loop"]}
  PROVE  PushInv'
<1> DEFINE open == {d \in Devices : del[d].status \in Active}
<1>1. /\ del' = [d \in Devices |-> IF d \in open THEN Finished(del[d]) ELSE del[d]]
      /\ blame' = Charged({d \in open : Registered(d)}) /\ note' = "expired"
  BY DEF Expire
<1>2. \A d \in Devices : /\ del'[d] \in Deliveries /\ del'[d].status \notin Active
                         /\ sends[d] <= del'[d].tries
  BY <1>1, PushParts, DeliveryFacts DEF Active, TriesInv
<1>3. del' \in [Devices -> Deliveries]
  BY <1>1, <1>2
<1>4. blame' \in [Devices -> SUBSET Users] /\ HealthIsItsUsers'
  <2>1. \A d \in {x \in open : Registered(x)} : Registered(d) /\ del[d].status \in Active
    OBVIOUS
  <2> HIDE DEF Registered
  <2> QED BY <1>1, <2>1, ChargedFacts DEF HealthIsItsUsers
<1>5. RegInv' /\ reg' \in [Devices -> Registrations]
  BY PushParts DEF RegInv
<1>6. \A d \in Devices : del'[d].status \in {"pending", "retrying"} => del'[d].status \in Active
  BY DEF Active
<1> HIDE DEF open, Expire, Idle, Active
<1> QED BY <1>1, <1>2, <1>3, <1>4, <1>5, <1>6, PassLeaves

-----------------------------------------------------------------------------
(* Registrations and access                                                *)

(* A registration begins a new generation, with a clean bill of health if it
   is another user's. *)
LEMMA UpsertStep ==
  ASSUME PushInv, NEW d \in Devices, NEW u \in Users, UpsertPushSubscription(d, u)
  PROVE  PushInv'
<1>1. /\ regs < MaxRegs /\ regs' = regs + 1
      /\ UNCHANGED <<note, over, del, readers, pass, sends>>
  BY DEF UpsertPushSubscription
<1>2. PICK r : r = IF reg[d] = NoReg THEN [user |-> u, id |-> regs + 1, gen |-> 1]
                   ELSE [reg[d] EXCEPT !.user = u, !.gen = @ + 1]
  OBVIOUS
<1>3. reg' = [reg EXCEPT ![d] = r]
  <2>1. reg' = [reg EXCEPT ![d] =
          IF reg[d] = NoReg THEN [user |-> u, id |-> regs + 1, gen |-> 1]
          ELSE [reg[d] EXCEPT !.user = u, !.gen = @ + 1]]
    BY DEF UpsertPushSubscription
  <2> QED BY <1>2, <2>1
<1>4. /\ regs' \in 0..MaxRegs /\ regs \in Nat /\ MaxRegs \in Nat
  BY <1>1, PushParts
<1>5. r \in Registrations /\ r.user = u /\ r.id <= regs' /\ r.gen <= regs'
  <2>1. CASE reg[d] = NoReg
    BY <1>1, <1>2, <1>4, <2>1 DEF Registrations
  <2>2. CASE reg[d] # NoReg
    <3>1. /\ reg[d] \in Registrations /\ reg[d].id \in Nat /\ reg[d].gen \in Nat
          /\ reg[d].id <= regs /\ reg[d].gen <= regs
      BY PushParts DEF RegInv, Registrations
    <3>2. r = [reg[d] EXCEPT !.user = u, !.gen = @ + 1]
      BY <1>2, <2>2
    <3>3. reg[d].gen + 1 \in 0..MaxRegs
      BY <1>1, <1>4, <3>1
    <3>4. r.user = u /\ r.id = reg[d].id /\ r.gen = reg[d].gen + 1
      BY <3>1, <3>2 DEF Registrations
    <3>5. r \in Registrations
      BY <3>1, <3>2, <3>3 DEF Registrations
    <3> QED BY <1>1, <1>4, <3>1, <3>4, <3>5
  <2> QED BY <2>1, <2>2
<1>6. reg' \in [Devices -> Registrations] /\ RegInv'
  BY <1>1, <1>3, <1>4, <1>5, PushParts DEF RegInv, Registrations
<1>7. blame' \in [Devices -> SUBSET Users] /\ HealthIsItsUsers'
  <2>1. blame' = [blame EXCEPT ![d] = IF reg[d].user = u THEN @ ELSE {}]
    BY DEF UpsertPushSubscription
  <2> QED BY <1>3, <1>5, <2>1, PushParts DEF HealthIsItsUsers
<1>8. PushTypeOK'
  BY <1>1, <1>4, <1>6, <1>7, PushParts DEF PushTypeOK
<1>9. PushedToItsUser' /\ SendsAreBounded' /\ ClosedWhenDone' /\ TriesInv' /\ ClaimedInv'
  <2>1. PushedToItsUser
    BY DEF PushInv, PushesAreDue
  <2> QED BY <1>1, <2>1, PushParts
          DEF PushedToItsUser, OwnsLease, SendsAreBounded, ClosedWhenDone, TriesInv, ClaimedInv
<1> QED BY <1>6, <1>7, <1>8, <1>9 DEF PushInv, PushesAreDue

(* Registrations are removed. *)
LEMMA RemoveStep ==
  ASSUME PushInv, NEW ds \in SUBSET Devices, RemovePushSubscriptions(ds)
  PROVE  PushInv'
<1>1. /\ reg' = [d \in Devices |-> IF d \in ds THEN NoReg ELSE reg[d]]
      /\ blame' = [d \in Devices |-> IF d \in ds THEN {} ELSE blame[d]]
      /\ UNCHANGED <<regs, note, over, del, readers, pass, sends>>
  BY DEF RemovePushSubscriptions
<1>2. reg' \in [Devices -> Registrations] /\ RegInv'
  <2> HIDE DEF NoReg
  <2> QED BY <1>1, PushParts, PushBlank DEF RegInv
<1>3. blame' \in [Devices -> SUBSET Users] /\ HealthIsItsUsers'
  BY <1>1, PushParts DEF HealthIsItsUsers
<1>4. PushTypeOK'
  BY <1>1, <1>2, <1>3, PushParts DEF PushTypeOK
<1>5. PushedToItsUser' /\ SendsAreBounded' /\ ClosedWhenDone' /\ TriesInv' /\ ClaimedInv'
  <2>1. PushedToItsUser
    BY DEF PushInv, PushesAreDue
  <2> QED BY <1>1, <2>1, PushParts
          DEF PushedToItsUser, OwnsLease, SendsAreBounded, ClosedWhenDone, TriesInv, ClaimedInv
<1> QED BY <1>2, <1>3, <1>4, <1>5 DEF PushInv, PushesAreDue

(* Access that is taken away and time that is up leave all records alone. *)
LEMMA QuietStep ==
  ASSUME PushInv, UNCHANGED <<reg, regs, note, del, pass, blame, sends>>,
         readers' \subseteq readers, over' \in BOOLEAN
  PROVE  PushInv'
<1>1. PushTypeOK'
  BY PushParts DEF PushTypeOK
<1>2. PushedToItsUser
  BY DEF PushInv, PushesAreDue
<1> QED BY <1>1, <1>2, PushParts
        DEF PushInv, PushesAreDue, PushedToItsUser, OwnsLease, SendsAreBounded, ClosedWhenDone,
            HealthIsItsUsers, RegInv, TriesInv, ClaimedInv

(* A message that is stored has a delivery for every registered device. *)
LEMMA EnqueuePushStep ==
  ASSUME PushInv, EnqueuePush
  PROVE  PushInv'
<1> DEFINE targets == {d \in Devices : reg[d] # NoReg}
<1>1. /\ note = "none" /\ note' = IF targets = {} THEN "no_targets" ELSE "pending"
      /\ del' = [d \in Devices |->
           IF d \in targets
           THEN [NoDel EXCEPT !.status = "pending", !.target = reg[d].user, !.id = reg[d].id]
           ELSE NoDel]
      /\ UNCHANGED <<reg, regs, over, readers, pass, blame, sends>>
  BY DEF EnqueuePush
<1>2. ASSUME NEW d \in Devices
      PROVE  /\ del'[d] \in Deliveries /\ del'[d].tries = 0
             /\ d \in targets => del'[d].status = "pending" /\ del'[d].target \in Users
             /\ d \notin targets => del'[d].status = "none"
  <2>1. d \in targets => reg[d].user \in Users /\ reg[d].id \in 0..MaxRegs
    <3> HIDE DEF NoReg
    <3> QED BY PushParts DEF RegInv, Registrations
  <2> QED BY <1>1, <2>1, PushBlank, PushParts DEF Deliveries, NoDel, Active
<1>3. del' \in [Devices -> Deliveries]
  BY <1>1, <1>2
<1>4. /\ pass.at = {}
      /\ \A d \in Devices : sends[d] = 0
  <2>1. \A d \in Devices : del[d].tries = 0
    BY <1>1, PushParts, PushBlank DEF ClaimedInv
  <2>2. \A d \in Devices : sends[d] \in Nat /\ sends[d] <= del[d].tries
    BY <1>1, PushParts DEF TriesInv
  <2>3. pass.at = {}
    BY <1>1, PushParts DEF ClaimedInv
  <2> QED BY <2>1, <2>2, <2>3
<1>5. PushTypeOK'
  <2> HIDE DEF targets
  <2> QED BY <1>1, <1>3, PushParts DEF PushTypeOK
<1>6. TriesInv' /\ SendsAreBounded'
  <2>1. MaxAttempts \in Nat /\ MaxAttempts > 0 /\ sends' = sends
    BY <1>1, PushParts
  <2>2. \A d \in Devices : del'[d].status \in Active => del'[d].target \in Users
    <3> HIDE DEF targets
    <3> QED BY <1>2 DEF Active
  <2> HIDE DEF targets
  <2> QED BY <1>2, <1>4, <2>1, <2>2 DEF TriesInv, SendsAreBounded
<1>7. ClosedWhenDone' /\ ClaimedInv' /\ PushedToItsUser'
  <2> HIDE DEF targets
  <2> QED BY <1>1, <1>2, <1>4, PushParts DEF ClosedWhenDone, ClaimedInv, PushedToItsUser
<1>8. HealthIsItsUsers' /\ RegInv'
  BY <1>1, PushParts DEF HealthIsItsUsers, RegInv
<1> QED BY <1>5, <1>6, <1>7, <1>8 DEF PushInv, PushesAreDue

-----------------------------------------------------------------------------
(* The pass                                                                *)

(* A pass that only moves, and is at no delivery any more. *)
LEMMA PassAlone ==
  ASSUME PushInv, pass' \in {Idle, [Idle EXCEPT !.pc = "loop"]},
         UNCHANGED <<reg, regs, note, over, del, readers, blame, sends>>
  PROVE  PushInv'
<1>1. /\ pass'.pc \in {"idle", "loop"} /\ pass'.at = {}
      /\ pass' \in [pc : {"idle", "loop", "alarm", "access", "sending"},
                    at : SUBSET Devices, reg : Registrations]
  BY PushBlank DEF Idle
<1>2. PushTypeOK'
  BY <1>1, PushParts DEF PushTypeOK
<1> QED BY <1>1, <1>2, PushParts
        DEF PushInv, PushesAreDue, PushedToItsUser, SendsAreBounded, ClosedWhenDone,
            HealthIsItsUsers, RegInv, TriesInv, ClaimedInv

(* What a pass finds and prunes before and after it sends. *)
LEMMA RecoverStep ==
  ASSUME PushInv, NEW pc \in {"idle", "loop"}, Recover(pc)
  PROVE  PushInv'
<1> DEFINE recovered == [d \in Devices |->
      IF del[d].status = "sending" /\ del[d].lapsed THEN LostAttempt(del[d]) ELSE del[d]]
<1>1. /\ pass' = [Idle EXCEPT !.pc = pc] /\ UNCHANGED <<reg, regs, over, readers, sends>>
      /\ \/ over /\ note = "pending" /\ Expire
         \/ CompleteNotification(recovered) /\ UNCHANGED blame
         \/ note' = "pruned" /\ del' = [d \in Devices |-> NoDel] /\ UNCHANGED blame
  BY DEF Recover
<1>2. pass' \in {Idle, [Idle EXCEPT !.pc = "loop"]}
  BY <1>1 DEF Idle
<1>3. RegInv' /\ reg' \in [Devices -> Registrations]
  BY <1>1, PushParts DEF RegInv
<1>4. CASE over /\ note = "pending" /\ Expire
  <2> HIDE DEF Expire, Idle
  <2> QED BY <1>1, <1>2, <1>4, ExpireStep
<1>5. CASE CompleteNotification(recovered) /\ UNCHANGED blame /\ note # "pruned"
  <2>1. ASSUME NEW d \in Devices
        PROVE  /\ recovered[d] \in Deliveries
               /\ recovered[d].status \in Active =>
                    del[d].status \in Active /\ recovered[d].target = del[d].target
               /\ recovered[d].status \in {"pending", "retrying"} =>
                    recovered[d].tries < MaxAttempts
               /\ recovered[d].tries = del[d].tries
    BY PushParts, DeliveryFacts DEF TriesInv, Active
  <2>2. /\ del' = recovered
        /\ note' = IF note = "pending" /\ Closed(recovered)
                   THEN IF over THEN "expired" ELSE "completed" ELSE note
    BY <1>5 DEF CompleteNotification
  <2>3. del' \in [Devices -> Deliveries]
    BY <2>1, <2>2
  <2>4. note = "none" => del' = del
    <3>1. note = "none" => \A d \in Devices : del[d].status = "none"
      BY PushParts, PushBlank DEF ClaimedInv
    <3> QED BY <2>2, <3>1, PushParts
  <2>5. note' \in {"completed", "expired", "no_targets"} =>
          \A d \in Devices : del'[d].status \notin Active
    <3>1. note \in {"completed", "expired", "no_targets"} =>
            \A d \in Devices : del[d].status \notin Active
      BY PushParts DEF ClosedWhenDone, Active
    <3> HIDE DEF recovered, Active
    <3> QED BY <2>1, <2>2, <3>1 DEF Closed
  <2>6. \A d \in Devices : sends[d] <= del'[d].tries
    <3>1. \A d \in Devices : sends[d] <= del[d].tries
      BY <1>5, PushParts DEF TriesInv
    <3> QED BY <2>1, <2>2, <3>1
  <2>7. note' \in {note, "completed", "expired"} /\ (note' = "none" => note = "none")
    BY <1>5, <2>2
  <2>8. blame' \in [Devices -> SUBSET Users] /\ HealthIsItsUsers'
    BY <1>1, <1>5, PushParts DEF HealthIsItsUsers
  <2> HIDE DEF recovered, Idle, Active
  <2> QED BY <1>1, <1>2, <1>3, <1>5, <2>1, <2>2, <2>3, <2>4, <2>5, <2>6, <2>7, <2>8, PassLeaves
<1>6. CASE note' = "pruned" /\ del' = [d \in Devices |-> NoDel] /\ UNCHANGED blame
  <2>1. /\ pass'.pc = pc /\ pass'.at = {}
        /\ pass' \in [pc : {"idle", "loop", "alarm", "access", "sending"},
                      at : SUBSET Devices, reg : Registrations]
    BY <1>1, PushBlank DEF Idle
  <2>2. PushTypeOK'
    <3> HIDE DEF NoDel
    <3> QED BY <1>1, <1>3, <1>6, <2>1, PushParts, PushBlank DEF PushTypeOK
  <2>3. TriesInv' /\ ClaimedInv'
    <3> HIDE DEF NoDel
    <3> QED BY <1>1, <1>6, <2>1, PushBlank DEF TriesInv, ClaimedInv, Active
  <2>4. PushedToItsUser' /\ SendsAreBounded' /\ ClosedWhenDone' /\ HealthIsItsUsers'
    BY <1>1, <1>6, <2>1, PushParts
       DEF PushedToItsUser, SendsAreBounded, ClosedWhenDone, HealthIsItsUsers
  <2> QED BY <1>3, <2>2, <2>3, <2>4 DEF PushInv, PushesAreDue
<1>7. CASE CompleteNotification(recovered) /\ UNCHANGED blame /\ note = "pruned"
  <2>1. del = [d \in Devices |-> NoDel]
    BY <1>7, PushParts DEF ClaimedInv
  <2>2. recovered = del
    BY <2>1, PushBlank
  <2>3. del' = del /\ note' = note
    BY <1>7, <2>2 DEF CompleteNotification
  <2> HIDE DEF recovered, Idle
  <2> QED BY <1>1, <1>2, <1>7, <2>3, PassAlone
<1> QED BY <1>1, <1>4, <1>5, <1>6, <1>7

(* A delivery is claimed for its next attempt. *)
LEMMA ClaimDeliveryStep ==
  ASSUME PushInv, NEW d \in Devices, Claim(d)
  PROVE  PushInv'
<1>1. /\ note = "pending" /\ del[d].status \in {"pending", "retrying"}
      /\ del' = [del EXCEPT ![d].status = "sending", ![d].tries = @ + 1, ![d].lapsed = FALSE]
      /\ pass' = [pc |-> "alarm", at |-> {d}, reg |-> NoReg]
      /\ UNCHANGED <<reg, regs, note, over, readers, blame, sends>>
  BY DEF Claim
<1>2. /\ del[d].tries < MaxAttempts /\ del[d].tries \in Nat /\ MaxAttempts \in Nat
      /\ del[d] \in Deliveries /\ sends[d] \in Nat /\ sends[d] <= del[d].tries
      /\ del[d].target \in Users
  BY <1>1, PushParts DEF TriesInv, Active
<1>3. /\ del'[d] \in Deliveries /\ del'[d].status = "sending"
      /\ del'[d].tries = del[d].tries + 1 /\ del'[d].target = del[d].target
      /\ \A e \in Devices \ {d} : del'[e] = del[e]
      /\ del' \in [Devices -> Deliveries]
  <2>1. del[d].tries + 1 \in 0..MaxAttempts
    BY <1>2
  <2> QED BY <1>1, <1>2, <2>1, PushParts DEF Deliveries, Active
<1>4. PushTypeOK'
  <2>1. pass' \in [pc : {"idle", "loop", "alarm", "access", "sending"},
                   at : SUBSET Devices, reg : Registrations]
    BY <1>1, PushBlank
  <2> QED BY <1>1, <1>3, <2>1, PushParts DEF PushTypeOK
<1>5. TriesInv'
  BY <1>1, <1>2, <1>3, PushParts DEF TriesInv, Active
<1>6. ClaimedInv'
  BY <1>1, <1>2, <1>3 DEF ClaimedInv
<1>7. PushedToItsUser' /\ SendsAreBounded' /\ ClosedWhenDone' /\ HealthIsItsUsers' /\ RegInv'
  BY <1>1, PushParts
     DEF PushedToItsUser, SendsAreBounded, ClosedWhenDone, HealthIsItsUsers, RegInv
<1> QED BY <1>4, <1>5, <1>6, <1>7 DEF PushInv, PushesAreDue

(* What an action may assume of the delivery its pass is at. *)
LEMMA AtFacts ==
  ASSUME PushInv, NEW d \in Devices, d \in pass.at
  PROVE  /\ note = "pending" /\ del[d].status = "sending" /\ OwnsLease(d)
         /\ del[d] \in Deliveries /\ del[d].tries \in 0..MaxAttempts /\ over \in BOOLEAN
         /\ del[d].target \in Users
         /\ pass.pc \in {"alarm", "access"} => sends[d] < del[d].tries
         /\ pass.pc \in {"access", "sending"} => pass.reg.user = del[d].target
BY PushParts DEF ClaimedInv, TriesInv, OwnsLease, Active

(* A pass that has no time left puts its delivery back, with its attempt. *)
LEMMA BoundaryStep ==
  ASSUME PushInv, NEW d \in Devices, Boundary(d)
  PROVE  PushInv'
<1>1. /\ d \in pass.at /\ pass.pc \in {"alarm", "access"}
      /\ UNCHANGED <<reg, regs, over, readers, sends>>
  BY DEF Boundary
<1>2. CASE over /\ Expire /\ pass' = [Idle EXCEPT !.pc = "loop"]
  <2> HIDE DEF Expire, Idle
  <2> QED BY <1>1, <1>2, AtFacts, ExpireStep
<1>3. CASE /\ ~over /\ pass' = [Idle EXCEPT !.pc = "idle"] /\ UNCHANGED <<note, blame>>
           /\ del' = IF OwnsLease(d)
                     THEN [del EXCEPT ![d].status = "pending", ![d].tries = @ - 1,
                                      ![d].lapsed = FALSE]
                     ELSE del
  <2>1. /\ del[d].tries - 1 \in 0..MaxAttempts /\ del[d].tries - 1 < MaxAttempts
        /\ sends[d] <= del[d].tries - 1 /\ del[d] \in Deliveries /\ note = "pending"
        /\ del[d].status = "sending"
    BY <1>1, AtFacts, PushParts
  <2>2. del' = [del EXCEPT ![d].status = "pending", ![d].tries = @ - 1, ![d].lapsed = FALSE]
    BY <1>1, <1>3, AtFacts
  <2>3. /\ del'[d] \in Deliveries /\ del'[d].status = "pending"
        /\ del'[d].tries = del[d].tries - 1 /\ del'[d].target = del[d].target
        /\ \A e \in Devices \ {d} : del'[e] = del[e]
        /\ del' \in [Devices -> Deliveries]
    BY <2>1, <2>2, PushParts DEF Deliveries, Active
  <2>4. \A e \in Devices :
          /\ del'[e].status \in Active =>
               del[e].status \in Active /\ del'[e].target = del[e].target
          /\ del'[e].status \in {"pending", "retrying"} => del'[e].tries < MaxAttempts
          /\ sends[e] <= del'[e].tries
    BY <2>1, <2>3, PushParts DEF TriesInv, Active
  <2>5. pass' = Idle
    BY <1>3 DEF Idle
  <2>6. /\ RegInv' /\ reg' \in [Devices -> Registrations]
        /\ blame' \in [Devices -> SUBSET Users] /\ HealthIsItsUsers'
    BY <1>1, <1>3, PushParts DEF RegInv, HealthIsItsUsers
  <2>7. note' = "pending"
    BY <1>3, <2>1
  <2> HIDE DEF Idle, Active
  <2> QED BY <1>1, <2>1, <2>3, <2>4, <2>5, <2>6, <2>7, PassLeaves
<1> QED BY <1>1, <1>2, <1>3 DEF Boundary

(* A delivery that is over, or goes back for another attempt. *)
LEMMA JudgedStep ==
  ASSUME PushInv, NEW d \in Devices, d \in pass.at,
         \/ Update(d, Finished(del[d])) \/ Update(d, Retried(del[d]))
         \/ Update(d, [Finished(del[d]) EXCEPT !.status = "accepted"]),
         UNCHANGED <<regs, over, readers, sends>>,
         pass' \in {Idle, [Idle EXCEPT !.pc = "loop"]},
         reg' \in [Devices -> Registrations], RegInv',
         blame' \in [Devices -> SUBSET Users], HealthIsItsUsers'
  PROVE  PushInv'
<1>1. del[d] \in Deliveries /\ over \in BOOLEAN
  BY AtFacts
<1>2. PICK r \in Deliveries :
        /\ Update(d, r)
        /\ r.status \in {"terminal", "accepted", "retrying"} /\ r.tries = del[d].tries
        /\ r.status = "retrying" => r.tries < MaxAttempts /\ r.target = del[d].target
  <2> DEFINE kept == [Finished(del[d]) EXCEPT !.status = "accepted"]
  <2>1. /\ Finished(del[d]) \in Deliveries /\ Finished(del[d]).status = "terminal"
        /\ Finished(del[d]).tries = del[d].tries
        /\ kept \in Deliveries /\ kept.status = "accepted"
        /\ kept.tries = del[d].tries
        /\ Retried(del[d]) \in Deliveries
        /\ Retried(del[d]).status \in {"terminal", "retrying"}
        /\ Retried(del[d]).status = "retrying" => del[d].tries < MaxAttempts
        /\ Retried(del[d]).tries = del[d].tries /\ Retried(del[d]).target = del[d].target
    BY <1>1, DeliveryFacts
  <2> HIDE DEF Update, Finished, Retried, kept
  <2>2. CASE Update(d, Finished(del[d]))
    BY <2>1, <2>2
  <2>3. CASE Update(d, Retried(del[d]))
    BY <2>1, <2>3
  <2>4. CASE Update(d, kept)
    BY <2>1, <2>4
  <2> QED BY <2>2, <2>3, <2>4 DEF kept
<1> HIDE DEF Update, Finished, Retried, Idle
<1> QED BY <1>2, UpdateStep

(* The device is looked at before access is checked. *)
LEMMA CheckDeviceStep ==
  ASSUME PushInv, NEW d \in Devices, CheckDevice(d)
  PROVE  PushInv'
<1>1. /\ d \in pass.at /\ pass.pc = "alarm"
      /\ UNCHANGED <<reg, regs, over, readers, sends>>
  BY DEF CheckDevice
<1>2. RegInv' /\ reg' \in [Devices -> Registrations]
  BY <1>1, PushParts DEF RegInv
<1>3. CASE Registered(d) /\ pass' = [pass EXCEPT !.pc = "access", !.reg = reg[d]]
           /\ UNCHANGED <<del, note, blame>>
  <2>1. /\ pass'.pc = "access" /\ pass'.at = pass.at /\ pass'.reg = reg[d]
        /\ pass' \in [pc : {"idle", "loop", "alarm", "access", "sending"},
                      at : SUBSET Devices, reg : Registrations]
    BY <1>3, PushParts
  <2>2. PushTypeOK'
    BY <1>1, <1>3, <2>1, PushParts DEF PushTypeOK
  <2>3. ClaimedInv'
    <3>1. \A e \in pass.at : e = d
      BY <1>1, PushParts
    <3> QED BY <1>1, <1>3, <2>1, <3>1, PushParts DEF ClaimedInv, Registered
  <2>4. TriesInv' /\ SendsAreBounded' /\ ClosedWhenDone' /\ HealthIsItsUsers' /\ PushedToItsUser'
    BY <1>1, <1>3, <2>1, PushParts
       DEF TriesInv, SendsAreBounded, ClosedWhenDone, HealthIsItsUsers, PushedToItsUser
  <2> QED BY <1>2, <2>2, <2>3, <2>4 DEF PushInv, PushesAreDue
<1>4. CASE /\ Update(d, Finished(del[d])) \/ Update(d, Retried(del[d]))
           /\ ToLoop
           /\ UNCHANGED blame \/ blame' = Charged({x \in {d} : Registered(x)})
  <2>1. blame' \in [Devices -> SUBSET Users] /\ HealthIsItsUsers'
    <3>1. CASE UNCHANGED blame
      BY <1>1, <3>1, PushParts DEF HealthIsItsUsers
    <3>2. CASE blame' = Charged({x \in {d} : Registered(x)})
      <4>1. \A x \in {y \in {d} : Registered(y)} : Registered(x) /\ del[x].status \in Active
        BY <1>1, AtFacts DEF Active
      <4> HIDE DEF Registered
      <4> QED BY <1>1, <3>2, <4>1, ChargedFacts DEF HealthIsItsUsers
    <3> QED BY <1>4, <3>1, <3>2
  <2>2. pass' = [Idle EXCEPT !.pc = "loop"]
    BY <1>4 DEF ToLoop
  <2> HIDE DEF Idle, Update, Finished, Retried
  <2> QED BY <1>1, <1>2, <1>4, <2>1, <2>2, JudgedStep
<1> HIDE DEF Registered, Update, Finished, Retried, ToLoop, Charged
<1> QED BY <1>3, <1>4 DEF CheckDevice

(* The registration that was judged is removed if it is still the one. *)
LEMMA DropFacts ==
  ASSUME PushInv, NEW d \in Devices, NEW r, Drop(d, r), regs' = regs
  PROVE  /\ RegInv' /\ reg' \in [Devices -> Registrations]
         /\ blame' \in [Devices -> SUBSET Users] /\ HealthIsItsUsers'
<1>1. /\ reg' = [reg EXCEPT ![d] = IF reg[d] = r THEN NoReg ELSE reg[d]]
      /\ blame' = [blame EXCEPT ![d] = IF reg[d] = r THEN {} ELSE blame[d]]
  BY DEF Drop
<1> HIDE DEF NoReg
<1>2. RegInv' /\ reg' \in [Devices -> Registrations]
  BY <1>1, PushParts, PushBlank DEF RegInv
<1>3. blame' \in [Devices -> SUBSET Users] /\ HealthIsItsUsers'
  BY <1>1, PushParts DEF HealthIsItsUsers
<1> QED BY <1>2, <1>3

(* A failure is charged to the registration that was tried. *)
LEMMA ChargeFacts ==
  ASSUME PushInv, NEW d \in Devices, NEW u \in Users, UNCHANGED reg,
         blame' = [blame EXCEPT ![d] = @ \cup {u}], reg[d].user = u
  PROVE  blame' \in [Devices -> SUBSET Users] /\ HealthIsItsUsers'
BY PushParts DEF HealthIsItsUsers

(* Access is known: the delivery is sent, given up, or put off. *)
LEMMA SendStep ==
  ASSUME PushInv, NEW d \in Devices, Send(d)
  PROVE  PushInv'
<1>1. /\ d \in pass.at /\ pass.pc = "access" /\ OwnsLease(d)
      /\ del[d].target \in Users /\ pass.reg.user = del[d].target
      /\ UNCHANGED <<regs, over, readers>>
  BY AtFacts DEF Send
<1>2. RegInv /\ reg \in [Devices -> Registrations]
      /\ blame \in [Devices -> SUBSET Users] /\ HealthIsItsUsers
  BY PushParts
<1>3. CASE Registered(d) /\ Attempt(d) /\ UNCHANGED <<del, note, reg, blame>>
  <2>1. /\ pass'.pc = "sending" /\ pass'.at = pass.at /\ pass'.reg = reg[d]
        /\ pass' \in [pc : {"idle", "loop", "alarm", "access", "sending"},
                      at : SUBSET Devices, reg : Registrations]
        /\ sends' = [sends EXCEPT ![d] = @ + 1]
    BY <1>3, PushParts DEF Attempt
  <2>2. /\ sends[d] < del[d].tries /\ del[d].tries <= MaxAttempts
        /\ sends[d] \in Nat /\ del[d].tries \in Nat /\ MaxAttempts \in Nat
    BY <1>1, AtFacts, PushParts
  <2>3. PushTypeOK'
    BY <1>1, <1>3, <2>1, PushParts DEF PushTypeOK
  <2>4. TriesInv' /\ SendsAreBounded'
    BY <1>3, <2>1, <2>2, PushParts DEF TriesInv, SendsAreBounded
  <2>5. ClaimedInv' /\ PushedToItsUser'
    <3>1. \A e \in pass.at : e = d
      BY <1>1, PushParts
    <3> QED BY <1>1, <1>3, <2>1, <3>1, PushParts DEF ClaimedInv, Registered, PushedToItsUser
  <2>6. ClosedWhenDone' /\ HealthIsItsUsers' /\ RegInv'
    BY <1>1, <1>3, PushParts DEF ClosedWhenDone, HealthIsItsUsers, RegInv
  <2> QED BY <2>3, <2>4, <2>5, <2>6 DEF PushInv, PushesAreDue
<1>4. CASE /\ Update(d, Finished(del[d])) \/ Update(d, Retried(del[d]))
           /\ ToLoop /\ UNCHANGED sends
           /\ \/ UNCHANGED <<reg, blame>>
              \/ Drop(d, pass.reg)
              \/ UNCHANGED reg /\ blame' = [blame EXCEPT ![d] =
                   IF reg[d] = pass.reg THEN @ \cup {pass.reg.user} ELSE @]
  <2>1. /\ RegInv' /\ reg' \in [Devices -> Registrations]
        /\ blame' \in [Devices -> SUBSET Users] /\ HealthIsItsUsers'
    <3>1. CASE UNCHANGED <<reg, blame>>
      BY <1>1, <1>2, <3>1 DEF RegInv, HealthIsItsUsers
    <3>2. CASE Drop(d, pass.reg)
      BY <1>1, <3>2, DropFacts
    <3>3. CASE UNCHANGED reg /\ blame' = [blame EXCEPT ![d] =
                   IF reg[d] = pass.reg THEN @ \cup {pass.reg.user} ELSE @]
      <4>1. RegInv' /\ reg' \in [Devices -> Registrations]
        BY <1>1, <1>2, <3>3 DEF RegInv
      <4>2. CASE reg[d] = pass.reg
        BY <1>1, <3>3, <4>1, <4>2, ChargeFacts
      <4>3. CASE reg[d] # pass.reg
        <5>1. blame' = blame
          BY <1>2, <3>3, <4>3
        <5>2. blame' \in [Devices -> SUBSET Users]
          BY <1>2, <5>1
        <5>3. HealthIsItsUsers'
          BY <1>2, <3>3, <5>1 DEF HealthIsItsUsers
        <5> QED BY <4>1, <5>2, <5>3
      <4> QED BY <4>1, <4>2, <4>3
    <3> QED BY <1>4, <3>1, <3>2, <3>3
  <2>2. pass' = [Idle EXCEPT !.pc = "loop"]
    BY <1>4 DEF ToLoop
  <2> HIDE DEF Idle, Update, Finished, Retried
  <2> QED BY <1>1, <1>4, <2>1, <2>2, JudgedStep
<1> HIDE DEF Registered, Update, Finished, Retried, ToLoop, Drop, Attempt
<1> QED BY <1>1, <1>3, <1>4 DEF Send

(* The answer counts if the registration is still the one it is about. *)
LEMMA AnsweredStep ==
  ASSUME PushInv, NEW d \in Devices, Answered(d)
  PROVE  PushInv'
<1>1. /\ d \in pass.at /\ pass.pc = "sending" /\ OwnsLease(d) /\ note = "pending"
      /\ del[d].target \in Users /\ pass.reg.user = del[d].target
      /\ UNCHANGED <<regs, over, readers, sends>>
  BY AtFacts DEF Answered
<1>2. RegInv /\ reg \in [Devices -> Registrations]
      /\ blame \in [Devices -> SUBSET Users] /\ HealthIsItsUsers
  BY PushParts
<1>3. CASE Expire /\ ToLoop /\ UNCHANGED reg
  <2>1. pass' = [Idle EXCEPT !.pc = "loop"]
    BY <1>3 DEF ToLoop
  <2> HIDE DEF Expire, Idle
  <2> QED BY <1>1, <1>3, <2>1, ExpireStep
<1>4. CASE /\ \/ Update(d, Finished(del[d])) \/ Update(d, Retried(del[d]))
              \/ Update(d, [Finished(del[d]) EXCEPT !.status = "accepted"])
           /\ ToLoop \/ pass' = Idle
           /\ \/ UNCHANGED <<reg, blame>>
              \/ UNCHANGED reg /\ blame' = [blame EXCEPT ![d] = {}]
              \/ Drop(d, pass.reg)
              \/ /\ UNCHANGED reg /\ reg[d] = pass.reg
                 /\ blame' = [blame EXCEPT ![d] = @ \cup {pass.reg.user}]
  <2>1. /\ RegInv' /\ reg' \in [Devices -> Registrations]
        /\ blame' \in [Devices -> SUBSET Users] /\ HealthIsItsUsers'
    <3>1. CASE UNCHANGED <<reg, blame>> \/ (UNCHANGED reg /\ blame' = [blame EXCEPT ![d] = {}])
      BY <1>1, <1>2, <3>1 DEF RegInv, HealthIsItsUsers
    <3>2. CASE Drop(d, pass.reg)
      BY <1>1, <3>2, DropFacts
    <3>3. CASE /\ UNCHANGED reg /\ reg[d] = pass.reg
               /\ blame' = [blame EXCEPT ![d] = @ \cup {pass.reg.user}]
      <4>1. RegInv' /\ reg' \in [Devices -> Registrations]
        BY <1>1, <1>2, <3>3 DEF RegInv
      <4> QED BY <1>1, <3>3, <4>1, ChargeFacts
    <3> QED BY <1>4, <3>1, <3>2, <3>3
  <2>2. pass' \in {Idle, [Idle EXCEPT !.pc = "loop"]}
    BY <1>4 DEF ToLoop
  <2> HIDE DEF Idle, Update, Finished, Retried
  <2> QED BY <1>1, <1>4, <2>1, <2>2, JudgedStep
<1> HIDE DEF Update, Finished, Retried, ToLoop, Drop, Expire, Idle
<1> QED BY <1>1, <1>3, <1>4 DEF Answered

(* A pass that stops leaves a delivery that nobody is at. *)
LEMMA PassStopsStep ==
  ASSUME PushInv, PassStops
  PROVE  PushInv'
<1>1. pass' = Idle /\ UNCHANGED <<reg, regs, note, over, del, readers, blame, sends>>
  BY DEF PassStops
<1> HIDE DEF Idle
<1> QED BY <1>1, PassAlone

(* A lease runs out only when no pass is at its delivery. *)
LEMMA LeaseLapsesStep ==
  ASSUME PushInv, NEW d \in Devices, LeaseLapses(d)
  PROVE  PushInv'
<1>1. /\ del[d].status = "sending" /\ d \notin pass.at
      /\ del' = [del EXCEPT ![d].lapsed = TRUE]
      /\ UNCHANGED <<reg, regs, note, over, readers, pass, blame, sends>>
  BY DEF LeaseLapses
<1>2. /\ del' \in [Devices -> Deliveries]
      /\ \A e \in Devices : /\ del'[e].status = del[e].status /\ del'[e].tries = del[e].tries
                            /\ del'[e].target = del[e].target
  BY <1>1, PushParts DEF Deliveries
<1>3. PushTypeOK'
  BY <1>1, <1>2, PushParts DEF PushTypeOK
<1>4. note \notin {"none", "pruned"}
  BY <1>1, PushParts, PushBlank DEF ClaimedInv
<1>5. PushedToItsUser' /\ ClaimedInv'
  BY <1>1, <1>2, <1>4, PushParts DEF PushInv, PushesAreDue, PushedToItsUser, OwnsLease, ClaimedInv
<1> QED BY <1>1, <1>2, <1>3, <1>5, PushParts
        DEF PushInv, PushesAreDue, SendsAreBounded, ClosedWhenDone, HealthIsItsUsers, RegInv,
            TriesInv

-----------------------------------------------------------------------------
(* The theorems                                                            *)

(* The invariant holds before anything is registered. *)
LEMMA PushInitLemma ==
  ASSUME PushInit
  PROVE  PushInv
<1>1. /\ reg = [d \in Devices |-> NoReg] /\ regs = 0
      /\ note = "none" /\ over = FALSE /\ del = [d \in Devices |-> NoDel]
      /\ readers = Users /\ pass = Idle
      /\ blame = [d \in Devices |-> {}] /\ sends = [d \in Devices |-> 0]
  BY DEF PushInit
<1>2. /\ pass.pc = "idle" /\ pass.at = {}
      /\ pass \in [pc : {"idle", "loop", "alarm", "access", "sending"},
                   at : SUBSET Devices, reg : Registrations]
  BY <1>1, PushBlank DEF Idle
<1>3. MaxRegs \in Nat /\ MaxAttempts \in Nat /\ MaxAttempts > 0
  BY PushAssumption
<1> HIDE DEF NoReg, NoDel, Idle
<1>4. PushTypeOK
  <2>1. reg \in [Devices -> Registrations] /\ del \in [Devices -> Deliveries]
    BY <1>1, PushBlank
  <2>2. blame \in [Devices -> SUBSET Users] /\ sends \in [Devices -> Nat]
    BY <1>1
  <2>3. regs \in 0..MaxRegs
    BY <1>1, <1>3
  <2> QED BY <1>1, <1>2, <2>1, <2>2, <2>3 DEF PushTypeOK
<1> QED BY <1>1, <1>2, <1>3, <1>4, PushBlank
        DEF PushInv, PushesAreDue, PushedToItsUser, SendsAreBounded, ClosedWhenDone,
            HealthIsItsUsers, RegInv, TriesInv, ClaimedInv, Active

(* Every step keeps it. *)
LEMMA PushNextLemma ==
  ASSUME PushInv, [PushNext]_pushVars
  PROVE  PushInv'
<1>1. CASE PassStep
  <2>1. CASE StartPass \/ EndPass
    <3> HIDE DEF PushInv, Recover
    <3> QED BY <2>1, RecoverStep DEF StartPass, EndPass
  <2>2. CASE \E d \in Devices :
               Claim(d) \/ Boundary(d) \/ CheckDevice(d) \/ Send(d) \/ Answered(d)
    <3> HIDE DEF PushInv, Claim, Boundary, CheckDevice, Send, Answered
    <3> QED BY <2>2, ClaimDeliveryStep, BoundaryStep, CheckDeviceStep, SendStep, AnsweredStep
  <2> QED BY <1>1, <2>1, <2>2 DEF PassStep
<1>2. CASE PassStops
  BY <1>2, PassStopsStep
<1>3. CASE EnqueuePush
  BY <1>3, EnqueuePushStep
<1>4. CASE TimeIsUp \/ \E u \in Users : RevokeAccess(u)
  <2>1. /\ UNCHANGED <<reg, regs, note, del, pass, blame, sends>>
        /\ readers' \subseteq readers /\ over' \in BOOLEAN
    BY <1>4, PushParts DEF TimeIsUp, RevokeAccess
  <2> HIDE DEF PushInv
  <2> QED BY <2>1, QuietStep
<1>5. CASE \E d \in Devices : LeaseLapses(d) \/ \E u \in Users : UpsertPushSubscription(d, u)
  <2> HIDE DEF PushInv, LeaseLapses, UpsertPushSubscription
  <2> QED BY <1>5, LeaseLapsesStep, UpsertStep
<1>6. CASE \E ds \in SUBSET Devices : RemovePushSubscriptions(ds)
  BY <1>6, RemoveStep
<1>7. CASE UNCHANGED pushVars
  BY <1>7, QuietStep, PushParts DEF pushVars
<1>8. PushNext =>
        \/ PassStep \/ PassStops \/ EnqueuePush
        \/ TimeIsUp \/ \E u \in Users : RevokeAccess(u)
        \/ \E d \in Devices : LeaseLapses(d) \/ \E u \in Users : UpsertPushSubscription(d, u)
        \/ \E ds \in SUBSET Devices : RemovePushSubscriptions(ds)
  <2>1. ASSUME NEW d \in Devices PROVE {d} \in SUBSET Devices
    OBVIOUS
  <2>2. ASSUME NEW u \in Users PROVE {d \in Devices : reg[d].user = u} \in SUBSET Devices
    OBVIOUS
  <2> HIDE DEF PassStep, PassStops, EnqueuePush, TimeIsUp, RevokeAccess, LeaseLapses,
               UpsertPushSubscription, RemovePushSubscriptions
  <2> QED BY <2>1, <2>2 DEF PushNext
<1> QED BY <1>1, <1>2, <1>3, <1>4, <1>5, <1>6, <1>7, <1>8

(* Whatever is registered, taken back and revoked while a pass runs, stops or
   is repeated, the invariant of the push outbox holds. *)
THEOREM PushInvariant == PushSpec => []PushInv
<1>1. PushInit => PushInv
  BY PushInitLemma
<1>2. PushInv /\ [PushNext]_pushVars => PushInv'
  BY PushNextLemma
<1> QED BY <1>1, <1>2, PTL DEF PushSpec

(* A notification goes only to a device its user still has, at most
   MaxAttempts times, is closed only when no delivery of it is open, and
   charges a device's health only with its present user's failures
   (processPushOutbox). *)
THEOREM PushesStayDue == PushSpec => []PushesAreDue
<1>1. PushInv => PushesAreDue
  BY DEF PushInv
<1> QED BY <1>1, PushInvariant, PTL

(* A pass removes a registration only as it has judged it. *)
LEMMA DropStep ==
  ASSUME PushInv, [PushNext]_pushVars
  PROVE  DropsAsJudged
<1> SUFFICES ASSUME NEW d \in pass.at, pass' # pass, reg'[d] = NoReg
             PROVE  reg[d] \in {NoReg, pass.reg}
  BY DEF DropsAsJudged
<1>1. d \in Devices /\ reg \in [Devices -> Registrations]
  BY PushParts
<1>2. \A e \in pass.at : e = d
  BY PushParts
<1>3. CASE UNCHANGED reg
  BY <1>3
<1>4. CASE \E e \in Devices : e \in pass.at /\ Drop(e, pass.reg)
  <2>1. reg' = [reg EXCEPT ![d] = IF reg[d] = pass.reg THEN NoReg ELSE reg[d]]
    BY <1>2, <1>4 DEF Drop
  <2> HIDE DEF NoReg
  <2> QED BY <1>1, <2>1
<1>5. UNCHANGED reg \/ \E e \in Devices : e \in pass.at /\ Drop(e, pass.reg)
  <2>1. CASE StartPass \/ EndPass
    BY <2>1 DEF StartPass, EndPass, Recover
  <2>2. ASSUME NEW e \in Devices, Claim(e) \/ Boundary(e) \/ CheckDevice(e)
        PROVE  UNCHANGED reg
    BY <2>2 DEF Claim, Boundary, CheckDevice
  <2>3. ASSUME NEW e \in Devices, Send(e) \/ Answered(e)
        PROVE  UNCHANGED reg \/ (e \in pass.at /\ Drop(e, pass.reg))
    <3> HIDE DEF Update, Drop, Expire
    <3> QED BY <2>3 DEF Send, Answered
  <2>4. PushNext /\ ~PassStep => pass' = pass \/ UNCHANGED reg
    BY DEF PushNext, PassStops, EnqueuePush, TimeIsUp, RevokeAccess, LeaseLapses,
           UpsertPushSubscription, RemovePushSubscriptions
  <2>5. UNCHANGED pushVars => UNCHANGED reg
    BY DEF pushVars
  <2> HIDE DEF StartPass, EndPass, Claim, Boundary, CheckDevice, Send, Answered, Drop, PushNext,
               pushVars, NoReg
  <2> QED BY <2>1, <2>2, <2>3, <2>4, <2>5 DEF PassStep
<1> QED BY <1>3, <1>4, <1>5

(* A dead or forbidden registration is removed by the pass, never the one that
   replaced it while the answer was on its way (processPushOutbox). *)
THEOREM RegistrationsDropAsJudged == PushSpec => DroppedAsJudged
<1>1. PushInv /\ [PushNext]_pushVars => DropsAsJudged
  BY DropStep
<1>2. PushSpec => [][DropsAsJudged]_pushVars
  BY <1>1, PushInvariant, PTL DEF PushSpec
<1> QED BY <1>2 DEF DroppedAsJudged
-----------------------------------------------------------------------------
(* What requests cost                                                      *)

\* An amount of micros for every request.
Amounts == [Requests -> Nat]

\* A micro is its request and its number.
LEMMA MicroOf ==
  ASSUME NEW S, NEW from, NEW to, NEW x
  PROVE  x \in Micros(S, from, to) <=> \E r \in S : \E k \in (from[r] + 1)..to[r] : x = <<r, k>>
BY DEF Micros

\* Finitely many requests cost finitely many micros.
LEMMA CostType ==
  ASSUME NEW S \in SUBSET Requests, NEW from \in Amounts, NEW to \in Amounts
  PROVE  IsFiniteSet(Micros(S, from, to)) /\ Cost(S, from, to) \in Nat
<1> DEFINE of == [r \in S |-> {r} \X ((from[r] + 1)..to[r])]
           parts == {{r} \X ((from[r] + 1)..to[r]) : r \in S}
<1>1. IsFiniteSet(S)
  BY FS_Subset, UsageAssumption
<1>2. of \in Surjection(S, parts)
  BY DEF Surjection
<1>3. IsFiniteSet(parts)
  BY <1>1, <1>2, FS_Surjection
<1>4. \A T \in parts : IsFiniteSet(T)
  <2> SUFFICES ASSUME NEW r \in S PROVE IsFiniteSet({r} \X ((from[r] + 1)..to[r]))
    OBVIOUS
  <2>1. from[r] + 1 \in Int /\ to[r] \in Int
    BY DEF Amounts
  <2>2. IsFiniteSet((from[r] + 1)..to[r])
    BY <2>1, FS_Interval
  <2> QED BY <2>2, FS_Singleton, FS_Product
<1>5. IsFiniteSet(UNION parts)
  BY <1>3, <1>4, FS_UNION
<1> QED BY <1>5, FS_CardinalityType DEF Micros, Cost

\* Only the amounts of the requests themselves count.
LEMMA CostSame ==
  ASSUME NEW S, NEW from, NEW to, NEW from2, NEW to2,
         \A r \in S : from[r] = from2[r] /\ to[r] = to2[r]
  PROVE  Cost(S, from, to) = Cost(S, from2, to2)
<1>1. Micros(S, from, to) = Micros(S, from2, to2)
  BY DEF Micros
<1> QED BY <1>1 DEF Cost

\* What costs no more than it did costs nothing more.
LEMMA CostNothing ==
  ASSUME NEW S \in SUBSET Requests, NEW from \in Amounts, NEW to \in Amounts,
         \A r \in S : to[r] <= from[r]
  PROVE  Cost(S, from, to) = 0
<1>1. \A x : x \notin Micros(S, from, to)
  <2> SUFFICES ASSUME NEW r \in S, NEW k \in (from[r] + 1)..to[r] PROVE FALSE
    BY MicroOf
  <2>1. from[r] \in Nat /\ to[r] \in Nat /\ to[r] <= from[r]
    BY DEF Amounts
  <2> QED BY <2>1
<1>2. Micros(S, from, to) = {}
  BY <1>1
<1> QED BY <1>2, FS_EmptySet DEF Cost

\* One request costs its amount.
LEMMA CostOfOne ==
  ASSUME NEW r \in Requests, NEW to \in Amounts
  PROVE  Cost({r}, Zero, to) = to[r]
<1>1. Zero[r] + 1 = 1 /\ to[r] \in Nat
  BY DEF Zero, Amounts
<1>2. Micros({r}, Zero, to) = {r} \X (1..to[r])
  BY <1>1 DEF Micros
<1>3. PICK one, numbers : one = {r} /\ numbers = 1..to[r]
  OBVIOUS
<1>4. IsFiniteSet(one) /\ Cardinality(one) = 1
  BY <1>3, FS_Singleton
<1>5. IsFiniteSet(numbers) /\ Cardinality(numbers) = to[r]
  BY <1>1, <1>3, FS_Interval
<1>6. Cardinality(one \X numbers) = Cardinality(one) * Cardinality(numbers)
  BY <1>4, <1>5, FS_Product
<1>7. Cardinality(one \X numbers) = 1 * to[r]
  BY <1>4, <1>5, <1>6
<1>8. Micros({r}, Zero, to) = one \X numbers
  BY <1>2, <1>3
<1>9. Cost({r}, Zero, to) = 1 * to[r]
  BY <1>7, <1>8 DEF Cost
<1> QED BY <1>1, <1>9

\* Different requests cost different micros.
LEMMA CostSplit ==
  ASSUME NEW S \in SUBSET Requests, NEW T \in SUBSET Requests, S \cap T = {},
         NEW from \in Amounts, NEW to \in Amounts
  PROVE  Cost(S \cup T, from, to) = Cost(S, from, to) + Cost(T, from, to)
<1>1. Micros(S \cup T, from, to) = Micros(S, from, to) \cup Micros(T, from, to)
  BY DEF Micros
<1>2. PICK M, N : M = Micros(S, from, to) /\ N = Micros(T, from, to)
  OBVIOUS
<1>3. M \cap N = {}
  BY <1>2, MicroOf
<1>4. IsFiniteSet(M) /\ IsFiniteSet(N)
  BY <1>2, CostType
<1>5. Cardinality(M) \in Nat /\ Cardinality(N) \in Nat /\ Cardinality({}) = 0
  BY <1>4, FS_CardinalityType, FS_EmptySet
<1>6. Cardinality(M \cup N) = Cardinality(M) + Cardinality(N) - Cardinality(M \cap N)
  BY <1>4, FS_Union
<1>c. Cardinality(M \cap N) = 0
  BY <1>3, <1>5, Zenon
<1>7. Cardinality(M \cup N) = Cardinality(M) + Cardinality(N)
  BY <1>5, <1>6, <1>c
<1>8. Cost(S \cup T, from, to) = Cardinality(M \cup N)
      /\ Cost(S, from, to) = Cardinality(M) /\ Cost(T, from, to) = Cardinality(N)
  BY <1>1, <1>2 DEF Cost
<1> QED BY <1>7, <1>8

\* What is not within the estimates is beyond them.
LEMMA CostBeyond ==
  ASSUME NEW S \in SUBSET Requests, NEW estimate \in Amounts, NEW to \in Amounts
  PROVE  Cost(S, Zero, to) <= Cost(S, Zero, estimate) + Cost(S, estimate, to)
<1> DEFINE all == Micros(S, Zero, to)
           within == Micros(S, Zero, estimate)
           beyond == Micros(S, estimate, to)
<1>1. Zero \in Amounts
  BY DEF Zero, Amounts
<1>2. all \subseteq within \cup beyond
  <2> SUFFICES ASSUME NEW r \in S, NEW k \in (Zero[r] + 1)..to[r]
               PROVE  <<r, k>> \in within \/ <<r, k>> \in beyond
    BY MicroOf
  <2>1. Zero[r] = 0 /\ estimate[r] \in Nat /\ to[r] \in Nat
    BY DEF Zero, Amounts
  <2>2. k \in (Zero[r] + 1)..estimate[r] \/ k \in (estimate[r] + 1)..to[r]
    BY <2>1
  <2> HIDE DEF within, beyond
  <2>3. k \in (Zero[r] + 1)..estimate[r] => <<r, k>> \in within
    BY MicroOf DEF within
  <2>4. k \in (estimate[r] + 1)..to[r] => <<r, k>> \in beyond
    BY MicroOf DEF beyond
  <2> QED BY <2>2, <2>3, <2>4
<1>3. IsFiniteSet(all) /\ IsFiniteSet(within) /\ IsFiniteSet(beyond)
  BY <1>1, CostType
<1>4. Cost(S, Zero, to) = Cardinality(all) /\ Cost(S, Zero, estimate) = Cardinality(within)
      /\ Cost(S, estimate, to) = Cardinality(beyond)
  BY DEF Cost
<1> HIDE DEF all, within, beyond
<1>5. Cardinality(all) \in Nat /\ Cardinality(within) \in Nat /\ Cardinality(beyond) \in Nat
      /\ Cardinality(within \cap beyond) \in Nat
  BY <1>3, FS_CardinalityType, FS_Intersection
<1>6. IsFiniteSet(within \cup beyond)
      /\ Cardinality(within \cup beyond)
         = Cardinality(within) + Cardinality(beyond) - Cardinality(within \cap beyond)
  BY <1>3, FS_Union
<1>7. Cardinality(all) <= Cardinality(within \cup beyond)
  BY <1>2, <1>6, FS_Subset
<1> QED BY <1>4, <1>5, <1>6, <1>7

-----------------------------------------------------------------------------
(* The invariant of the ledger                                             *)

\* An event and its reservation.
EventInv(r) ==
  /\ event[r].state = "none" => event[r] = NoEvent
  /\ event[r].state # "none" => event[r].month \in Months /\ event[r].estimate \in Estimates
  /\ event[r].state = "reserved" => event[r].actual = 0

\* A request and its event: it has none before it reserves, has started one
\* before it calls, and counts no more than its call cost.
CallerInv(r) ==
  /\ caller[r].seen \in {0, cost[r]}
  /\ caller[r].at \in {"new", "read", "reserve", "held", "started"} => cost[r] = 0
  /\ caller[r].at \in {"new", "read", "reserve"} => event[r].state = "none"
  /\ caller[r].at \in {"held", "started", "calling", "answered", "settle"} => event[r].state # "none"
  /\ caller[r].at \in {"started", "calling", "answered"} => event[r].started
  /\ caller[r].at \in {"read", "reserve"} =>
       caller[r].month \in Months /\ caller[r].estimate \in Estimates
  /\ caller[r].at = "reserve" => caller[r].limit <= ledger[caller[r].month].approved

RequestsInv == \A r \in Requests : EventInv(r) /\ CallerInv(r)

\* Whoever was told is the first of the month.
AlarmInv == \A m \in Months : told[m] <= 1 /\ (told[m] > 0 => m \in alerted)

AiInv ==
  UsageTypeOK /\ RequestsInv /\ LedgerAdds /\ WorkIsCharged /\ WithinBudget /\ AlarmInv

\* What the ledger's sums are taken over.
LEMMA AmountsType ==
  ASSUME UsageTypeOK
  PROVE  Zero \in Amounts /\ Estimated \in Amounts /\ Actual \in Amounts
<1>1. \A r \in Requests : event[r] \in Events
  BY DEF UsageTypeOK
<1>2. \A r \in Requests : event[r].estimate \in {0} \cup Estimates
                            /\ event[r].actual \in {0} \cup Estimates \cup Costs
  BY <1>1 DEF Events
<1>3. {0} \cup Estimates \subseteq Nat /\ {0} \cup Estimates \cup Costs \subseteq Nat
  BY UsageAssumption
<1>4. \A r \in Requests : event[r].estimate \in Nat /\ event[r].actual \in Nat
  BY <1>2, <1>3
<1> QED BY <1>4 DEF Amounts, Zero, Estimated, Actual

-----------------------------------------------------------------------------
(* A settlement                                                            *)

\* The charges that settlements make.
Charges == [Requests -> {0} \cup Estimates \cup Costs]

\* Open reservations are settled, whoever settles them.
Settlement(S, state, charge) ==
  /\ S \in SUBSET Requests /\ \A r \in S : event[r].state = "reserved"
  /\ state \in {"completed", "failed"} /\ charge \in Charges
  /\ Settles(S, state, charge)

\* What the events of a settlement become.
LEMMA SettledEvents ==
  ASSUME UsageTypeOK, NEW S, NEW state, NEW charge, Settlement(S, state, charge)
  PROVE  /\ event' \in [Requests -> Events]
         /\ \A r \in Requests :
              /\ event'[r].month = event[r].month /\ event'[r].estimate = event[r].estimate
              /\ event'[r].started = event[r].started
              /\ r \in S => event'[r].state = state /\ event'[r].actual = charge[r]
              /\ r \notin S => event'[r] = event[r]
<1>1. event' = [r \in Requests |->
          IF r \in S THEN [event[r] EXCEPT !.state = state, !.actual = charge[r], !.old = FALSE]
          ELSE event[r]]
  BY DEF Settlement, Settles
<1>2. \A r \in Requests : event[r] \in Events
  BY DEF UsageTypeOK
<1>3. \A r \in Requests : charge[r] \in {0} \cup Estimates \cup Costs
  BY DEF Settlement, Charges
<1>4. \A r \in Requests :
        [event[r] EXCEPT !.state = state, !.actual = charge[r], !.old = FALSE] \in Events
  BY <1>2, <1>3 DEF Settlement, Events
<1>5. event' \in [Requests -> Events]
  BY <1>1, <1>2, <1>4
<1>6. ASSUME NEW r \in Requests
      PROVE  /\ event'[r].month = event[r].month /\ event'[r].estimate = event[r].estimate
             /\ event'[r].started = event[r].started
             /\ r \in S => event'[r].state = state /\ event'[r].actual = charge[r]
             /\ r \notin S => event'[r] = event[r]
  <2>1. event[r] \in Events
    BY <1>2
  <2>2. event'[r] = IF r \in S
                    THEN [event[r] EXCEPT !.state = state, !.actual = charge[r], !.old = FALSE]
                    ELSE event[r]
    BY <1>1
  <2> QED BY <2>1, <2>2 DEF Events
<1> QED BY <1>5, <1>6

\* What the ledger of a settlement becomes: the estimates of the month's settled
\* events are free again, their charges are spent.
LEMMA SettledLedger ==
  ASSUME UsageTypeOK, LedgerAdds, NEW S, NEW state, NEW charge, Settlement(S, state, charge),
         NEW m \in Months
  PROVE  LET A == {r \in S : event[r].month = m}
         IN  /\ A \in SUBSET Open(m)
             /\ Cost(A, Zero, Estimated) + Cost(Open(m) \ A, Zero, Estimated) = ledger[m].reserved
             /\ ledger'[m].reserved = Cost(Open(m) \ A, Zero, Estimated)
             /\ ledger'[m].spent = ledger[m].spent + Cost(A, Zero, charge)
             /\ ledger'[m].approved = ledger[m].approved
             /\ ledger'[m] \in Ledgers
<1> DEFINE A == {r \in S : event[r].month = m}
<1>1. A \in SUBSET Open(m) /\ Open(m) \in SUBSET Requests /\ A \in SUBSET Requests
      /\ Open(m) \ A \in SUBSET Requests
  BY DEF Settlement, Open, Of
<1>2. Zero \in Amounts /\ Estimated \in Amounts /\ charge \in Amounts
  <2>1. {0} \cup Estimates \cup Costs \subseteq Nat
    BY UsageAssumption
  <2> QED BY <2>1, AmountsType DEF Settlement, Charges, Amounts
<1>3. PICK freed, kept, spent : freed = Cost(A, Zero, Estimated) /\ spent = Cost(A, Zero, charge)
                                /\ kept = Cost(Open(m) \ A, Zero, Estimated)
  OBVIOUS
<1>4. freed \in Nat /\ kept \in Nat /\ spent \in Nat
  BY <1>1, <1>2, <1>3, CostType
<1>5. ledger[m].reserved = freed + kept
  <2>1. A \cup (Open(m) \ A) = Open(m) /\ A \cap (Open(m) \ A) = {}
    BY <1>1
  <2>2. Cost(A \cup (Open(m) \ A), Zero, Estimated) = freed + kept
    BY <1>1, <1>2, <1>3, <2>1, CostSplit
  <2> QED BY <2>1, <2>2 DEF LedgerAdds
<1>6. ledger[m] \in Ledgers
  BY DEF UsageTypeOK
<1>7. ledger'[m] = [ledger[m] EXCEPT !.reserved = IF freed > @ THEN 0 ELSE @ - freed,
                                     !.spent = @ + spent]
  BY <1>3 DEF Settlement, Settles
<1>8. ledger'[m].reserved = kept /\ ledger'[m].spent = ledger[m].spent + spent
      /\ ledger'[m].approved = ledger[m].approved
  BY <1>4, <1>5, <1>6, <1>7 DEF Ledgers
<1>9. ledger'[m] \in Ledgers
  <2>1. PICK rest, whole : rest = (IF freed > ledger[m].reserved THEN 0 ELSE ledger[m].reserved - freed)
                           /\ whole = ledger[m].spent + spent
    OBVIOUS
  <2>2. rest \in Nat /\ whole \in Nat
    BY <1>4, <1>5, <1>6, <2>1 DEF Ledgers
  <2>3. ledger'[m] = [ledger[m] EXCEPT !.reserved = rest, !.spent = whole]
    BY <1>7, <2>1
  <2> QED BY <1>6, <2>2, <2>3 DEF Ledgers
<1> QED BY <1>1, <1>3, <1>4, <1>5, <1>8, <1>9

\* A settlement keeps the ledger adding up, and within its budget but for what
\* calls cost beyond their estimates.
LEMMA SettlementAdds ==
  ASSUME UsageTypeOK, RequestsInv, LedgerAdds, WithinBudget,
         NEW S, NEW state, NEW charge, Settlement(S, state, charge)
  PROVE  LedgerAdds' /\ WithinBudget'
<1>1. PICK E, C, F, D : /\ E = Estimated /\ C = Actual /\ F = Actual' /\ D = Estimated'
  OBVIOUS
<1>2. \A r \in Requests :
        D[r] = E[r] /\ F[r] = (IF r \in S THEN charge[r] ELSE C[r]) /\ (r \in S => C[r] = 0)
  <2>1. \A r \in Requests : event'[r].estimate = event[r].estimate
                            /\ event'[r].actual = IF r \in S THEN charge[r] ELSE event[r].actual
    BY SettledEvents
  <2>2. \A r \in S : event[r].actual = 0
    BY DEF RequestsInv, EventInv, Settlement
  <2> QED BY <1>1, <2>1, <2>2 DEF Estimated, Actual
<1>3. Zero \in Amounts /\ E \in Amounts /\ C \in Amounts /\ charge \in Amounts /\ F \in Amounts
  <2>1. {0} \cup Estimates \cup Costs \subseteq Nat
    BY UsageAssumption
  <2>2. Zero \in Amounts /\ E \in Amounts /\ C \in Amounts /\ charge \in Amounts
    BY <1>1, <2>1, AmountsType DEF Settlement, Charges, Amounts
  <2>3. F = [r \in Requests |-> event'[r].actual]
    BY <1>1 DEF Actual
  <2> QED BY <1>2, <2>2, <2>3 DEF Amounts
<1> SUFFICES ASSUME NEW m \in Months
             PROVE  /\ ledger'[m].reserved = Cost(Open(m)', Zero, D)
                    /\ ledger'[m].spent = Cost(Of(m)' \ Open(m)', Zero, F)
                    /\ Total(m)' <= ledger'[m].approved + Cost(Of(m)', D, F)
  BY <1>1 DEF LedgerAdds, WithinBudget
<1>4. PICK A : A = {r \in S : event[r].month = m}
  OBVIOUS
<1>5. /\ A \in SUBSET Open(m)
      /\ Cost(A, Zero, E) + Cost(Open(m) \ A, Zero, E) = ledger[m].reserved
      /\ ledger'[m].reserved = Cost(Open(m) \ A, Zero, E)
      /\ ledger'[m].spent = ledger[m].spent + Cost(A, Zero, charge)
      /\ ledger'[m].approved = ledger[m].approved
  BY <1>1, <1>4, SettledLedger
<1>6. PICK O, P : O = Of(m) /\ P = Open(m)
  OBVIOUS
<1>7. Of(m)' = O /\ Open(m)' = P \ A
  <2>1. \A r \in Requests : /\ event'[r].month = event[r].month
                            /\ event'[r].state = IF r \in S THEN state ELSE event[r].state
    BY SettledEvents
  <2>2. state # "reserved"
    BY DEF Settlement
  <2> QED BY <1>4, <1>6, <2>1, <2>2 DEF Of, Open
<1>8. O \in SUBSET Requests /\ P \in SUBSET O /\ A \in SUBSET P /\ A \in SUBSET S
      /\ S \cap O \subseteq A
  BY <1>4, <1>5, <1>6 DEF Of, Open, Settlement
<1>p. S \cap O \subseteq P
  BY <1>5, <1>6, <1>8
<1>9. ledger'[m].reserved = Cost(Open(m)', Zero, D)
  <2>1. Cost(P \ A, Zero, D) = Cost(P \ A, Zero, E)
    BY <1>2, <1>8, CostSame
  <2> QED BY <1>5, <1>6, <1>7, <2>1
<1>10. ledger'[m].spent = Cost(Of(m)' \ Open(m)', Zero, F)
  <2>1. O \ (P \ A) = (O \ P) \cup A /\ (O \ P) \cap A = {} /\ O \ P \in SUBSET Requests
        /\ A \in SUBSET Requests
    BY <1>8
  <2>2. Cost((O \ P) \cup A, Zero, F) = Cost(O \ P, Zero, F) + Cost(A, Zero, F)
    BY <1>3, <2>1, CostSplit
  <2>3. Cost(O \ P, Zero, F) = Cost(O \ P, Zero, C)
    <3>1. \A r \in O \ P : r \in Requests /\ r \notin S
      BY <1>8, <1>p
    <3> QED BY <1>2, <3>1, CostSame
  <2>4. Cost(A, Zero, F) = Cost(A, Zero, charge)
    BY <1>2, <1>8, CostSame
  <2>5. ledger[m].spent = Cost(O \ P, Zero, C)
    BY <1>1, <1>6 DEF LedgerAdds
  <2> QED BY <1>5, <1>7, <2>1, <2>2, <2>3, <2>4, <2>5
<1>11. Total(m)' <= ledger'[m].approved + Cost(Of(m)', D, F)
  <2>1. O = (O \ A) \cup A /\ (O \ A) \cap A = {} /\ O \ A \in SUBSET Requests
        /\ A \in SUBSET Requests
    BY <1>8
  <2>2. Cost(O, E, F) = Cost(O \ A, E, F) + Cost(A, E, F)
    BY <1>3, <2>1, CostSplit
  <2>3. Cost(O, E, C) = Cost(O \ A, E, C) + Cost(A, E, C)
    BY <1>3, <2>1, CostSplit
  <2>4. Cost(O \ A, E, F) = Cost(O \ A, E, C)
    <3>1. \A r \in O \ A : r \in Requests /\ r \notin S
      BY <1>8
    <3> QED BY <1>2, <3>1, CostSame
  <2>5. Cost(A, E, F) = Cost(A, E, charge)
    BY <1>2, <1>8, CostSame
  <2>6. Cost(A, E, C) = 0
    <3>1. \A r \in A : C[r] <= E[r]
      BY <1>2, <1>3, <1>8 DEF Amounts
    <3> QED BY <1>3, <2>1, <3>1, CostNothing
  <2>7. Cost(A, Zero, charge) <= Cost(A, Zero, E) + Cost(A, E, charge)
    BY <1>3, <2>1, CostBeyond
  <2>8. Cost(O, D, F) = Cost(O, E, F)
    BY <1>2, <1>8, CostSame
  <2>9. /\ Cost(A, Zero, charge) \in Nat /\ Cost(A, Zero, E) \in Nat /\ Cost(A, E, charge) \in Nat
        /\ Cost(O \ A, E, C) \in Nat /\ Cost(Open(m) \ A, Zero, E) \in Nat
    BY <1>3, <1>6, <1>8, <2>1, CostType
  <2>10. ledger[m] \in Ledgers /\ ledger[m].spent \in Nat /\ ledger[m].approved \in Nat
    BY UsageAssumption DEF UsageTypeOK, Ledgers
  <2>11. ledger[m].spent + ledger[m].reserved <= ledger[m].approved + Cost(O, E, C)
    BY <1>1, <1>6 DEF WithinBudget, Total
  <2>12. Total(m)' = ledger'[m].spent + ledger'[m].reserved
    BY DEF Total
  <2> HIDE DEF Settlement
  <2> QED BY <1>5, <1>7, <2>2, <2>3, <2>4, <2>5, <2>6, <2>7, <2>8, <2>9, <2>10, <2>11, <2>12
<1> QED BY <1>9, <1>10, <1>11

-----------------------------------------------------------------------------
(* What the parts of the invariant depend on                               *)

\* Amounts that stay keep the ledger, whatever else becomes of events; a budget
\* only rises.
LEMMA LedgerKept ==
  ASSUME UsageTypeOK, LedgerAdds, WithinBudget,
         \A r \in Requests :
           /\ event'[r].month = event[r].month /\ event'[r].estimate = event[r].estimate
           /\ event'[r].actual = event[r].actual
           /\ event'[r].state = "reserved" <=> event[r].state = "reserved",
         \A m \in Months :
           /\ ledger'[m].spent = ledger[m].spent /\ ledger'[m].reserved = ledger[m].reserved
           /\ ledger'[m].approved \in Nat /\ ledger[m].approved <= ledger'[m].approved
  PROVE  LedgerAdds' /\ WithinBudget'
<1>1. Estimated' = Estimated /\ Actual' = Actual
  BY DEF Estimated, Actual
<1>2. \A m : Of(m)' = Of(m) /\ Open(m)' = Open(m)
  BY DEF Of, Open
<1>3. LedgerAdds'
  BY <1>1, <1>2 DEF LedgerAdds
<1>4. ASSUME NEW m \in Months
      PROVE  Total(m)' <= ledger'[m].approved + Cost(Of(m)', Estimated', Actual')
  <2>1. PICK excess : excess = Cost(Of(m), Estimated, Actual)
    OBVIOUS
  <2>2. excess \in Nat
    <3>1. Of(m) \in SUBSET Requests
      BY DEF Of
    <3> QED BY <2>1, <3>1, AmountsType, CostType
  <2>3. ledger[m].spent + ledger[m].reserved <= ledger[m].approved + excess
    BY <2>1 DEF WithinBudget, Total
  <2>4. ledger[m] \in Ledgers /\ ledger[m].approved \in Nat
    BY UsageAssumption DEF UsageTypeOK, Ledgers
  <2>5. ledger[m].spent \in Nat /\ ledger[m].reserved \in Nat
    BY <2>4 DEF Ledgers
  <2>6. Total(m)' = ledger'[m].spent + ledger'[m].reserved
    BY DEF Total
  <2>7. Cost(Of(m)', Estimated', Actual') = excess
    BY <1>1, <1>2, <2>1
  <2> QED BY <2>2, <2>3, <2>4, <2>5, <2>6, <2>7
<1> QED BY <1>3, <1>4 DEF WithinBudget

\* A request that has not moved, whose event is still there and still started.
LEMMA CallerKept ==
  ASSUME UsageTypeOK, NEW r \in Requests, CallerInv(r),
         caller'[r] = caller[r], cost'[r] = cost[r],
         event'[r].state = "none" <=> event[r].state = "none",
         event[r].started => event'[r].started,
         \A m \in Months : ledger'[m].approved \in Nat /\ ledger[m].approved <= ledger'[m].approved
  PROVE  CallerInv(r)'
<1>1. caller[r] \in Callers /\ caller[r].limit \in Nat
  BY DEF UsageTypeOK, Callers
<1>2. \A m \in Months : ledger[m] \in Ledgers /\ ledger[m].approved \in Nat
  BY UsageAssumption DEF UsageTypeOK, Ledgers
<1>3. caller'[r].at = "reserve" => caller'[r].limit <= ledger'[caller'[r].month].approved
  <2> SUFFICES ASSUME caller[r].at = "reserve"
               PROVE  caller[r].limit <= ledger'[caller[r].month].approved
    OBVIOUS
  <2>1. PICK m \in Months : m = caller[r].month
    BY DEF CallerInv
  <2>2. caller[r].limit <= ledger[m].approved
    BY <2>1 DEF CallerInv
  <2> QED BY <1>1, <1>2, <2>1, <2>2
<1> QED BY <1>3 DEF CallerInv

\* Where a request goes.
LEMMA Gone ==
  ASSUME UsageTypeOK, NEW r \in Requests, NEW at, Goes(r, at),
         at \in {"held", "started", "calling", "answered", "settle", "done"}
  PROVE  /\ caller' \in [Requests -> Callers]
         /\ caller'[r].at = at
         /\ caller'[r].seen = IF at = "settle" THEN caller[r].seen ELSE 0
         /\ \A s \in Requests \ {r} : caller'[s] = caller[s]
<1>1. caller[r].seen \in {0} \cup Costs
  BY DEF UsageTypeOK, Callers
<1>2. PICK seen : seen = IF at = "settle" THEN caller[r].seen ELSE 0
  OBVIOUS
<1>3. caller' = [caller EXCEPT ![r] = [Place(at) EXCEPT !.seen = seen]]
  BY <1>2 DEF Goes
<1>4. [Place(at) EXCEPT !.seen = seen]
      = [at |-> at, tier |-> "none", month |-> 0, estimate |-> 0, limit |-> 0, seen |-> seen]
  BY DEF Place
<1>5. [Place(at) EXCEPT !.seen = seen] \in Callers
  BY <1>1, <1>2, <1>4 DEF Callers
<1>6. caller \in [Requests -> Callers]
  BY DEF UsageTypeOK
<1> QED BY <1>2, <1>3, <1>4, <1>5, <1>6

\* A request and what its work was charged.
Work(r) ==
  /\ cost[r] > 0 => event[r].started
  /\ event[r].state \in {"completed", "failed"} =>
       event[r].actual \in IF event[r].started THEN {event[r].estimate, cost[r]} \ {0} ELSE {0}

\* Every request's work is charged.
LEMMA WorkOfAll == WorkIsCharged <=> \A r \in Requests : Work(r)
BY DEF WorkIsCharged, Work

\* A settlement charges as it should if its charges are of the right kind.
LEMMA SettlementCharges ==
  ASSUME UsageTypeOK, RequestsInv, WorkIsCharged,
         NEW S, NEW state, NEW charge, Settlement(S, state, charge), UNCHANGED cost,
         \A r \in S :
           charge[r] \in IF event[r].started THEN {event[r].estimate, cost[r]} \ {0} ELSE {0}
  PROVE  /\ WorkIsCharged' /\ \A r \in Requests : EventInv(r)'
         /\ \A r \in Requests : CallerInv(r) /\ caller'[r] = caller[r] => CallerInv(r)'
<1>1. ASSUME NEW r \in Requests PROVE Work(r)' /\ EventInv(r)'
  <2>1. /\ event'[r].month = event[r].month /\ event'[r].estimate = event[r].estimate
        /\ event'[r].started = event[r].started
        /\ r \in S => event'[r].state = state /\ event'[r].actual = charge[r]
        /\ r \notin S => event'[r] = event[r]
    BY SettledEvents
  <2>2. Work(r) /\ EventInv(r)
    BY WorkOfAll DEF RequestsInv
  <2>3. state \in {"completed", "failed"} /\ (r \in S => event[r].state = "reserved")
    BY DEF Settlement
  <2>4. CASE r \in S
    BY <2>1, <2>2, <2>3, <2>4 DEF Work, EventInv
  <2>5. CASE r \notin S
    BY <2>1, <2>2, <2>5 DEF Work, EventInv
  <2> QED BY <2>4, <2>5
<1>2. ASSUME NEW r \in Requests, CallerInv(r), caller'[r] = caller[r] PROVE CallerInv(r)'
  <2>1. event'[r].started = event[r].started
        /\ (r \in S => event'[r].state = state) /\ (r \notin S => event'[r] = event[r])
    BY SettledEvents
  <2>2. state \in {"completed", "failed"} /\ (r \in S => event[r].state = "reserved")
    BY DEF Settlement
  <2>3. ASSUME NEW m \in Months
        PROVE  ledger'[m].approved \in Nat /\ ledger[m].approved <= ledger'[m].approved
    <3>1. ledger[m].approved \in Nat
      BY UsageAssumption DEF UsageTypeOK, Ledgers
    <3>2. ledger'[m] = [ledger[m] EXCEPT
             !.reserved = IF Cost({r2 \in S : event[r2].month = m}, Zero, Estimated) > @ THEN 0
                          ELSE @ - Cost({r2 \in S : event[r2].month = m}, Zero, Estimated),
             !.spent = @ + Cost({r2 \in S : event[r2].month = m}, Zero, charge)]
      BY DEF Settlement, Settles
    <3>3. ledger[m] \in Ledgers
      BY DEF UsageTypeOK
    <3> QED BY <3>1, <3>2, <3>3 DEF Ledgers
  <2> QED BY <1>2, <2>1, <2>2, <2>3, CallerKept
<1>3. WorkIsCharged'
  BY <1>1 DEF WorkIsCharged, Work
<1> QED BY <1>1, <1>2, <1>3

-----------------------------------------------------------------------------
(* The steps                                                               *)

\* A settlement keeps the types of the ledger and of the events.
LEMMA SettlementTypes ==
  ASSUME UsageTypeOK, LedgerAdds, NEW S, NEW state, NEW charge, Settlement(S, state, charge)
  PROVE  ledger' \in [Months -> Ledgers] /\ event' \in [Requests -> Events]
<1>1. \A m \in Months : ledger'[m] \in Ledgers
  BY SettledLedger
<1>2. ledger' = [m \in Months |-> ledger'[m]]
  BY DEF Settlement, Settles
<1> QED BY <1>1, <1>2, SettledEvents

\* What is presumed is a charge, and the right one.
LEMMA PresumedRight ==
  ASSUME UsageTypeOK, RequestsInv
  PROVE  \A r \in Requests :
           /\ Presumed(r) \in {0} \cup Estimates
           /\ event[r].state = "reserved" =>
                Presumed(r) \in IF event[r].started THEN {event[r].estimate, cost[r]} \ {0} ELSE {0}
<1> SUFFICES ASSUME NEW r \in Requests
             PROVE  /\ Presumed(r) \in {0} \cup Estimates
                    /\ event[r].state = "reserved" =>
                         Presumed(r) \in IF event[r].started
                                         THEN {event[r].estimate, cost[r]} \ {0} ELSE {0}
  OBVIOUS
<1>1. event[r].estimate \in {0} \cup Estimates
  BY DEF UsageTypeOK, Events
<1>2. event[r].state = "reserved" => event[r].estimate \in Estimates
  BY DEF RequestsInv, EventInv
<1>3. 0 \notin Estimates
  BY UsageAssumption
<1> QED BY <1>1, <1>2, <1>3 DEF Presumed

\* Reservations that have run out are settled.
LEMMA ReapSettles ==
  ASSUME UsageTypeOK, RequestsInv, WorkIsCharged, LedgerAdds, WithinBudget, Reap, UNCHANGED cost
  PROVE  /\ ledger' \in [Months -> Ledgers] /\ event' \in [Requests -> Events]
         /\ LedgerAdds' /\ WithinBudget' /\ WorkIsCharged'
         /\ \A r \in Requests : EventInv(r)'
         /\ \A r \in Requests : CallerInv(r) /\ caller'[r] = caller[r] => CallerInv(r)'
         /\ \A r \in Requests : event[r].state = "none" => event'[r].state = "none"
<1>1. PICK S : S = {r \in Requests : event[r].state = "reserved" /\ event[r].old}
  OBVIOUS
<1>2. PICK charge : charge = [r \in Requests |-> Presumed(r)]
  OBVIOUS
<1>3. charge \in Charges
  BY <1>2, PresumedRight DEF Charges
<1>4. Settles(S, "failed", charge)
  BY <1>1, <1>2 DEF Reap
<1>5. Settlement(S, "failed", charge)
  BY <1>1, <1>3, <1>4 DEF Settlement
<1>6. \A r \in S :
        charge[r] \in IF event[r].started THEN {event[r].estimate, cost[r]} \ {0} ELSE {0}
  BY <1>1, <1>2, PresumedRight
<1>7. \A r \in Requests : event[r].state = "none" => event'[r].state = "none"
  BY <1>1, <1>5, SettledEvents
<1> QED BY <1>5, <1>6, <1>7, SettlementTypes, SettlementAdds, SettlementCharges

\* A reservation that is still there is settled with a charge of the right kind.
LEMMA OneSettles ==
  ASSUME UsageTypeOK, RequestsInv, WorkIsCharged, LedgerAdds, WithinBudget, UNCHANGED cost,
         NEW r \in Requests, NEW state \in {"completed", "failed"}, NEW charge \in Charges,
         Settles(StillReserved(r), state, charge),
         event[r].state = "reserved" =>
           charge[r] \in IF event[r].started THEN {event[r].estimate, cost[r]} \ {0} ELSE {0}
  PROVE  /\ ledger' \in [Months -> Ledgers] /\ event' \in [Requests -> Events]
         /\ LedgerAdds' /\ WithinBudget' /\ WorkIsCharged'
         /\ \A s \in Requests : EventInv(s)'
         /\ \A s \in Requests : CallerInv(s) /\ caller'[s] = caller[s] => CallerInv(s)'
         /\ event[r].state # "none" => event'[r].state # "none"
<1>1. PICK S : S = StillReserved(r)
  OBVIOUS
<1>2. S \in SUBSET Requests /\ \A s \in S : s = r /\ event[s].state = "reserved"
  BY <1>1 DEF StillReserved
<1>3. Settlement(S, state, charge)
  BY <1>1, <1>2 DEF Settlement
<1>4. \A s \in S :
        charge[s] \in IF event[s].started THEN {event[s].estimate, cost[s]} \ {0} ELSE {0}
  BY <1>2
<1>5. event[r].state # "none" => event'[r].state # "none"
  BY <1>3, SettledEvents
<1> QED BY <1>3, <1>4, <1>5, SettlementTypes, SettlementAdds, SettlementCharges

\* A request begins after reservations that ran out are settled.
LEMMA BeginKeeps ==
  ASSUME AiInv, NEW r \in Requests, Begin(r)
  PROVE  AiInv'
<1>1. PICK tier \in {"cheap", "strong"}, estimate \in Estimates :
        caller' = [caller EXCEPT ![r].at = "read", ![r].tier = tier, ![r].month = month,
                                 ![r].estimate = estimate]
  BY DEF Begin
<1>2. /\ ledger' \in [Months -> Ledgers] /\ event' \in [Requests -> Events]
      /\ LedgerAdds' /\ WithinBudget' /\ WorkIsCharged'
      /\ \A s \in Requests : EventInv(s)'
      /\ \A s \in Requests : CallerInv(s) /\ caller'[s] = caller[s] => CallerInv(s)'
      /\ \A s \in Requests : event[s].state = "none" => event'[s].state = "none"
  BY ReapSettles DEF AiInv, Begin
<1>3. caller \in [Requests -> Callers] /\ month \in Months
  BY DEF AiInv, UsageTypeOK
<1>4. caller[r].at = "new" /\ month' = month /\ cost' = cost
  BY DEF Begin
<1>5. caller'[r] = [caller[r] EXCEPT !.at = "read", !.tier = tier, !.month = month,
                                     !.estimate = estimate]
      /\ \A s \in Requests \ {r} : caller'[s] = caller[s]
  BY <1>1, <1>3
<1>6. caller[r] \in Callers
  BY <1>3
<1>7. caller'[r] \in Callers
  BY <1>3, <1>5, <1>6 DEF Callers
<1>8. caller' \in [Requests -> Callers]
  <2>1. caller' = [s \in Requests |-> caller'[s]]
    BY <1>1, <1>3
  <2> QED BY <1>3, <1>5, <1>7, <2>1
<1>9. UsageTypeOK' /\ AlarmInv'
  BY <1>2, <1>8 DEF AiInv, UsageTypeOK, AlarmInv, Begin, alarmVars
<1>10. CallerInv(r)'
  <2>1. CallerInv(r)
    BY DEF AiInv, RequestsInv
  <2>2. /\ caller'[r].at = "read" /\ caller'[r].month = month
        /\ caller'[r].estimate = estimate /\ caller'[r].seen = caller[r].seen
    BY <1>5, <1>6 DEF Callers
  <2> QED BY <1>2, <1>3, <1>4, <2>1, <2>2 DEF CallerInv
<1>11. RequestsInv'
  <2>1. ASSUME NEW s \in Requests PROVE CallerInv(s)'
    BY <1>2, <1>5, <1>10 DEF AiInv, RequestsInv
  <2> QED BY <1>2, <2>1 DEF RequestsInv
<1> QED BY <1>2, <1>9, <1>11 DEF AiInv

\* What a step keeps that moves one request, and neither event nor ledger.
LEMMA MoveKeeps ==
  ASSUME AiInv, NEW r \in Requests, UNCHANGED <<month, ledger, event, alarmVars>>,
         caller' \in [Requests -> Callers], cost' \in [Requests -> {0} \cup Costs],
         \A s \in Requests \ {r} : caller'[s] = caller[s] /\ cost'[s] = cost[s],
         CallerInv(r)', Work(r)'
  PROVE  AiInv'
<1>1. \A m \in Months : ledger[m].approved \in Nat
  BY UsageAssumption DEF AiInv, UsageTypeOK, Ledgers
<1>2. UsageTypeOK' /\ AlarmInv'
  BY DEF AiInv, UsageTypeOK, AlarmInv, alarmVars
<1>3. LedgerAdds' /\ WithinBudget'
  BY <1>1, LedgerKept DEF AiInv
<1>4. ASSUME NEW s \in Requests PROVE EventInv(s)' /\ CallerInv(s)' /\ Work(s)'
  <2>1. EventInv(s) /\ CallerInv(s) /\ Work(s)
    BY WorkOfAll DEF AiInv, RequestsInv
  <2>2. EventInv(s)'
    BY <2>1 DEF EventInv
  <2>3. CASE s # r
    <3>1. caller'[s] = caller[s] /\ cost'[s] = cost[s] /\ event'[s] = event[s]
      BY <2>3
    <3>2. UsageTypeOK
      BY DEF AiInv
    <3>3. CallerInv(s)'
      BY <1>1, <2>1, <3>1, <3>2, CallerKept
    <3> QED BY <2>1, <2>2, <3>1, <3>3 DEF Work
  <2> QED BY <2>2, <2>3
<1>5. WorkIsCharged'
  BY <1>4 DEF WorkIsCharged, Work
<1> QED BY <1>2, <1>3, <1>4, <1>5 DEF AiInv, RequestsInv

\* A request reads its month, and fixes its limit within what is approved.
LEMMA ReadMonthKeeps ==
  ASSUME AiInv, NEW r \in Requests, ReadMonth(r)
  PROVE  AiInv'
<1>1. UsageTypeOK /\ CallerInv(r) /\ Work(r) /\ caller[r].at = "read"
      /\ UNCHANGED <<month, ledger, event, cost, alarmVars>>
  BY WorkOfAll DEF AiInv, RequestsInv, ReadMonth
<1>2. caller \in [Requests -> Callers] /\ caller[r] \in Callers
      /\ cost \in [Requests -> {0} \cup Costs]
  BY <1>1 DEF UsageTypeOK
<1>3. PICK m \in Months : m = caller[r].month
  BY <1>1 DEF CallerInv
<1>4. ledger[m].approved \in Nat /\ Alert \in Nat
  BY <1>1, UsageAssumption DEF UsageTypeOK, Ledgers
<1>5. Work(r)'
  BY <1>1 DEF Work
<1>6. PICK limit : limit = LimitOf(caller[r].tier, ledger[m].approved)
  OBVIOUS
<1>7. limit \in Nat /\ limit <= ledger[m].approved
  BY <1>4, <1>6 DEF LimitOf
<1>8. \/ caller' = [caller EXCEPT ![r].at = "reserve", ![r].limit = limit]
      \/ Goes(r, "done")
  BY <1>3, <1>6 DEF ReadMonth
<1>9. CASE caller' = [caller EXCEPT ![r].at = "reserve", ![r].limit = limit]
  <2>1. caller'[r] = [caller[r] EXCEPT !.at = "reserve", !.limit = limit]
        /\ \A s \in Requests \ {r} : caller'[s] = caller[s]
    BY <1>2, <1>9
  <2>2. caller'[r] \in Callers
    BY <1>2, <1>7, <2>1 DEF Callers
  <2>3. caller' \in [Requests -> Callers]
    <3>1. caller' = [s \in Requests |-> caller'[s]]
      BY <1>2, <1>9
    <3> QED BY <1>2, <2>1, <2>2, <3>1
  <2>4. /\ caller'[r].at = "reserve" /\ caller'[r].month = m /\ caller'[r].limit = limit
        /\ caller'[r].estimate = caller[r].estimate /\ caller'[r].seen = caller[r].seen
    BY <1>2, <1>3, <2>1 DEF Callers
  <2>5. CallerInv(r)'
    BY <1>1, <1>3, <1>7, <2>4 DEF CallerInv
  <2> QED BY <1>1, <1>2, <1>5, <2>1, <2>3, <2>5, MoveKeeps
<1>10. CASE Goes(r, "done")
  <2>1. CallerInv(r)'
    BY <1>1, <1>10, Gone DEF CallerInv
  <2> QED BY <1>1, <1>2, <1>5, <1>10, <2>1, Gone, MoveKeeps
<1> QED BY <1>8, <1>9, <1>10

\* A request calls the provider, or turns back.
LEMMA CallKeeps ==
  ASSUME AiInv, NEW r \in Requests, Call(r)
  PROVE  AiInv'
<1>1. UsageTypeOK /\ CallerInv(r) /\ EventInv(r) /\ Work(r) /\ caller[r].at = "started"
      /\ UNCHANGED <<month, ledger, event, alarmVars>>
  BY WorkOfAll DEF AiInv, RequestsInv, Call
<1>2. cost \in [Requests -> {0} \cup Costs]
  BY <1>1 DEF UsageTypeOK
<1>3. ASSUME Goes(r, "calling"), NEW c \in Costs, cost' = [cost EXCEPT ![r] = c]
      PROVE  AiInv'
  <2>1. cost' \in [Requests -> {0} \cup Costs] /\ cost'[r] = c
        /\ \A s \in Requests \ {r} : cost'[s] = cost[s]
    BY <1>2, <1>3
  <2>2. CallerInv(r)'
    BY <1>1, <1>3, Gone DEF CallerInv
  <2>3. Work(r)'
    <3>1. cost[r] = 0 /\ event[r].started
      BY <1>1 DEF CallerInv
    <3>2. event'[r] = event[r]
      BY <1>1
    <3> QED BY <1>1, <2>1, <3>1, <3>2 DEF Work
  <2> QED BY <1>1, <1>3, <2>1, <2>2, <2>3, Gone, MoveKeeps
<1>4. ASSUME Goes(r, "settle"), UNCHANGED cost PROVE AiInv'
  <2>1. CallerInv(r)' /\ Work(r)'
    BY <1>1, <1>4, Gone DEF CallerInv, Work
  <2> QED BY <1>1, <1>2, <1>4, <2>1, Gone, MoveKeeps
<1> QED BY <1>3, <1>4 DEF Call

\* A call is answered, or not.
LEMMA AnswerKeeps ==
  ASSUME AiInv, NEW r \in Requests, Answer(r)
  PROVE  AiInv'
<1>1. UsageTypeOK /\ CallerInv(r) /\ Work(r) /\ caller[r].at = "calling"
      /\ UNCHANGED <<month, ledger, event, cost, alarmVars>>
  BY WorkOfAll DEF AiInv, RequestsInv, Answer
<1>2. caller \in [Requests -> Callers] /\ caller[r] \in Callers
      /\ cost \in [Requests -> {0} \cup Costs]
  BY <1>1 DEF UsageTypeOK
<1>3. Work(r)'
  BY <1>1 DEF Work
<1>4. CASE caller' = [caller EXCEPT ![r].at = "answered", ![r].seen = cost[r]]
  <2>1. caller'[r] = [caller[r] EXCEPT !.at = "answered", !.seen = cost[r]]
        /\ \A s \in Requests \ {r} : caller'[s] = caller[s]
    BY <1>2, <1>4
  <2>2. caller'[r] \in Callers
    BY <1>2, <2>1 DEF Callers
  <2>3. caller' \in [Requests -> Callers]
    <3>1. caller' = [s \in Requests |-> caller'[s]]
      BY <1>2, <1>4
    <3> QED BY <1>2, <2>1, <2>2, <3>1
  <2>4. caller'[r].at = "answered" /\ caller'[r].seen = cost[r]
    BY <1>2, <2>1 DEF Callers
  <2>5. CallerInv(r)'
    BY <1>1, <2>4 DEF CallerInv
  <2> QED BY <1>1, <1>2, <1>3, <2>1, <2>3, <2>5, MoveKeeps
<1>5. ASSUME NEW at \in {"answered", "settle"}, Goes(r, at) PROVE AiInv'
  <2>1. CallerInv(r)'
    BY <1>1, <1>5, Gone DEF CallerInv
  <2> QED BY <1>1, <1>2, <1>3, <1>5, <2>1, Gone, MoveKeeps
<1> QED BY <1>4, <1>5 DEF Answer

\* A reservation is added where there is still room.
LEMMA RoomKeeps ==
  ASSUME AiInv, NEW r \in Requests, caller[r].at = "reserve", StillRoom(caller[r]),
         NEW m \in Months, m = caller[r].month, NEW estimate, estimate = caller[r].estimate,
         event' = [event EXCEPT ![r] = [NoEvent EXCEPT !.state = "reserved", !.month = m,
                                                       !.estimate = estimate]],
         ledger' = [ledger EXCEPT ![m].reserved = @ + estimate]
  PROVE  /\ ledger' \in [Months -> Ledgers] /\ event' \in [Requests -> Events]
         /\ LedgerAdds' /\ WithinBudget'
         /\ \A n \in Months : ledger'[n].approved = ledger[n].approved
<1>1. UsageTypeOK /\ CallerInv(r) /\ EventInv(r)
  BY DEF AiInv, RequestsInv
<1>2. estimate \in Estimates /\ estimate \in Nat /\ event[r] = NoEvent
  BY <1>1, UsageAssumption DEF CallerInv, EventInv
<1>3. event \in [Requests -> Events] /\ ledger \in [Months -> Ledgers]
  BY <1>1 DEF UsageTypeOK
<1>4. PICK new : new = [state |-> "reserved", month |-> m, estimate |-> estimate,
                        started |-> FALSE, old |-> FALSE, actual |-> 0]
  OBVIOUS
<1>5. event' = [event EXCEPT ![r] = new] /\ new \in Events
  <2>1. event'[r] = new
    BY <1>3, <1>4 DEF NoEvent
  <2>2. new \in Events
    BY <1>2, <1>4 DEF Events
  <2>3. event' = [event EXCEPT ![r] = new]
    BY <1>3, <2>1
  <2> QED BY <2>2, <2>3
<1>6. event' \in [Requests -> Events]
  BY <1>3, <1>5
<1>7. ledger[m] \in Ledgers /\ ledger'[m] = [ledger[m] EXCEPT !.reserved = @ + estimate]
      /\ \A n \in Months \ {m} : ledger'[n] = ledger[n]
  BY <1>3
<1>8. ledger'[m] \in Ledgers /\ ledger'[m].reserved = ledger[m].reserved + estimate
      /\ ledger'[m].spent = ledger[m].spent /\ ledger'[m].approved = ledger[m].approved
  BY <1>2, <1>7 DEF Ledgers
<1>9. ledger' \in [Months -> Ledgers]
  <2>1. ledger' = [n \in Months |-> ledger'[n]]
    BY <1>3
  <2> QED BY <1>3, <1>7, <1>8, <2>1
<1>10. PICK E, C, D, F : E = Estimated /\ C = Actual /\ D = Estimated' /\ F = Actual'
  OBVIOUS
<1>11. /\ \A s \in Requests \ {r} : D[s] = E[s] /\ F[s] = C[s]
       /\ D[r] = estimate /\ F[r] = 0 /\ E[r] = 0 /\ C[r] = 0
  BY <1>2, <1>3, <1>4, <1>5, <1>10 DEF Estimated, Actual, NoEvent
<1>12. E \in Amounts /\ C \in Amounts /\ Zero \in Amounts
  BY <1>1, <1>10, AmountsType
<1>13. D \in Amounts /\ F \in Amounts
  <2>1. D = [s \in Requests |-> event'[s].estimate] /\ F = [s \in Requests |-> event'[s].actual]
    BY <1>10 DEF Estimated, Actual
  <2> QED BY <1>2, <1>11, <1>12, <2>1 DEF Amounts
<1>14. ASSUME NEW n \in Months
       PROVE  /\ Of(n) \in SUBSET Requests /\ r \notin Of(n)
              /\ Open(n) \in SUBSET Of(n)
              /\ Of(n)' = IF n = m THEN Of(n) \cup {r} ELSE Of(n)
              /\ Open(n)' = IF n = m THEN Open(n) \cup {r} ELSE Open(n)
  <2>1. \A s \in Requests \ {r} : event'[s] = event[s]
    BY <1>3, <1>5
  <2>2. event'[r].month = m /\ event'[r].state = "reserved"
    BY <1>3, <1>4, <1>5
  <2>3. event[r].month = 0 /\ n # 0
    BY <1>2 DEF NoEvent, Months
  <2>4. Of(n) \in SUBSET Requests /\ r \notin Of(n) /\ Open(n) \in SUBSET Of(n)
    BY <2>3 DEF Of, Open
  <2>5. Of(n)' = IF n = m THEN Of(n) \cup {r} ELSE Of(n)
    BY <2>1, <2>2, <2>3 DEF Of
  <2>6. Open(n)' = IF n = m THEN Open(n) \cup {r} ELSE Open(n)
    BY <2>1, <2>2, <2>3 DEF Of, Open
  <2> QED BY <2>4, <2>5, <2>6
<1>15. ASSUME NEW S, S \in SUBSET Requests, r \notin S, NEW from \in Amounts
       PROVE  /\ Cost(S, Zero, D) = Cost(S, Zero, E) /\ Cost(S, Zero, F) = Cost(S, Zero, C)
              /\ Cost(S, D, F) = Cost(S, E, C)
  BY <1>11, <1>15, CostSame
<1>16. ASSUME NEW n \in Months
       PROVE  /\ ledger'[n].reserved = Cost(Open(n)', Zero, D)
              /\ ledger'[n].spent = Cost(Of(n)' \ Open(n)', Zero, F)
  <2>1. Of(n) \in SUBSET Requests /\ r \notin Of(n) /\ Open(n) \in SUBSET Of(n)
    BY <1>14
  <2>2. Of(n)' \ Open(n)' = Of(n) \ Open(n)
    BY <1>14, <2>1
  <2>3. PICK rest, open : rest = Of(n) \ Open(n) /\ open = Open(n)
    OBVIOUS
  <2>4. rest \in SUBSET Requests /\ r \notin rest /\ open \in SUBSET Requests /\ r \notin open
    BY <2>1, <2>3
  <2>5. ledger[n].reserved = Cost(open, Zero, E) /\ ledger[n].spent = Cost(rest, Zero, C)
    BY <1>10, <2>3 DEF AiInv, LedgerAdds
  <2>6. Cost(rest, Zero, F) = Cost(rest, Zero, C) /\ Cost(open, Zero, D) = Cost(open, Zero, E)
    BY <1>12, <1>15, <2>4
  <2>7. ledger'[n].spent = ledger[n].spent
    BY <1>7, <1>8
  <2>8. CASE n = m
    <3>1. Cost(open \cup {r}, Zero, D) = Cost(open, Zero, D) + Cost({r}, Zero, D)
      <4>1. {r} \in SUBSET Requests /\ open \cap {r} = {}
        BY <2>4
      <4> QED BY <1>12, <1>13, <2>4, <4>1, CostSplit
    <3>2. Cost({r}, Zero, D) = estimate
      BY <1>11, <1>13, CostOfOne
    <3>3. Open(n)' = open \cup {r}
      BY <1>14, <2>3, <2>8
    <3> QED BY <1>8, <2>2, <2>3, <2>5, <2>6, <2>7, <2>8, <3>1, <3>2, <3>3
  <2>9. CASE n # m
    <3>1. Open(n)' = open /\ ledger'[n].reserved = ledger[n].reserved
      BY <1>7, <1>14, <2>3, <2>9
    <3> QED BY <2>2, <2>3, <2>5, <2>6, <2>7, <3>1
  <2> QED BY <2>8, <2>9
<1>17. ASSUME NEW n \in Months
       PROVE  Total(n)' <= ledger'[n].approved + Cost(Of(n)', D, F)
  <2>1. Total(n)' = ledger'[n].spent + ledger'[n].reserved
    BY DEF Total
  <2>2. Of(n) \in SUBSET Requests /\ r \notin Of(n)
    BY <1>14
  <2>3. ledger[n] \in Ledgers /\ ledger[n].spent \in Nat /\ ledger[n].reserved \in Nat
        /\ ledger[n].approved \in Nat
    BY <1>3, UsageAssumption DEF Ledgers
  <2>4. CASE n = m
    <3>1. caller[r] \in Callers
      BY <1>1 DEF UsageTypeOK
    <3>2. caller[r].limit \in Nat
      BY <3>1 DEF Callers
    <3>3. ledger[m].spent + ledger[m].reserved + estimate <= caller[r].limit
      BY DEF StillRoom, Total
    <3>4. caller[r].limit <= ledger[m].approved
      BY <1>1 DEF CallerInv
    <3>5. Cost(Of(n)', D, F) \in Nat
      <4>1. Of(n)' \in SUBSET Requests
        BY <1>14, <2>2
      <4> QED BY <1>13, <4>1, CostType
    <3> QED BY <1>2, <1>8, <2>1, <2>3, <2>4, <3>2, <3>3, <3>4, <3>5
  <2>5. CASE n # m
    <3>1. ledger'[n] = ledger[n] /\ Of(n)' = Of(n)
      BY <1>7, <1>14, <2>5
    <3>2. Cost(Of(n), D, F) = Cost(Of(n), E, C)
      BY <1>12, <1>15, <2>2
    <3>3. ledger[n].spent + ledger[n].reserved <= ledger[n].approved + Cost(Of(n), E, C)
      BY <1>10 DEF AiInv, WithinBudget, Total
    <3> QED BY <2>1, <3>1, <3>2, <3>3
  <2> QED BY <2>4, <2>5
<1>18. LedgerAdds' /\ WithinBudget'
  BY <1>10, <1>16, <1>17 DEF LedgerAdds, WithinBudget
<1>19. \A n \in Months : ledger'[n].approved = ledger[n].approved
  BY <1>7, <1>8
<1> QED BY <1>6, <1>9, <1>18, <1>19

\* What a step keeps that moves a request with its own event: the others have
\* neither moved nor changed, nobody is charged, the ledger adds up.
LEMMA EventKeeps ==
  ASSUME AiInv, NEW r \in Requests, UNCHANGED <<month, cost, alarmVars>>,
         ledger' \in [Months -> Ledgers], event' \in [Requests -> Events],
         caller' \in [Requests -> Callers], LedgerAdds', WithinBudget',
         \A s \in Requests \ {r} : caller'[s] = caller[s] /\ event'[s] = event[s],
         \A m \in Months : ledger[m].approved <= ledger'[m].approved,
         EventInv(r)', CallerInv(r)', Work(r)'
  PROVE  AiInv'
<1>1. \A m \in Months : ledger'[m].approved \in Nat
  BY UsageAssumption DEF Ledgers
<1>2. UsageTypeOK' /\ AlarmInv'
  BY DEF AiInv, UsageTypeOK, AlarmInv, alarmVars
<1>3. ASSUME NEW s \in Requests PROVE EventInv(s)' /\ CallerInv(s)' /\ Work(s)'
  <2>1. EventInv(s) /\ CallerInv(s) /\ Work(s)
    BY WorkOfAll DEF AiInv, RequestsInv
  <2>2. CASE s # r
    <3>1. caller'[s] = caller[s] /\ cost'[s] = cost[s] /\ event'[s] = event[s]
      BY <2>2
    <3>2. UsageTypeOK
      BY DEF AiInv
    <3>3. CallerInv(s)'
      BY <1>1, <2>1, <3>1, <3>2, CallerKept
    <3>4. EventInv(s)'
      BY <2>1, <3>1 DEF EventInv
    <3> QED BY <2>1, <3>1, <3>3, <3>4 DEF Work
  <2> QED BY <2>2
<1>4. WorkIsCharged'
  BY <1>3 DEF WorkIsCharged, Work
<1> QED BY <1>2, <1>3, <1>4 DEF AiInv, RequestsInv

\* A request reserves its estimate, or finds that there is no room any more.
LEMMA ReserveKeeps ==
  ASSUME AiInv, NEW r \in Requests, Reserve(r)
  PROVE  AiInv'
<1>1. UsageTypeOK /\ CallerInv(r) /\ EventInv(r) /\ Work(r) /\ caller[r].at = "reserve"
      /\ UNCHANGED <<month, cost, alarmVars>>
  BY WorkOfAll DEF AiInv, RequestsInv, Reserve
<1>2. event \in [Requests -> Events] /\ ledger \in [Months -> Ledgers]
      /\ cost \in [Requests -> {0} \cup Costs]
  BY <1>1 DEF UsageTypeOK
<1>3. \A m \in Months : ledger[m].approved \in Nat
  BY <1>2, UsageAssumption DEF Ledgers
<1>4. CASE StillRoom(caller[r])
  <2>1. PICK m, estimate : m = caller[r].month /\ estimate = caller[r].estimate
    OBVIOUS
  <2>2. m \in Months /\ estimate \in Estimates
    BY <1>1, <2>1 DEF CallerInv
  <2>3. /\ event' = [event EXCEPT ![r] = [NoEvent EXCEPT !.state = "reserved", !.month = m,
                                                         !.estimate = estimate]]
        /\ ledger' = [ledger EXCEPT ![m].reserved = @ + estimate]
        /\ Goes(r, "held")
    BY <1>4, <2>1 DEF Reserve
  <2>4. /\ ledger' \in [Months -> Ledgers] /\ event' \in [Requests -> Events]
        /\ LedgerAdds' /\ WithinBudget'
        /\ \A n \in Months : ledger'[n].approved = ledger[n].approved
    BY <1>1, <1>4, <2>1, <2>2, <2>3, RoomKeeps
  <2>5. event'[r] = [state |-> "reserved", month |-> m, estimate |-> estimate,
                     started |-> FALSE, old |-> FALSE, actual |-> 0]
    BY <1>2, <2>3 DEF NoEvent
  <2>6. \A s \in Requests \ {r} : event'[s] = event[s]
    BY <1>2, <2>3
  <2>7. /\ caller' \in [Requests -> Callers] /\ caller'[r].at = "held" /\ caller'[r].seen = 0
        /\ \A s \in Requests \ {r} : caller'[s] = caller[s]
    BY <1>1, <2>3, Gone
  <2>8. EventInv(r)'
    BY <2>2, <2>5 DEF EventInv
  <2>9. CallerInv(r)' /\ Work(r)'
    BY <1>1, <2>5, <2>7 DEF CallerInv, Work
  <2>10. \A n \in Months : ledger[n].approved <= ledger'[n].approved
    BY <1>3, <2>4
  <2> QED BY <1>1, <2>4, <2>6, <2>7, <2>8, <2>9, <2>10, EventKeeps
<1>5. CASE ~StillRoom(caller[r])
  <2>1. Goes(r, "done") /\ UNCHANGED <<event, ledger>>
    BY <1>5 DEF Reserve
  <2>2. CallerInv(r)' /\ Work(r)'
    BY <1>1, <2>1, Gone DEF CallerInv, Work
  <2> QED BY <1>1, <1>2, <2>1, <2>2, Gone, MoveKeeps
<1> QED BY <1>4, <1>5

\* A reservation that is still there is marked as started, or the request turns
\* back.
LEMMA StartKeeps ==
  ASSUME AiInv, NEW r \in Requests, Start(r)
  PROVE  AiInv'
<1>1. UsageTypeOK /\ CallerInv(r) /\ EventInv(r) /\ Work(r) /\ caller[r].at = "held"
      /\ UNCHANGED <<month, ledger, cost, alarmVars>>
  BY WorkOfAll DEF AiInv, RequestsInv, Start
<1>2. event \in [Requests -> Events] /\ ledger \in [Months -> Ledgers] /\ event[r] \in Events
      /\ cost \in [Requests -> {0} \cup Costs]
  BY <1>1 DEF UsageTypeOK
<1>3. \A m \in Months : ledger[m].approved \in Nat
  BY <1>2, UsageAssumption DEF Ledgers
<1>4. ASSUME MayStart(r), event' = [event EXCEPT ![r].started = TRUE],
             NEW at \in {"started", "settle"}, Goes(r, at)
      PROVE  AiInv'
  <2>1. event'[r] = [event[r] EXCEPT !.started = TRUE]
        /\ \A s \in Requests \ {r} : event'[s] = event[s]
    BY <1>2, <1>4
  <2>2. /\ event'[r] \in Events
        /\ event'[r].state = "reserved" /\ event[r].state = "reserved" /\ event'[r].started
        /\ event'[r].month = event[r].month /\ event'[r].estimate = event[r].estimate
        /\ event'[r].actual = event[r].actual
    BY <1>2, <1>4, <2>1 DEF Events, MayStart
  <2>3. event' \in [Requests -> Events]
    BY <1>2, <1>4, <2>1, <2>2
  <2>4. /\ caller' \in [Requests -> Callers] /\ caller'[r].at = at
        /\ caller'[r].seen \in {0, caller[r].seen}
        /\ \A s \in Requests \ {r} : caller'[s] = caller[s]
    BY <1>1, <1>4, Gone
  <2>5. LedgerAdds' /\ WithinBudget'
    <3>1. \A s \in Requests :
            /\ event'[s].month = event[s].month /\ event'[s].estimate = event[s].estimate
            /\ event'[s].actual = event[s].actual
            /\ event'[s].state = "reserved" <=> event[s].state = "reserved"
      BY <2>1, <2>2
    <3> QED BY <1>1, <1>3, <3>1, LedgerKept DEF AiInv
  <2>6. EventInv(r)' /\ CallerInv(r)' /\ Work(r)'
    BY <1>1, <2>2, <2>4 DEF EventInv, CallerInv, Work
  <2> QED BY <1>1, <1>2, <1>3, <2>1, <2>3, <2>4, <2>5, <2>6, EventKeeps
<1>5. ASSUME Goes(r, "settle"), UNCHANGED event PROVE AiInv'
  <2>1. CallerInv(r)' /\ Work(r)'
    BY <1>1, <1>5, Gone DEF CallerInv, Work
  <2> QED BY <1>1, <1>2, <1>5, <2>1, Gone, MoveKeeps
<1> QED BY <1>4, <1>5 DEF Start

\* A reservation runs out.
LEMMA RunsOutKeeps ==
  ASSUME AiInv, NEW r \in Requests, RunsOut(r)
  PROVE  AiInv'
<1>1. UsageTypeOK /\ CallerInv(r) /\ EventInv(r) /\ Work(r) /\ event[r].state = "reserved"
      /\ UNCHANGED <<month, ledger, caller, cost, alarmVars>>
      /\ event' = [event EXCEPT ![r].old = TRUE]
  BY WorkOfAll DEF AiInv, RequestsInv, RunsOut
<1>2. event \in [Requests -> Events] /\ ledger \in [Months -> Ledgers] /\ event[r] \in Events
      /\ caller \in [Requests -> Callers]
  BY <1>1 DEF UsageTypeOK
<1>3. \A m \in Months : ledger[m].approved \in Nat
  BY <1>2, UsageAssumption DEF Ledgers
<1>4. event'[r] = [event[r] EXCEPT !.old = TRUE]
      /\ \A s \in Requests \ {r} : event'[s] = event[s]
  BY <1>1, <1>2
<1>5. /\ event'[r] \in Events /\ event'[r].state = event[r].state
      /\ event'[r].started = event[r].started /\ event'[r].month = event[r].month
      /\ event'[r].estimate = event[r].estimate /\ event'[r].actual = event[r].actual
  BY <1>2, <1>4 DEF Events
<1>6. event' \in [Requests -> Events]
  BY <1>1, <1>2, <1>5
<1>7. LedgerAdds' /\ WithinBudget'
  <2>1. \A s \in Requests :
          /\ event'[s].month = event[s].month /\ event'[s].estimate = event[s].estimate
          /\ event'[s].actual = event[s].actual
          /\ event'[s].state = "reserved" <=> event[s].state = "reserved"
    BY <1>4, <1>5
  <2> QED BY <1>1, <1>3, <2>1, LedgerKept DEF AiInv
<1>8. CallerInv(r)'
  BY <1>1, <1>3, <1>5, CallerKept
<1>9. EventInv(r)' /\ Work(r)'
  BY <1>1, <1>5 DEF EventInv, Work
<1>10. /\ ledger' \in [Months -> Ledgers] /\ caller' \in [Requests -> Callers]
       /\ UNCHANGED <<month, cost, alarmVars>>
       /\ \A s \in Requests \ {r} : caller'[s] = caller[s] /\ event'[s] = event[s]
       /\ \A m \in Months : ledger[m].approved <= ledger'[m].approved
  BY <1>1, <1>2, <1>3, <1>4
<1> QED BY <1>6, <1>7, <1>8, <1>9, <1>10, EventKeeps

\* What a step keeps that settles one reservation and moves its request.
LEMMA SettleKeeps ==
  ASSUME AiInv, NEW r \in Requests, UNCHANGED <<month, cost>>,
         NEW state \in {"completed", "failed"}, NEW charge \in Charges,
         Settles(StillReserved(r), state, charge),
         event[r].state = "reserved" =>
           charge[r] \in IF event[r].started THEN {event[r].estimate, cost[r]} \ {0} ELSE {0},
         NEW at \in {"settle", "done"}, Goes(r, at),
         caller[r].at \in {"answered", "settle"},
         alerted' \in SUBSET Months, told' \in [Months -> Nat], AlarmInv'
  PROVE  AiInv'
<1>1. UsageTypeOK /\ CallerInv(r)
  BY DEF AiInv, RequestsInv
<1>2. /\ ledger' \in [Months -> Ledgers] /\ event' \in [Requests -> Events]
      /\ LedgerAdds' /\ WithinBudget' /\ WorkIsCharged'
      /\ \A s \in Requests : EventInv(s)'
      /\ \A s \in Requests : CallerInv(s) /\ caller'[s] = caller[s] => CallerInv(s)'
      /\ event[r].state # "none" => event'[r].state # "none"
  BY OneSettles DEF AiInv
<1>3. /\ caller' \in [Requests -> Callers] /\ caller'[r].at = at
      /\ caller'[r].seen \in {0, caller[r].seen}
      /\ \A s \in Requests \ {r} : caller'[s] = caller[s]
  BY <1>1, Gone
<1>4. UsageTypeOK'
  BY <1>1, <1>2, <1>3 DEF UsageTypeOK
<1>5. CallerInv(r)'
  BY <1>1, <1>2, <1>3 DEF CallerInv
<1>6. RequestsInv'
  BY <1>2, <1>3, <1>5 DEF AiInv, RequestsInv
<1> QED BY <1>2, <1>4, <1>6 DEF AiInv

\* What was counted is what the call cost.
LEMMA CountedRight ==
  ASSUME AiInv, NEW r \in Requests
  PROVE  /\ caller[r].seen \in {0} \cup Costs /\ caller[r].seen \in Nat
         /\ caller[r].seen > 0 => caller[r].seen = cost[r] /\ event[r].started
         /\ event[r].estimate \in {0} \cup Estimates
         /\ event[r].state # "none" => event[r].estimate # 0
         /\ event[r].state # "none" => event[r].month \in Months
<1>1. CallerInv(r) /\ EventInv(r) /\ Work(r)
  BY WorkOfAll DEF AiInv, RequestsInv
<1>2. caller[r] \in Callers /\ event[r] \in Events
  BY DEF AiInv, UsageTypeOK
<1>3. caller[r].seen \in {0} \cup Costs /\ event[r].estimate \in {0} \cup Estimates
  BY <1>2 DEF Callers, Events
<1>4. 0 \notin Estimates
  BY UsageAssumption
<1>5. {0} \cup Costs \subseteq Nat
  BY UsageAssumption
<1>6. caller[r].seen \in Nat
  BY <1>3, <1>5
<1> QED BY <1>1, <1>3, <1>4, <1>6 DEF CallerInv, EventInv, Work

\* A request completes its usage; the first above the threshold is told.
LEMMA CompleteKeeps ==
  ASSUME AiInv, NEW r \in Requests, Complete(r)
  PROVE  AiInv'
<1>1. /\ caller[r].at = "answered" /\ UNCHANGED <<month, cost>>
      /\ Goes(r, "done") \/ Goes(r, "settle")
      /\ Settles(StillReserved(r), "completed", [s \in Requests |-> Observed(s)])
  BY DEF Complete
<1>2. PICK charge : charge = [s \in Requests |-> Observed(s)]
  OBVIOUS
<1>3. \A s \in Requests : Observed(s) \in {0} \cup Estimates \cup Costs
  BY CountedRight DEF Observed
<1>4. charge \in Charges
  BY <1>2, <1>3 DEF Charges
<1>5. event[r].state # "none" /\ event[r].started
  BY <1>1 DEF AiInv, RequestsInv, CallerInv
<1>6. charge[r] \in {event[r].estimate, cost[r]} \ {0}
  <2>1. caller[r].seen \in Nat
    BY CountedRight
  <2>2. charge[r] = IF caller[r].seen > 0 THEN caller[r].seen ELSE event[r].estimate
    BY <1>2 DEF Observed
  <2> QED BY <1>5, <2>1, <2>2, CountedRight
<1>7. alerted' \in SUBSET Months /\ told' \in [Months -> Nat] /\ AlarmInv'
  <2>1. alerted \in SUBSET Months /\ told \in [Months -> Nat] /\ AlarmInv
    BY DEF AiInv, UsageTypeOK
  <2>2. PICK m \in Months : m = event[r].month
    BY <1>5, CountedRight
  <2>3. CASE FirstAbove(m)
    <3>1. alerted' = alerted \cup {m} /\ told' = [told EXCEPT ![m] = @ + 1] /\ m \notin alerted
      BY <2>2, <2>3 DEF Complete, FirstAbove
    <3>2. told[m] = 0
      BY <2>1, <3>1 DEF AlarmInv
    <3>3. told' \in [Months -> Nat] /\ told'[m] = 1 /\ \A n \in Months \ {m} : told'[n] = told[n]
      BY <2>1, <3>1, <3>2
    <3> QED BY <2>1, <3>1, <3>3 DEF AlarmInv
  <2>4. CASE ~FirstAbove(m)
    BY <2>1, <2>2, <2>4 DEF Complete, alarmVars, AlarmInv
  <2> QED BY <2>3, <2>4
<1>8. Settles(StillReserved(r), "completed", charge)
  BY <1>1, <1>2
<1>9. PICK at \in {"settle", "done"} : Goes(r, at)
  BY <1>1
<1> QED BY <1>1, <1>4, <1>5, <1>6, <1>7, <1>8, <1>9, SettleKeeps

\* A request fails its usage.
LEMMA FailKeeps ==
  ASSUME AiInv, NEW r \in Requests, Fail(r)
  PROVE  AiInv'
<1>1. PICK charge :
        charge = [s \in Requests |-> IF caller[s].seen > 0 THEN caller[s].seen ELSE Presumed(s)]
  OBVIOUS
<1>2. /\ caller[r].at = "settle" /\ UNCHANGED <<month, cost, alarmVars>> /\ Goes(r, "done")
      /\ Settles(StillReserved(r), "failed", charge)
  BY <1>1 DEF Fail
<1>3. \A s \in Requests : Presumed(s) \in {0} \cup Estimates
  BY PresumedRight DEF AiInv
<1>4. charge \in Charges
  BY <1>1, <1>3, CountedRight DEF Charges
<1>5. event[r].state = "reserved" =>
        charge[r] \in IF event[r].started THEN {event[r].estimate, cost[r]} \ {0} ELSE {0}
  <2>1. caller[r].seen \in Nat
    BY CountedRight
  <2>2. charge[r] = IF caller[r].seen > 0 THEN caller[r].seen ELSE Presumed(r)
    BY <1>1
  <2>3. event[r].state = "reserved" =>
          Presumed(r) \in IF event[r].started THEN {event[r].estimate, cost[r]} \ {0} ELSE {0}
    BY PresumedRight DEF AiInv
  <2> QED BY <2>1, <2>2, <2>3, CountedRight
<1>6. alerted' \in SUBSET Months /\ told' \in [Months -> Nat] /\ AlarmInv'
  BY <1>2 DEF AiInv, UsageTypeOK, AlarmInv, alarmVars
<1> QED BY <1>2, <1>4, <1>5, <1>6, SettleKeeps

\* The page settles reservations that ran out.
LEMMA LookKeeps ==
  ASSUME AiInv, Look
  PROVE  AiInv'
<1>1. Reap /\ UNCHANGED <<month, caller, cost, alarmVars>>
  BY DEF Look
<1>2. /\ ledger' \in [Months -> Ledgers] /\ event' \in [Requests -> Events]
      /\ LedgerAdds' /\ WithinBudget' /\ WorkIsCharged'
      /\ \A s \in Requests : EventInv(s)'
      /\ \A s \in Requests : CallerInv(s) /\ caller'[s] = caller[s] => CallerInv(s)'
  BY <1>1, ReapSettles DEF AiInv
<1>3. UsageTypeOK' /\ AlarmInv'
  BY <1>1, <1>2 DEF AiInv, UsageTypeOK, AlarmInv, alarmVars
<1>4. RequestsInv'
  BY <1>1, <1>2 DEF AiInv, RequestsInv
<1> QED BY <1>2, <1>3, <1>4 DEF AiInv

\* What a step keeps that only raises a budget, or the month.
LEMMA CalendarKeeps ==
  ASSUME AiInv, UNCHANGED <<event, caller, cost, alarmVars>>, month' \in Months,
         ledger' \in [Months -> Ledgers],
         \A m \in Months :
           /\ ledger'[m].spent = ledger[m].spent /\ ledger'[m].reserved = ledger[m].reserved
           /\ ledger[m].approved <= ledger'[m].approved
  PROVE  AiInv'
<1>1. \A m \in Months : ledger'[m].approved \in Nat
  BY UsageAssumption DEF Ledgers
<1>2. UsageTypeOK' /\ AlarmInv'
  BY DEF AiInv, UsageTypeOK, AlarmInv, alarmVars
<1>3. LedgerAdds' /\ WithinBudget'
  BY <1>1, LedgerKept DEF AiInv
<1>4. ASSUME NEW s \in Requests PROVE EventInv(s)' /\ CallerInv(s)'
  <2>1. EventInv(s) /\ CallerInv(s) /\ UsageTypeOK
    BY DEF AiInv, RequestsInv
  <2>2. CallerInv(s)'
    BY <1>1, <2>1, CallerKept
  <2>3. EventInv(s)'
    BY <2>1 DEF EventInv
  <2> QED BY <2>2, <2>3
<1>5. WorkIsCharged'
  BY DEF AiInv, WorkIsCharged
<1> QED BY <1>2, <1>3, <1>4, <1>5 DEF AiInv, RequestsInv

\* A budget is approved, above the one of the month.
LEMMA ApproveKeeps ==
  ASSUME AiInv, NEW budget \in Budgets, Approve(budget)
  PROVE  AiInv'
<1>1. /\ budget > ledger[month].approved /\ ledger' = [ledger EXCEPT ![month].approved = budget]
      /\ UNCHANGED <<month, event, caller, cost, alarmVars>>
  BY DEF Approve
<1>2. ledger \in [Months -> Ledgers] /\ month \in Months /\ ledger[month] \in Ledgers
  BY DEF AiInv, UsageTypeOK
<1>3. ledger'[month] = [ledger[month] EXCEPT !.approved = budget]
      /\ \A m \in Months \ {month} : ledger'[m] = ledger[m]
  BY <1>1, <1>2
<1>4. /\ ledger'[month] \in Ledgers /\ ledger'[month].approved = budget
      /\ ledger'[month].spent = ledger[month].spent
      /\ ledger'[month].reserved = ledger[month].reserved
  BY <1>2, <1>3 DEF Ledgers
<1>5. ledger' \in [Months -> Ledgers]
  BY <1>1, <1>2, <1>4
<1>6. \A m \in Months : ledger[m].approved \in Nat
  BY <1>2, UsageAssumption DEF Ledgers
<1>7. budget \in Nat
  BY UsageAssumption
<1>8. \A m \in Months :
        /\ ledger'[m].spent = ledger[m].spent /\ ledger'[m].reserved = ledger[m].reserved
        /\ ledger[m].approved <= ledger'[m].approved
  BY <1>1, <1>2, <1>3, <1>4, <1>6, <1>7
<1> QED BY <1>1, <1>2, <1>5, <1>8, CalendarKeeps

\* A month passes.
LEMMA MonthKeeps ==
  ASSUME AiInv, MonthPasses
  PROVE  AiInv'
<1>1. month' \in Months
  BY UsageAssumption DEF AiInv, UsageTypeOK, MonthPasses, Months
<1>2. ledger \in [Months -> Ledgers]
  BY DEF AiInv, UsageTypeOK
<1>3. \A m \in Months : ledger[m].approved \in Nat
  BY <1>2, UsageAssumption DEF Ledgers
<1>4. UNCHANGED <<ledger, event, caller, cost, alarmVars>>
  BY DEF MonthPasses
<1>5. \A m \in Months :
        /\ ledger'[m].spent = ledger[m].spent /\ ledger'[m].reserved = ledger[m].reserved
        /\ ledger[m].approved <= ledger'[m].approved
  BY <1>3, <1>4
<1> QED BY <1>1, <1>2, <1>4, <1>5, CalendarKeeps

\* Nothing is reserved, spent or told at first.
LEMMA UsageStarts ==
  ASSUME UsageInit
  PROVE  AiInv
<1>1. UsageTypeOK
  <2>1. month \in Months
    BY UsageAssumption DEF UsageInit, Months
  <2>2. [spent |-> 0, reserved |-> 0, approved |-> Review] \in Ledgers
    BY DEF Ledgers
  <2>3. NoEvent \in Events
    BY DEF NoEvent, Events
  <2>4. Place("new") \in Callers
    BY DEF Place, Callers
  <2> QED BY <2>1, <2>2, <2>3, <2>4 DEF UsageInit, UsageTypeOK
<1>2. \A r \in Requests : event[r] = NoEvent /\ caller[r] = Place("new") /\ cost[r] = 0
  BY DEF UsageInit
<1>3. RequestsInv
  BY <1>2 DEF RequestsInv, EventInv, CallerInv, NoEvent, Place
<1>4. WorkIsCharged /\ AlarmInv
  BY <1>2 DEF UsageInit, WorkIsCharged, AlarmInv, NoEvent
<1>5. ASSUME NEW m \in Months PROVE Of(m) = {} /\ Open(m) = {}
  BY <1>2 DEF Of, Open, NoEvent, Months
<1>6. \A from, to \in Amounts : Cost({}, from, to) = 0
  BY CostNothing
<1>7. Zero \in Amounts /\ Estimated \in Amounts /\ Actual \in Amounts
  BY <1>1, AmountsType
<1>8. \A m \in Months : ledger[m].spent = 0 /\ ledger[m].reserved = 0 /\ ledger[m].approved = Review
  BY DEF UsageInit
<1>9. LedgerAdds
  <2>1. ASSUME NEW m \in Months
        PROVE  Cost(Open(m), Zero, Estimated) = 0 /\ Cost(Of(m) \ Open(m), Zero, Actual) = 0
    <3>1. Of(m) \ Open(m) = {}
      BY <1>5
    <3> QED BY <1>5, <1>6, <1>7, <3>1
  <2> QED BY <1>8, <2>1 DEF LedgerAdds
<1>10. WithinBudget
  <2>1. ASSUME NEW m \in Months PROVE Cost(Of(m), Estimated, Actual) = 0
    BY <1>5, <1>6, <1>7
  <2> QED BY <1>8, <2>1, UsageAssumption DEF WithinBudget, Total
<1> QED BY <1>1, <1>3, <1>4, <1>9, <1>10 DEF AiInv

\* Every step keeps the invariant.
LEMMA UsageSteps ==
  ASSUME AiInv, [UsageNext]_aiVars
  PROVE  AiInv'
<1>1. ASSUME NEW r \in Requests,
             \/ Begin(r) \/ ReadMonth(r) \/ Reserve(r) \/ Start(r) \/ Call(r) \/ Answer(r)
             \/ Complete(r) \/ Fail(r) \/ RunsOut(r)
      PROVE  AiInv'
  BY <1>1, BeginKeeps, ReadMonthKeeps, ReserveKeeps, StartKeeps, CallKeeps, AnswerKeeps,
     CompleteKeeps, FailKeeps, RunsOutKeeps
<1>2. CASE Look \/ MonthPasses \/ \E budget \in Budgets : Approve(budget)
  BY <1>2, LookKeeps, MonthKeeps, ApproveKeeps
<1>3. CASE UNCHANGED aiVars
  <2>1. UNCHANGED <<event, caller, cost, alarmVars>> /\ ledger' = ledger /\ month' = month
    BY <1>3 DEF aiVars, alarmVars
  <2>2. month \in Months /\ ledger \in [Months -> Ledgers]
    BY DEF AiInv, UsageTypeOK
  <2>3. \A m \in Months : ledger[m].approved \in Nat
    BY <2>2, UsageAssumption DEF Ledgers
  <2>4. \A m \in Months :
          /\ ledger'[m].spent = ledger[m].spent /\ ledger'[m].reserved = ledger[m].reserved
          /\ ledger[m].approved <= ledger'[m].approved
    BY <2>1, <2>3
  <2> QED BY <2>1, <2>2, <2>4, CalendarKeeps
<1> QED BY <1>1, <1>2, <1>3 DEF UsageNext

\* The ledger adds up, every call is charged to it, the budget holds but for what
\* calls cost beyond their estimates, and one request raises a month's alarm:
\* with any number of requests and months, whatever their estimates and costs
\* (reserve, complete and fail, the triggers, reapExpiredReservations).
THEOREM UsageCharges == UsageSpec => []UsageIsCharged
<1>1. UsageInit => AiInv
  BY UsageStarts
<1>2. AiInv /\ [UsageNext]_aiVars => AiInv'
  BY UsageSteps
<1>3. AiInv => UsageIsCharged
  <2> SUFFICES ASSUME AiInv PROVE UsageIsCharged
    OBVIOUS
  <2>1. AlarmedOnce
    BY DEF AiInv, AlarmInv, AlarmedOnce
  <2> QED BY <2>1 DEF AiInv, UsageIsCharged
<1> QED BY <1>1, <1>2, <1>3, PTL DEF UsageSpec
=============================================================================
