------------------------- MODULE CredentialRecovery -------------------------
(***************************************************************************)
(* Credential recovery of one account.                                     *)
(*                                                                         *)
(* A request becomes a job, a drain turns the job into a token and a       *)
(* delivery in one D1 batch, a drain sends the link, and whoever holds the *)
(* link changes the credentials with it.  Drains run in every request and  *)
(* in the scheduled maintenance, side by side; administrators replace      *)
(* credentials and deactivate the account meanwhile; the provider reports  *)
(* what it accepted whenever it likes.  The account is one whose ownership *)
(* is confirmed (requests of any other are suppressed like those of an     *)
(* inactive one); no caller issues setup links.                            *)
(*                                                                         *)
(*   workers/lib/credential-recovery-request-jobs.ts    jobs               *)
(*   workers/lib/credential-recovery-d1.ts              issue, consume     *)
(*   workers/lib/credential-recovery-delivery-outbox.ts deliveries         *)
(*   workers/lib/recovery-request-runtime.ts            the drains         *)
(*   workers/routes/ses-events.ts                       provider reports   *)
(*   workers/lib/users.ts, account-lifecycle-runtime.ts the account        *)
(***************************************************************************)
EXTENDS Naturals, FiniteSets

CONSTANTS
  Jobs,        \* recovery requests
  Drains,      \* concurrent drains
  Submitters,  \* submissions of the recovery form
  MaxTokens,   \* bound on tokens
  IssueLimit,  \* tokens per user and window
  MaxLeases,   \* bound on leases given out
  MaxTries,    \* maxAttempts of a job
  MaxVersion   \* bound on what administrators do to the account

ASSUME RecoveryAssumption ==
  /\ MaxTokens \in Nat /\ IssueLimit \in Nat /\ MaxLeases \in Nat
  /\ MaxTries \in Nat \ {0} /\ MaxVersion \in Nat
  /\ "none" \notin Jobs

Tokens == 1..MaxTokens
Leases == 1..MaxLeases

VARIABLES
  enabled,   \* the credential_recovery_control row
  user,      \* is_active, session_version
  jobs,      \* credential_recovery_request_jobs
  tokens,    \* credential_recovery_tokens, by order of issue
  outbox,    \* credential_recovery_delivery_outbox, by token
  attempts,  \* credential_recovery_delivery_attempts, by lease token
  leases,    \* lease tokens given out
  drain,     \* what each drain is at
  form,      \* what each submission has read
  accepted,  \* attempts the provider accepted
  changes    \* by token: how often it changed the credentials

recoveryVars ==
  <<enabled, user, jobs, tokens, outbox, attempts, leases, drain, form, accepted, changes>>

NoToken == [state |-> "none", expired |-> FALSE, recent |-> FALSE, by |-> "none"]
NoDelivery == [state |-> "none", lease |-> 0, accepted |-> 0]
NoAttempt == [state |-> "none", token |-> 0]
Free == [pc |-> "free", job |-> {}, token |-> 0, lease |-> 0, verdict |-> "none"]

JobDone == {"completed", "suppressed", "expired", "parked"}
Verdicts == {"cancelled", "expired", "parked", "pending"}

JobRows == [state : JobDone \cup {"none", "pending", "leased"}, lease : 0..MaxLeases,
            old : BOOLEAN, tries : 0..MaxTries]
TokenRows == [state : {"none", "live", "consumed"}, expired : BOOLEAN, recent : BOOLEAN,
              by : Jobs \cup {"none"}]
DeliveryRows == [state : Verdicts \cup {"none", "leased", "dispatching", "accepted"},
                 lease : 0..MaxLeases, accepted : 0..MaxLeases]
AttemptRows == [state : {"none", "dispatching", "accepted", "failed"}, token : 0..MaxTokens]
DrainStates ==
  [pc : {"free", "request", "issue", "retry", "preflight", "fence", "sending", "accepted",
         "failed", "settle"},
   job : SUBSET Jobs, token : 0..MaxTokens, lease : 0..MaxLeases,
   verdict : Verdicts \cup {"none"}]

TypeOK ==
  /\ enabled \in BOOLEAN /\ user \in [active : BOOLEAN, version : Nat]
  /\ jobs \in [Jobs -> JobRows] /\ tokens \in [Tokens -> TokenRows]
  /\ outbox \in [Tokens -> DeliveryRows] /\ attempts \in [Leases -> AttemptRows]
  /\ leases \in 0..MaxLeases /\ drain \in [Drains -> DrainStates]
  /\ form \in [Submitters -> 0..MaxTokens]
  /\ accepted \subseteq Leases /\ changes \in [Tokens -> Nat]

Init ==
  /\ enabled = FALSE
  /\ user = [active |-> TRUE, version |-> 1]
  /\ jobs = [j \in Jobs |->
       [state |-> "none", lease |-> 0, old |-> FALSE, tries |-> 0]]
  /\ tokens = [t \in Tokens |-> NoToken]
  /\ outbox = [t \in Tokens |-> NoDelivery]
  /\ attempts = [l \in Leases |-> NoAttempt]
  /\ leases = 0 /\ drain = [w \in Drains |-> Free]
  /\ form = [s \in Submitters |-> 0]
  /\ accepted = {} /\ changes = [t \in Tokens |-> 0]

Fresh == leases + 1
Issued == {t \in Tokens : tokens[t].state # "none"}
Recent == {t \in Issued : tokens[t].recent}
Live(t) == t \in Issued /\ tokens[t].state = "live" /\ ~tokens[t].expired
Turn(w, to) == drain' = [drain EXCEPT ![w] = to]
At(w, pc) == drain[w].pc = pc

-----------------------------------------------------------------------------
(* Requests                                                                *)
(*                                                                         *)
(* A lease may run out at any moment: whoever leases rows may take a       *)
(* leased one, under a lease token of its own, and a holder that looks at  *)
(* the time may find itself too late and stop (DrainEnds).                 *)

\* enqueueCredentialRecoveryRequest; a request over its limits leaves nothing.
Enqueue(j) ==
  /\ enabled /\ jobs[j].state = "none"
  /\ jobs' = [jobs EXCEPT ![j].state = "pending"]
  /\ UNCHANGED <<enabled, user, tokens, outbox, attempts, leases, drain, form, accepted, changes>>

\* A day has passed.
GrowOld(j) ==
  /\ jobs[j].state \in {"pending", "leased"} /\ ~jobs[j].old
  /\ jobs' = [jobs EXCEPT ![j].old = TRUE]
  /\ UNCHANGED <<enabled, user, tokens, outbox, attempts, leases, drain, form, accepted, changes>>

\* expireCredentialRecoveryRequestJobs
ExpireJob(j) ==
  /\ enabled /\ jobs[j].old
  /\ jobs[j].state \in {"pending", "leased"}
  /\ jobs' = [jobs EXCEPT ![j].state = "expired", ![j].lease = 0]
  /\ UNCHANGED <<enabled, user, tokens, outbox, attempts, leases, drain, form, accepted, changes>>

\* leaseCredentialRecoveryRequestJobs
LeaseJob(w, j) ==
  /\ enabled /\ At(w, "free") /\ ~jobs[j].old /\ leases < MaxLeases
  /\ jobs[j].state \in {"pending", "leased"}
  /\ leases' = Fresh
  /\ jobs' = [jobs EXCEPT ![j].state = "leased", ![j].lease = Fresh]
  /\ Turn(w, [Free EXCEPT !.pc = "request", !.job = {j}, !.lease = Fresh])
  /\ UNCHANGED <<enabled, user, tokens, outbox, attempts, form, accepted, changes>>

HoldsJob(w, j) == jobs[j].state = "leased" /\ jobs[j].lease = drain[w].lease

\* completeCredentialRecoveryRequest
CompleteJob(w, j, state) ==
  jobs' = IF HoldsJob(w, j) THEN [jobs EXCEPT ![j].state = state, ![j].lease = 0] ELSE jobs

\* The drain decrypts the request and looks the account up.
ReadRequest(w, j) ==
  /\ At(w, "request") /\ j \in drain[w].job
  /\ \/ CompleteJob(w, j, "parked") /\ Turn(w, Free)               \* cannot be read
     \/ Turn(w, [drain[w] EXCEPT !.pc = "retry"]) /\ UNCHANGED jobs \* no key, no address
     \/ /\ ~user.active /\ Turn(w, Free)
        /\ CompleteJob(w, j, "suppressed")
     \/ user.active /\ Turn(w, [drain[w] EXCEPT !.pc = "issue"]) /\ UNCHANGED jobs
  /\ UNCHANGED <<enabled, user, tokens, outbox, attempts, leases, form, accepted, changes>>

Exhausted(j) == jobs[j].tries + 1 >= MaxTries

\* retryCredentialRecoveryRequest
RetryRequest(w, j) ==
  /\ At(w, "retry") /\ j \in drain[w].job /\ Turn(w, Free)
  /\ jobs' = IF ~HoldsJob(w, j) THEN jobs
             ELSE [jobs EXCEPT ![j].lease = 0, ![j].tries = @ + 1,
                     ![j].state = IF jobs[j].old THEN "expired"
                                  ELSE IF Exhausted(j) THEN "parked"
                                  ELSE "pending"]
  /\ UNCHANGED <<enabled, user, tokens, outbox, attempts, leases, form, accepted, changes>>

-----------------------------------------------------------------------------
(* Tokens                                                                  *)

\* Every unused token of the account is consumed.
Consumed == [t \in Tokens |->
  IF tokens[t].state = "live" THEN [tokens[t] EXCEPT !.state = "consumed"] ELSE tokens[t]]

\* The deliveries of ts that have not begun are cancelled; one being sent is
\* only marked, and its drain will find the token consumed.
Cancelled(ts) == [t \in Tokens |->
  IF t \in ts /\ outbox[t].state \in {"pending", "leased"}
  THEN [outbox[t] EXCEPT !.state = "cancelled", !.lease = 0] ELSE outbox[t]]

WithinRate == Cardinality(Recent) < IssueLimit

\* Slip: the account was looked at when the request was read.
MayIssueAsRead == WithinRate

MayIssue == user.active /\ WithinRate

\* Slip: older links stay good.
SupersedeNone(id, token) ==
  /\ tokens' = [tokens EXCEPT ![id] = token]
  /\ outbox' = [outbox EXCEPT ![id] = [NoDelivery EXCEPT !.state = "pending"]]

\* The statements of issue that make a token and its delivery.
Supersede(id, token) ==
  /\ tokens' = [Consumed EXCEPT ![id] = token]
  /\ outbox' = [Cancelled(Tokens) EXCEPT ![id] = [NoDelivery EXCEPT !.state = "pending"]]

HoldsForIssue(w, j) == HoldsJob(w, j) /\ ~jobs[j].old

\* issue for a leased request: one batch, every statement of it under the
\* same condition.
Issue(w, j) ==
  LET id == Cardinality(Issued) + 1
  IN /\ At(w, "issue") /\ j \in drain[w].job /\ id \in Tokens
     /\ IF HoldsForIssue(w, j) /\ MayIssue
        THEN /\ Supersede(id, [NoToken EXCEPT !.state = "live", !.recent = TRUE, !.by = j])
             /\ jobs' = [jobs EXCEPT ![j].state = "completed", ![j].lease = 0]
        ELSE /\ UNCHANGED <<tokens, outbox>>
             /\ jobs' = IF ~HoldsJob(w, j) THEN jobs
                        ELSE [jobs EXCEPT ![j].lease = 0,
                                ![j].state = IF ~user.active THEN "suppressed"
                                             ELSE IF jobs[j].old THEN "expired" ELSE "pending"]
     \* the answer of the batch may be lost
     /\ \/ Turn(w, Free)
        \/ Turn(w, [drain[w] EXCEPT !.pc = "retry"])
     /\ UNCHANGED <<enabled, user, attempts, leases, form, accepted, changes>>

\* The batch fails and leaves nothing.
IssueFails(w) ==
  /\ At(w, "issue") /\ Turn(w, [drain[w] EXCEPT !.pc = "retry"])
  /\ UNCHANGED <<enabled, user, jobs, tokens, outbox, attempts, leases, form, accepted, changes>>

\* Fifteen minutes; it makes no difference before the limit is reached.
WindowPasses(t) ==
  /\ t \in Recent /\ Cardinality(Recent) >= IssueLimit
  /\ tokens' = [tokens EXCEPT ![t].recent = FALSE]
  /\ UNCHANGED <<enabled, user, jobs, outbox, attempts, leases, drain, form, accepted, changes>>

\* After a day; issue windows are shorter.
TokenExpires(t) ==
  /\ Live(t) /\ tokens' = [tokens EXCEPT ![t].expired = TRUE, ![t].recent = FALSE]
  /\ UNCHANGED <<enabled, user, jobs, outbox, attempts, leases, drain, form, accepted, changes>>

\* consume first reads the token.
OpenForm(s, t) ==
  /\ enabled /\ form[s] = 0 /\ Live(t) /\ form' = [form EXCEPT ![s] = t]
  /\ UNCHANGED <<enabled, user, jobs, tokens, outbox, attempts, leases, drain, accepted, changes>>

Usable(t) == Live(t) /\ user.active

\* and its batch then consumes it, or not, and everything else depends on
\* the nonce of this submission.
Consume(s) ==
  LET t == form[s]
  IN /\ t # 0 /\ form' = [form EXCEPT ![s] = 0]
     /\ IF Usable(t)
        THEN /\ tokens' = [tokens EXCEPT ![t].state = "consumed"]
             /\ outbox' = Cancelled({t})
             /\ user' = [user EXCEPT !.version = @ + 1]
             /\ changes' = [changes EXCEPT ![t] = @ + 1]
        ELSE UNCHANGED <<tokens, outbox, user, changes>>
     /\ UNCHANGED <<enabled, jobs, attempts, leases, drain, accepted>>

\* replaceUserCredentials, for revokeUserCredentials and setUserPassword
ReplaceCredentials ==
  /\ user.version < MaxVersion /\ Issued # {}
  /\ user' = [user EXCEPT !.version = @ + 1]
  /\ tokens' = Consumed /\ outbox' = Cancelled(Tokens)
  /\ UNCHANGED <<enabled, jobs, attempts, leases, drain, form, accepted, changes>>

Deactivate ==
  /\ user.active /\ user.version < MaxVersion
  /\ user' = [user EXCEPT !.active = FALSE, !.version = @ + 1]
  /\ tokens' = Consumed /\ outbox' = Cancelled(Tokens)
  /\ UNCHANGED <<enabled, jobs, attempts, leases, drain, form, accepted, changes>>

Activate ==
  /\ ~user.active /\ user' = [user EXCEPT !.active = TRUE]
  /\ UNCHANGED <<enabled, jobs, tokens, outbox, attempts, leases, drain, form, accepted, changes>>

\* The operator's switch
SetControl ==
  /\ enabled' = ~enabled
  /\ UNCHANGED <<user, jobs, tokens, outbox, attempts, leases, drain, form, accepted, changes>>

-----------------------------------------------------------------------------
(* Deliveries                                                              *)

\* leaseCredentialRecoveryDeliveries
LeaseDelivery(w, t) ==
  /\ enabled /\ At(w, "free") /\ leases < MaxLeases
  /\ outbox[t].state \in {"pending", "leased"}
  /\ leases' = Fresh
  /\ outbox' = [outbox EXCEPT ![t].state = "leased", ![t].lease = Fresh]
  /\ Turn(w, [Free EXCEPT !.pc = "preflight", !.token = t, !.lease = Fresh])
  /\ UNCHANGED <<enabled, user, jobs, tokens, attempts, form, accepted, changes>>

Holds(w, t, state) == outbox[t].state = state /\ outbox[t].lease = drain[w].lease

\* What the token's row says of a delivery at this moment.
Judged(t) ==
  IF tokens[t].expired THEN "expired"
  ELSE IF tokens[t].state = "consumed" \/ ~user.active THEN "cancelled"
  ELSE "pending"

\* preflightCredentialRecoveryDelivery, then the payload and the message
Preflight(w) ==
  LET t == drain[w].token
  IN /\ At(w, "preflight")
     /\ IF ~Holds(w, t, "leased") THEN Turn(w, Free)
        ELSE IF Judged(t) # "pending"
        THEN Turn(w, [drain[w] EXCEPT !.pc = "settle", !.verdict = Judged(t)])
        ELSE \/ Turn(w, [drain[w] EXCEPT !.pc = "fence"])
             \/ \E v \in {"parked", "pending"} :    \* payload unreadable, or not now
                  Turn(w, [drain[w] EXCEPT !.pc = "settle", !.verdict = v])
     /\ UNCHANGED <<enabled, user, jobs, tokens, outbox, attempts, leases, form, accepted,
                    changes>>

\* Slip: preflight has looked at the token.
FenceOpenAsSeen(w, t) == Holds(w, t, "leased") /\ enabled

FenceOpen(w, t) ==
  /\ Holds(w, t, "leased")
  /\ enabled /\ Live(t) /\ user.active

\* fenceCredentialRecoveryDeliveryDispatch: a last look and the attempt's row
\* in one batch.
Fence(w) ==
  LET t == drain[w].token
  IN /\ At(w, "fence")
     /\ IF FenceOpen(w, t)
        THEN /\ outbox' = [outbox EXCEPT ![t].state = "dispatching"]
             /\ attempts' = [attempts EXCEPT ![drain[w].lease] =
                               [state |-> "dispatching", token |-> t]]
             /\ Turn(w, [drain[w] EXCEPT !.pc = "sending"])
        ELSE /\ UNCHANGED <<outbox, attempts>>
             /\ IF Holds(w, t, "leased") /\ Judged(t) # "pending"
                THEN Turn(w, [drain[w] EXCEPT !.pc = "settle", !.verdict = Judged(t)])
                ELSE Turn(w, Free)
     /\ UNCHANGED <<enabled, user, jobs, tokens, leases, form, accepted, changes>>

\* The provider takes the message or not, and answers so, or otherwise, or
\* not at all.
Dispatch(w) ==
  /\ At(w, "sending")
  /\ \/ /\ accepted' = accepted \cup {drain[w].lease}
        /\ \E pc \in {"accepted", "failed"} : Turn(w, [drain[w] EXCEPT !.pc = pc])
     \/ UNCHANGED accepted /\ Turn(w, [drain[w] EXCEPT !.pc = "failed"])
  /\ UNCHANGED <<enabled, user, jobs, tokens, outbox, attempts, leases, form, changes>>

Resolved(l, state) == [attempts EXCEPT ![l].state = state]

\* markCredentialRecoveryAccepted
MarkAccepted(w) ==
  LET t == drain[w].token
      l == drain[w].lease
  IN /\ At(w, "accepted") /\ Turn(w, Free)
     /\ IF Holds(w, t, "dispatching") /\ attempts[l].state = "dispatching"
        THEN /\ outbox' = [outbox EXCEPT ![t].state = "accepted", ![t].lease = 0, ![t].accepted = l]
             /\ attempts' = Resolved(l, "accepted")
        ELSE UNCHANGED <<outbox, attempts>>
     /\ UNCHANGED <<enabled, user, jobs, tokens, leases, form, accepted, changes>>

\* settleCredentialRecoveryDeliveryFailure reads the rows
JudgeFailure(w) ==
  LET t == drain[w].token
  IN /\ At(w, "failed")
     /\ IF Holds(w, t, "dispatching")
        THEN Turn(w, [drain[w] EXCEPT !.pc = "settle", !.verdict = Judged(t)])
        ELSE Turn(w, Free)
     /\ UNCHANGED <<enabled, user, jobs, tokens, outbox, attempts, leases, form, accepted,
                    changes>>

\* Slip: the delivery's row is found by its id.
SettleById(w) ==
  LET t == drain[w].token
  IN /\ At(w, "settle") /\ Turn(w, Free)
     /\ outbox' = [outbox EXCEPT ![t].state = drain[w].verdict, ![t].lease = 0]
     /\ attempts' = IF attempts[drain[w].lease].state = "dispatching"
                    THEN Resolved(drain[w].lease, "failed") ELSE attempts
     /\ UNCHANGED <<enabled, user, jobs, tokens, leases, form, accepted, changes>>

\* and then writes what it made of them, if the delivery is still the drain's;
\* finishLeasedDelivery does the same before the fence.
Settle(w) ==
  LET t == drain[w].token
      l == drain[w].lease
  IN /\ At(w, "settle") /\ Turn(w, Free)
     /\ outbox' = IF Holds(w, t, "leased") \/ Holds(w, t, "dispatching")
                  THEN [outbox EXCEPT ![t].state = drain[w].verdict, ![t].lease = 0]
                  ELSE outbox
     /\ attempts' = IF attempts[l].state = "dispatching" THEN Resolved(l, "failed") ELSE attempts
     /\ UNCHANGED <<enabled, user, jobs, tokens, leases, form, accepted, changes>>

\* recoverExpiredCredentialRecoveryDispatches picks a dispatch whose lease has
\* run out, judges it and settles it in the drain's stead.
RecoverDispatch(w, t) ==
  /\ enabled /\ At(w, "free") /\ outbox[t].state = "dispatching"
  /\ Turn(w, [Free EXCEPT !.pc = "settle", !.token = t, !.lease = outbox[t].lease,
                          !.verdict = Judged(t)])
  /\ UNCHANGED <<enabled, user, jobs, tokens, outbox, attempts, leases, form, accepted, changes>>

\* recordCredentialRecoveryEvent: the provider reports an attempt, in its own
\* time and as often as it likes.
ProviderEvent(l) ==
  LET t == attempts[l].token
  IN /\ l \in accepted
     /\ outbox' = IF outbox[t].state # "accepted" /\ attempts[l].state \in {"dispatching", "failed"}
                  THEN [outbox EXCEPT ![t].state = "accepted", ![t].lease = 0, ![t].accepted = l]
                  ELSE outbox
     /\ attempts' = IF outbox'[t].state = "accepted" THEN Resolved(l, "accepted") ELSE attempts
     /\ UNCHANGED <<enabled, user, jobs, tokens, leases, drain, form, accepted, changes>>

-----------------------------------------------------------------------------
(* The end of a worker                                                     *)

\* A drain is stopped, or finds its lease run out.
DrainEnds(w) ==
  /\ ~At(w, "free") /\ Turn(w, Free)
  /\ UNCHANGED <<enabled, user, jobs, tokens, outbox, attempts, leases, form, accepted, changes>>

DrainStep(w) ==
  \/ \E j \in Jobs : LeaseJob(w, j) \/ ReadRequest(w, j) \/ Issue(w, j) \/ RetryRequest(w, j)
  \/ \E t \in Tokens : LeaseDelivery(w, t) \/ RecoverDispatch(w, t)
  \/ IssueFails(w) \/ Preflight(w) \/ Fence(w) \/ Dispatch(w) \/ MarkAccepted(w)
  \/ JudgeFailure(w) \/ Settle(w) \/ DrainEnds(w)

Next ==
  \/ \E w \in Drains : DrainStep(w)
  \/ \E j \in Jobs : Enqueue(j) \/ GrowOld(j) \/ ExpireJob(j)
  \/ \E t \in Tokens : WindowPasses(t) \/ TokenExpires(t)
  \/ \E s \in Submitters : Consume(s) \/ \E t \in Tokens : OpenForm(s, t)
  \/ \E l \in Leases : ProviderEvent(l)
  \/ ReplaceCredentials \/ Deactivate \/ Activate \/ SetControl

Spec == Init /\ [][Next]_recoveryVars

-----------------------------------------------------------------------------
(* Properties                                                              *)

\* At most one link of the account works at a time, and none of a deactivated
\* account, whatever was being issued when it was deactivated.
OneLinkWorks ==
  /\ Cardinality({t \in Tokens : tokens[t].state = "live"}) <= 1
  /\ ~user.active => \A t \in Tokens : tokens[t].state # "live"

\* However often a link is submitted, it changes the credentials once.
ChangedOnce == \A t \in Tokens : changes[t] <= 1

\* A request is answered with one link, however many drains worked on it and
\* whatever they were told of it; and an unanswered one is never completed.
AnsweredOnce ==
  \A j \in Jobs :
    Cardinality({t \in Tokens : tokens[t].by = j}) = IF jobs[j].state = "completed" THEN 1 ELSE 0

\* The types, and the three together.
LinksAreSingle == TypeOK /\ OneLinkWorks /\ ChangedOnce /\ AnsweredOnce

\* No link starts on its way once it was used, replaced, revoked or stopped.
SendsWhileGood ==
  \A l \in Leases : attempts[l].state = "none" /\ attempts'[l].state = "dispatching" =>
    enabled /\ Live(attempts'[l].token) /\ user.active
SentWhileGood == [][SendsWhileGood]_recoveryVars

\* A delivery the provider is known to have accepted is over: nothing that is
\* still being settled opens it again, and it names an accepted attempt.
StaysAccepted ==
  \A t \in Tokens : outbox[t].state = "accepted" =>
    outbox'[t].state = "accepted" /\ outbox'[t].accepted \in accepted
AcceptedStays == [][StaysAccepted]_recoveryVars

-----------------------------------------------------------------------------
(* The inductive strengthening of LinksAreSingle                           *)

Answers(j) == {t \in Tokens : tokens[t].by = j}

\* Tokens are issued in order; one works, a used one does not, and only an
\* issued one has a delivery.
TokensInv ==
  /\ \E n \in 0..MaxTokens : Issued = 1..n
  /\ \A t, u \in Tokens : tokens[t].state = "live" /\ tokens[u].state = "live" => t = u
  /\ ~user.active => \A t \in Tokens : tokens[t].state # "live"
  /\ \A t \in Tokens : changes[t] <= 1 /\ (changes[t] = 1 => tokens[t].state = "consumed")
  /\ \A t \in Tokens \ Issued : tokens[t].by = "none" /\ outbox[t].state = "none"

\* A completed request is answered by one token, any other by none; and a
\* request that is still open has a try left.
JobsInv ==
  \A j \in Jobs :
    /\ IF jobs[j].state = "completed" THEN \E t \in Tokens : Answers(j) = {t}
                                      ELSE Answers(j) = {}
    /\ jobs[j].state \in {"none", "pending", "leased"} => jobs[j].tries < MaxTries

\* A lease token that is in use, in a drain or in the outbox, was given out;
\* what was or is being sent has its attempt; and what is called accepted was
\* accepted.
AttemptsInv ==
  /\ \A t \in Tokens :
       /\ outbox[t].state \in {"leased", "dispatching"} => outbox[t].lease \in Leases
       /\ outbox[t].state = "accepted" => outbox[t].accepted \in accepted
  /\ \A w \in Drains :
       /\ drain[w].pc \in {"preflight", "fence", "sending", "accepted", "failed", "settle"} =>
            drain[w].lease \in Leases /\ drain[w].token \in Tokens
       /\ drain[w].pc \in {"sending", "accepted", "failed"} =>
            attempts[drain[w].lease].state # "none"
       /\ drain[w].pc = "accepted" => drain[w].lease \in accepted
  /\ \A l \in Leases : attempts[l].state # "none" => attempts[l].token \in Issued
  /\ \A l \in accepted : attempts[l].state # "none"

RecoveryInv == TypeOK /\ TokensInv /\ JobsInv /\ AttemptsInv

=============================================================================
