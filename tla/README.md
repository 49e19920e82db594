# TLA+ verification of the mail portal

The repository is a mail application on Cloudflare Workers. Every mailbox is a
Durable Object (`MailboxDO`, `src/workers/durableObject/index.ts`) with its own
SQLite store and **one** alarm; blobs live in R2, users and grants in D1, inbound
mail arrives through an e-mail handler and a Queue, outbound mail leaves through
Amazon SES. This directory models the protocol state of that system in TLA+,
checks it with TLC and proves the central results with TLAPS.

## 1. Inventory

| Component | State it keeps | Operations | Hard part |
|---|---|---|---|
| Outbound delivery ledger (`outbound-delivery-service.ts`, `outbound-storage.ts`, `index.ts` 8713-11190) | `outbound_deliveries`, `outbound_delivery_attempts`, `outbound_provider_events` | enqueue, cancel, retry, claim, preflight, begin, finalize, lease recovery, SES events, ledger repair | SES has no idempotency token: a lost answer is ambiguous; leases expire while a request is in flight; events overtake answers |
| Acceptance projection and draft consumption (`index.ts` 10125-10320, 10463-10798) | `outbound_acceptance_recovery` | move snapshot to Sent, consume the exact draft version, defer, park, operator repair | crash between the two steps; the draft is edited while the message is in flight |
| Cancellation recovery (`index.ts` 8313-8713) | delivery row, recovered draft | turn a cancelled snapshot back into a draft, defer, park | awaits R2 between check and commit |
| R2 ownership and deletion outbox (`index.ts` 1911-2083, 12739-13118) | `r2_deletion_outbox`, attempt and key fences, `attachments` | enqueue, adopt, claim, delete, park, repair | a late `BUCKET.delete` may hit a key that was adopted again |
| Mailbox alarm (`index.ts` 13121-) | one alarm time | every lane schedules and re-arms it | lost wake-ups, a lane that throws |
| Inbound ingress, queue, reconciliation (`inbound-email.ts`, `inbound-queue.ts`, `inbound-reconciliation.ts`) | R2 raw objects, queue messages, `emails` | accept, enqueue, store, redeliver, reconcile | at-least-once delivery, crash between blob and row |
| Emergency forwarding (`emergency-forward.ts`) | R2 receipt and active marker (generation, lease, acceptance), queue envelopes | begin, deliver, sweep, commit an ingress forward | every step is a conditional put on two objects; deletes are unconditional; two lanes run the same consumer |
| Inbound derived content cleanup and repair | cleanup intents, repair attempts | enqueue, claim, delete, repair | late deletes against repaired content |
| Draft create/save idempotency (`draft-create-idempotency.ts`, `draft-save-recovery.ts`) | operations, save intents | create, save, replay, recover | retried requests, R2 before commit |
| Attachment upload cleanup | upload rows | upload, adopt, expire | upload racing a save |
| Mail import (`import-email-claims.ts`, `import-promotion-intent.ts`) | claims, promotion intents | claim, promote, release | crash in promotion |
| Bulk send (`bulk-job-admission.ts`) | jobs, active list | admit, throttle, send, cancel | admission quota, cleanup |
| Automation rules (`automation-rules/`) | rules, versions, references, tests, runs | edit, test, activate, reorder, capture, plan, apply, retry | side-by-side edits over an await; a run acts later, on a mailbox that has changed |
| Snooze, follow-up reminders | reminders | schedule, claim, run | at-least-once alarms |
| Semantic index (`semantic-index.ts`, `semantic-index-runtime.ts`, triggers in `migrations.ts`) | projection state, sources, jobs, extractions, an external vector index | backfill, replay, extract, submit, observe, rebuild | text read before an await; mutations that land late; vectors nobody remembers |
| Push outbox (`push/outbox.ts`) | rows with leases | enqueue, claim, deliver, drop | duplicate or lost push |
| Credential recovery (outbox and request jobs) | D1 rows with leases | request, claim, deliver, expire | token reissue against late delivery |
| AI cost control (`ai-cost-control.ts`, `ai-cost-control-d1.ts`) | months, reservations in D1 | reserve, start, settle, presume, alert, approve | reservations that expire under a live request; decisions read before they are written |
| Agent revocation, login throttle | D1 rows | revoke, count | concurrent counters |
| Access and live authorization, change feed, labels, briefs | D1 and SQLite rows | grant, revoke, read | stale authorization |
| Routes, MIME, rendering, web application, migrations | none of their own | | not protocol state |

Interactions: routes call `MailboxDO` methods (one input-gated transaction
each); the alarm drives every lane in a fixed order; SES events come back through
the ingest route into `recordSesProviderEvent`; draft consumption and draft
saving feed the R2 deletion outbox; all lanes share the single alarm.

Per-component correctness: the ledger never misreports and never silently
duplicates; a draft is consumed only when its exact version was accepted, and
its text always survives somewhere; an owned R2 key is never deleted; every open
item is eventually settled or parked for an operator; a scheduled instant is
never forgotten; inbound mail is stored exactly once.

## 2. Plan

| # | Module | What | State |
|---|---|---|---|
| 1 | `OutboundDelivery` | the ledger of outbound deliveries | checked, proved |
| 2 | `R2Ownership` | object ownership, fences, deletion outbox, cleanup queue | checked, proved |
| 3 | `OutboundProjection` | acceptance recovery, cancellation recovery, draft consumption | checked, proved |
| 4 | `EmergencyForward` | receipt, marker and envelopes of an emergency forward | checked, proved |
| 5 | `InboundPipeline` | reception, inbound queue, dead letters, archive reconciliation, around 4 | checked, proved |
| 6 | `TruthfulDelivery` | what the outbox promises about a message; `OutboundTruth` reads 1 as it | refinement checked and proved |
| 7 | `DraftSaves` | create and save idempotency and save recovery around R2 | checked, proved |
| 8 | `ImportClaims` | claims, promotion intents and their reconciliation | checked, proved |
| 9 | `BulkSend` | reservations, admission, preparation, recipients, cleanup | checked, proved |
| 10 | `PushOutbox`, `CredentialRecovery` | leased outboxes of notifications and links | checked, proved |
| 11 | `SemanticIndex` | projection of mail, extraction of attachments, jobs, the delayed vector index | checked, proved |
| 12 | `AiUsage` | reservations against a monthly budget | checked, proved |
| 13 | `AutomationRules` | rules, their edits and tests, runs on arriving mail | checked, proved |
| 14 | Mailbox alarm with all its lanes, agent revocation, login throttle, snooze and reminders, cleanup of derived content | claims and quotas | planned |

Components that share no state are explored in one run, one of them at a time:
in `MCLedgersLive`, `MCMailSafe`, `MCServicesSafe` and `MCStorageSafe` a variable
`which` chosen by `Init` says which one (and at which size) a behaviour explores,
and the others stutter. `MCLedgersLive`, which checks liveness only, instantiates
its three components; the other runs extend theirs, so that the
run evaluates their assumptions and checks the properties the theorems state
(`DraftSaves`, `ImportClaims` and `BulkSend`; `CredentialRecovery`, `PushOutbox` and
`AiUsage`; `R2Ownership`, `AutomationRules` and `SemanticIndex`).

Theorems live in a module of their own (`<Module>Proofs.tla`, for
`DraftSaves` and `BulkSend` `MailProofs.tla`, for `CredentialRecovery`, `PushOutbox`
and `AiUsage` `ServicesProofs.tla`, for `R2Ownership`, `AutomationRules` and
`SemanticIndex` `StorageProofs.tla`) that extends the model; instances for TLC live in `MC<Module>.tla`. Operators introduced by
`\* Slip:` are mistakes a change of the code could make; nothing uses them, they
exist so that each property can be shown to notice one.

## 3. The modules

### 3.1 OutboundDelivery

*State.* `dlv` is a row of `outbound_deliveries` (status, attempt count, phase,
lease, active attempt, back-off, retry origin, duplicate mark), `att` its
`outbound_delivery_attempts`, `job` what an alarm pass holds in memory across its
awaits. `ses` (what the provider really did with each request) and `acked` (the
user's last duplicate-risk acknowledgement) are ghosts: no guard reads them.

*Actions.* One per command of `outbound-delivery-service.ts` and per transaction
in `durableObject/index.ts`: enqueue, cancel, the two kinds of retry, the claim
for preflight, deferral and failure of preflight, `beginProviderAttempt`, the
three finalizations, lease recovery, `repairFromLedger`, and the SES event
handler with its bounce scopes. The provider's answer, its loss, its lateness and
the eviction of a pass are separate actions, so that events overtake answers and
answers arrive after the lease was recovered.

*Abstraction.* Time is two flags (`due`, `expired`) that may be raised at any
moment, which covers every schedule. `AttemptBound` and `LeaseBound` cap the
counters. `repairFromLedger` leaves out its guard on the state of the recovery
row and may therefore run more often than in the code.

### 3.2 R2Ownership

*State.* `obj` (what the bucket holds), `own` (what rows of the mailbox own),
`row` (`r2_deletion_outbox`), the attempt and key fences, `pass` (a deletion
alarm with its lease, its batch and the deletions asked), `inflight` (requests
R2 may still carry out), `wr` (each writing request), `job` (the attachment
cleanup queue).

*Actions.* Promotion intents, puts, adoption at the enqueue transaction, its
lost answer and `reconcileAmbiguousOutboundEnqueue`, rollback by delete or by
queue, inbound projection and the cleanup of attempts believed dead, retirement,
the claim, delete and record phases of `#processR2DeletionOutbox`, parking and
operator repair. A delete that was answered with an error may take effect at any
later time.

*Assumptions.* Attempt and message ids are fresh UUIDs and no attempt lives
thirty days (the fence's retention); an RPC reported as failed is not executed
later; a put is atomic. A lease token stands for `claim_generation`, the
recovery reference for `expectedGeneration`. Tries saturate at `MaxTries`.

### 3.3 OutboundProjection

*State.* One draft and a delivery per version of it: status, folder of the
snapshot and where Trash remembers it came from, the acceptance recovery row, the
cancellation recovery (`copying`, tries, parked), the recovered draft. Two history
variables, which no guard reads, keep what the user did of which the properties
must know: `putBack` (a snapshot put back into the Outbox after its recovery had
recorded that it was filed) and `kept` (this version of the draft was in another
folder when its consumption came, which then left it alone).

*Actions.* The inline and the alarm projection of an acceptance
(`moveAcceptedOutboundToSent`, `consumeDraftVersion`), deferral, parking and
release; the recovery of a cancelled snapshot by request and by alarm, split at
the await on R2; edits and discards of the draft, its way out of Drafts and back;
the generic mail lifecycle of the snapshots. `moveEmail` refuses the internal and
the snoozed folder only: the user may put a snapshot into any folder, the Outbox
included, may restore one to the Outbox once its delivery has ended, and may move
one to Drafts and discard it there, after which its recovery parks
(`snapshot_missing`) and a claim fails. An accepted message in the Outbox is
therefore not a fault of the recovery: the properties on filing (`RowInv`,
`CompletedIsDone`, `ConsumedIsSent`, `AcceptedIsFiled`) excuse what the user put
back (`putBack`), count a discarded snapshot as filed, and hold the draft consumed
unless it was elsewhere then (`kept`); they excuse nothing else.

*Abstraction.* `queued` also stands for `retrying`, `resting` for `failed` and
`unknown`, `sent` for `bounced`. Triage of a conversation or a batch takes the same steps
(and refuses the Outbox and Drafts, `shared/batch-triage.ts`); only tests call the
mailbox's `deleteEmail`. Left out: snoozing, the editing and sending
of a snapshot that was moved to Drafts, parking for mismatching evidence, the
operator's compare-and-swap, the legacy lane for rows without a recovery row. Restriction: a copy that puts
its objects after the recovered draft has been discarded and cleaned up may leave
an unowned object behind; objects belong to 3.2 and are not part of this module.

### 3.4 EmergencyForward

*State.* `receipt` and `marker` are the two R2 objects (the marker with its
generation, attempt, lease and acceptance), `envelopes` the generations with a
copy in a queue, `raw` the archived message as the integrity check finds it,
`truth` what the mailbox holds. Each actor has a program counter and its
snapshots `m`, `r`; `mFresh` and `rFresh` say whose etag is still current.
`accepted`, `refused` and `top` are ghosts.

*Actions.* One per await of `beginEmergencyForward`,
`processEmergencyForwardMessage`, `reconcileOneEmergencyForwardMarker`,
`commitIngressForwardAcceptance` and of the functions they share. A conditional
put succeeds when the snapshot is fresh; deletes are unconditional, as in the
code. The rest of the system appears as the inbound queue's `writeReceipt`
(`QueueFinalizes`), reception's `recordDurableRejection` (`RejectionLands`) and the
mailbox (`MailboxChanges`).

*Abstraction.* `ingress` stands for every receipt `readEmergencyReceipt` finds
invalid, `quarantined` for an error that may be forwarded. A read whose only use
is the put that follows it at once is merged with that put, whose loss is a
disjunct of its own. A redelivered message whose earlier run outlived the
75-second item deadline is a second consumer. Left out: markers that do not
parse, the listing cursor of the sweep, anomaly records, telemetry and the
provider's reference.

### 3.5 InboundPipeline

*State.* The archived message and its active marker, the `receipt` (one R2 object
that ingress, consumers and the sweep write under etag conditions: `iFresh` and
`rFresh` say whose etag is current), the emergency forward reduced to what 3.4
shows of it (`em`), the copies of the pointer in the queue and in its dead-letter
lanes, the mailbox's truth and its terminal-failure ledger, the answer given to
the sender, and a program counter for ingress, every consumer and the sweep.

*Actions.* The awaits of `receiveEmail` with all its fallbacks (direct store,
direct forward, durable rejection), of the queue consumer and the dead-letter
consumer, of the reconciliation of one archive, and a failure of each of them: a
call that is reported as failed may have taken effect. Ingress may crash
anywhere; owners delete, mailboxes close and open.

*Abstraction.* The raw bytes match their record (3.4 has the mismatches). A plain
archive and its upgrade to one with a SHA-256 are one step. Left out: receipts of
the legacy format, a foreign message under the same id, and the exhaustion of the
parking lane after a hundred retries. That an archive is not yet stale is a
choice (`SweepTooEarly` beside `SweepReads`). The failure budget of ingress ends
with its answer.

### 3.6 DraftSaves

*State.* The draft (version, attachments), `draft_create_operations`,
`draft_save_operations` with owner token and plan, the cleanup intents, the R2
objects, and the requests.

*Actions.* Claim and takeover of a lapsed claim, the record of the plan,
promotion, the commit, a commit whose answer is lost and that may happen later,
`reconcileAmbiguousDraftSave` with its look-up and abort, rollback, the sweep of
lapsed claims, the daily cleanup, pruning, edits and discards.

*Abstraction.* One attachment per save. Parked cleanup intents, which only
corrupt plans produce, are left out. Finished operations and intents are kept
for a day, longer than any request: hence the guards of `Prune` and `Cleanup`.

### 3.7 ImportClaims

*State.* The claim of the message, `import_promotion_intents` with phase, cursor
and what was seen of each object, the lease of a reconciliation, its call between
two transactions, the deletion outbox with its fences, the objects, the requests
and the calls of requests that ended (`late`). `size`, the number of attachments, is
chosen at the start; each is a page of the intent.

*Actions.* Claim, renewal, begin, seal, put, projection (`createImportedEmail`),
undo, finalization, release; the reconciliation of a page by the request and by
the alarm in two transactions around R2; lapse and sweep of claims; late puts and
projections; deletion of the message.

*Abstraction.* `MaxImportFails` bounds failed, lost and overlong calls; the passes
of a finalizing request may end anywhere; one alarm reconciles at a time. That two
imports are of the same message (the SHA-256 of its bytes) is given. Assumption:
a projection whose answer is lost has happened or never will (`store-email.ts`
671). `StraysAreWatched` states the exception the code has: an object put between
a reconciliation that found its key absent and the close of the intent.

### 3.8 BulkSend

*State.* Reservations, `bulk:admission`, the jobs, the queue and the active list,
the recipient under preparation, the deliveries in the ledger, the cleanup
intents, the objects with puts that may still land, the pass of the alarm. The
outstanding recipients are counted as the code counts them: those of active jobs
the cursor has not passed (`Waiting`) and the open deliveries of the ledger
(`Open`).

*Actions.* `reserveBulkOperation` and its end, `enqueueBulkJob` with any number of
recipients up to `Rows`, the three parts of a pass (copy the uploads of a job, one cleanup, one recipient) step by step,
a stop of the pass anywhere, deliveries that settle or are retried, senders who
lose the mailbox.

*Abstraction.* Left out: the daily, per-actor and cleanup-backlog limits,
conflicting fingerprints, pruning after thirty days, the repair of legacy queues,
throttle times. A job's terminal intent is merged with the one of its generation.
A put that is cut off, of a job's copy or of a recipient's, may land at any later
time or never. The code looks for such a copy as long as an intent names it: until
twenty minutes for a job's (`verifyAt`), until its first deletion for a recipient's
(its intent has no `verifyAt`). What lands later is named by nothing, and the
property excuses it and nothing else: `stray`, a history variable, has the copies
whose put landed when the preparation that began it was over and no intent named
them. Both kinds occur. For a job's copy the comment at `index.ts` 11556-11559 says
that its last deletion cannot race the writer; a pass that began below the
ten minutes of a preparation and lasts up to fifteen can.

### 3.9 PushOutbox

*State.* Registrations with their generation, the notification and its delivery
per device with attempts and lease, who may read the mailbox, and what a pass
holds across its awaits.

*Actions.* The enqueue in the transaction that stores the message, the claim, the
access check, the device check, the send and every kind of answer, the stop of a
pass, the lapse of a lease, registrations, removals and revocations in between.

*Abstraction.* Back-off times are left out; access that was taken is not given
back.

### 3.10 CredentialRecovery

*State.* The control row, the account, jobs, tokens, the delivery outbox with its
attempts (by lease token), what each drain and each open form holds.

*Actions.* Jobs leased by concurrent drains, the issue batch, the lease, fence,
dispatch and settlement of a delivery, recovery of expired dispatches, provider
reports at any time, consumption of the link, replacement of credentials,
deactivation, the control switch.

*Abstraction.* A lease may run out at any time. An account whose ownership is not
confirmed behaves like an inactive one; no caller issues setup links. Retention
and request counters are left out. As in the code, the attempt row of a later
lease can stay `dispatching` when an earlier one is reported accepted.

### 3.11 SemanticIndex

*State.* The mail (place, content version), the object of each attachment, the
messages changed since the last applied position of the log (`behind`),
`semantic_projection_state`, sources and jobs by token, the extractions, the
vectors that are visible and the mutations on their way, and what the turn of
the alarm holds across its awaits. `batch` is the size of a page (`BACKFILL_BATCH`):
it never changes, and is a variable so that one run can explore several sizes.

*Actions.* A turn as `advanceSemanticMailboxIndex` runs it: one extraction, one
page of a backfill or of the log (read, fingerprint, projection when the version
is still the one read), the observation of submitted mutations, the lease of jobs,
embedding, upsert and delete, each of which may fail, be answered late or take
effect although it failed. Around it mail arrives, changes, is moved to an excluded
folder and back, and is deleted; attachments change; operators rebuild; searches
drop stale attachments. The triggers that turn a lost source into a delete job are
part of every action that loses one (`Rewrite`).

*Abstraction.* A source has one chunk; the groups of upserts of the two embedding
models are one; a page of the log is any nonempty set of changed messages; log
entries of a message and of its attachment are merged. Mutations land before the
five minutes after which a submitted job is looked at again (`GrowsOld`). Left
out: the schedule of the alarm, rebuilds after a change of a version constant,
metadata changes of an attachment row; a lease that has lapsed is not told from
one that is held when an answer is recorded.

`CompleteIsTrue` states an exception the code has (`raced`): a rebuild during the
await of the last page of a backfill. The page's end then completes the *new*
state (`semantic-index.ts` 734-741), and the index calls itself complete over a
backfill that never ran. `CompleteIsComplete`, without the exception, is refuted.
Beside it a job of the kind delete that has used up its attempts keeps the index
from ever being complete.

### 3.12 AiUsage

*State.* The months' ledger (spent, reserved, approved), an event per request, what
each caller has read and where it is, and as ghosts what each call really cost and
how often a caller was told to raise the alarm. The ledger is a sum over events;
the model writes a sum as the cardinality of the set of micros it is made of
(`Cost`), which is the same number and can be reasoned about without induction.

*Actions.* A request step by step as the controller and its callers make it: reap,
read the month, reserve under the limit of its tier if there is still room, mark as
started, call, settle with the observed cost or give up; it may stop anywhere. A
reservation runs out at any time and whoever reaps it charges the estimate if the
call was started. Approvals and months come in between. The triggers of the
migration that move amounts between columns are part of the settling step.

*Abstraction.* Only paid requests. Left out: the rows that record blocked, cached
and deterministic answers, the response cache, prices and estimates, which are
chosen from small sets. `WithinBudget` allows what the code cannot prevent: a call
that turns out dearer than its estimate. The alarm is raised only by a completion,
so spending that reaps presumed does not raise it by itself.

### 3.13 AutomationRules

*State.* `automation_rules` with their revisions, versions (definitions), references
to labels and folders, the latest test of each definition, the list each member
looks at, the labels and folders, the messages of a conversation, and their runs
with captured definitions and references. `proven` and `blind` are ghosts.

*Actions.* Create, update (and restore), test, enable, re-enable and disable,
archive and reorder against the revision a member has seen; expiry of tests;
deletion of labels and folders; arrival of a message with the capture of its run;
filing, labelling and deletion of messages; the alarm, which claims, plans and
applies without an await, fails, retries and recovers lapsed leases.

*Abstraction.* A definition says which messages it hits, which labels it sets,
where it moves and whether it stops: the evaluation of conditions and of dry runs
is not modelled, a test ends either way. An edit's await of its fingerprint is
covered by the time between looking and editing. Left out: stars, names, the limits
on retained rules, versions, runs and on the size of a conversation, stored
definitions that do not parse, replays of a test, back-off. As in the code,
`SetEnabled` does not count the enabled rules while `Enable` does, and a capture
takes the first `MaxEnabled` of them. Rules at one position are captured in either
order (`InOrder`; the code breaks the tie by identifier). The plan of a run is a
recursive function of the captured rules, so that it can be reasoned about.

### 3.14 TruthfulDelivery and OutboundTruth

`TruthfulDelivery` is the promise: per message the *word* the outbox gives
(open, sent, bounced, failed, unknown, cancelled), the *fate* of every request to
the provider, and the requests the user has *pardoned*. A word may change only in
the ways its fates allow; a request is made only when every request that may
have succeeded was pardoned. `OutboundTruth` reads the ledger as that promise:
`said` is the status with queued, retrying and sending as *open*, `fate` is what
SES did, `pardoned` the attempts acknowledged so far. Its next-state relation
lets several messages step together, because one pass of the ledger may serve
several.

## 4. Runs

| Run | Instance | Shows |
|---|---|---|
| `outbound_ledger` | one delivery, two overlapping passes, budget 2, 3 attempts, full and unscoped bounces | `LedgerInv`, duplicates flagged, no silent duplicate, automatic retries bounded; the ledger implements `TruthfulDelivery` |
| `sent_not_terminal` (violation) | as above | a *sent* delivery is rewritten to *unknown* by an unscoped bounce, against the contract's test |
| `projection_safe` | two versions, two tries, one retry, one event, the user filing the draft and the first snapshot anywhere | see 5; also *consumed is sent*, *retired text is a draft*, *no resurrection* |
| `storage_safe` | `MCStorageSafe`: a send and a projection, one object each, two leases, writers within their intent; the semantic index; automation rules | an owned object is never removed, nothing a send wrote is forgotten; `IndexIsTrue`: sources are current, vectors are tracked, *complete* is true; `RulesAreKept`: targets outlive their rules and runs, what acts was tested, edits are seen, runs are orderly |
| `ledgers_live` | `MCLedgersLive`: one delivery with partial bounces; one version; one send that may outlive its intent | open deliveries come to rest, accepted messages are filed, cancellations settle, deletions end |
| `forward_safe` | `MCForwardCasts`: a call and both lanes over every first receipt and archive; a call and the sweep; a call, the sweep and a consumer, the call undisturbed; an ingress forward, a call and a consumer with a failure anywhere | the inductive invariant, receipts are true, nothing is stranded, a recorded acceptance is kept |
| `forward_live` | a call, the sweep, one consumer, two generations; the world stands still, no call fails | forwards settle, markers drain |
| `forward_fence` (violation) | two consumers, two generations, attempts within their lease | an older copy is sent although a newer generation was claimed and settled |
| `inbound_held` | one consumer, one copy per lane, one scan, two failures of ingress, one of the others (not at once) | an accepted message is held, terminal receipts are true, a rejection is final (`PipelineInv`), copies leave safely |
| `inbound_rests` | the same pipeline under fairness | the pipeline comes to rest |
| `mail_safe` | `MCMailSafe`: draft saves, imports, bulk sends | no object in use is deleted, none is forgotten, saves and counts are true |
| `services_safe` | `MCServicesSafe`: push notifications, credential recovery, AI usage | pushes are due, links are single, usage is charged once and within the budget; answers are judged and requests sent as due |

The properties of `mail_safe`, `services_safe`, and of the index and the rules in
`storage_safe` are conjunctions of the parts their modules name, with the type
invariant of the module as the first part.

*Bounds.* The interesting races are between two actors on one item: rows of
different deliveries share no state but the alarm, objects of different
messages none at all, forwards of different messages only the queue. Hence one
delivery (with two passes), two messages with one object each, one forwarded
message. Three attempts reach automatic retry, exhausted
budget and a retry by hand; two tries reach parking; two versions let an edited
draft race the version in flight; two generations let an old copy survive a
claim. `forward_safe` limits each cast to what it is about: the casts with the
sweep have one generation and leave the second to the others, and when a call, the
sweep and a consumer take part, the two wait while the call is at work, whose
interleavings with each of them the other casts have. In
`inbound_held` a failure of ingress and one of the others do not come together
(`FailuresApart`), which halves the instance; in `projection_safe` only the first
version's recoveries fail (`FirstVersionFails`) and only its snapshot is trashed,
filed elsewhere or discarded (`FirstVersionIsFiled`; any other is moved between the
Outbox and Sent), since the versions meet in the draft alone. `mail_safe` has two attempts of one
save and another save; one import of two objects with two failures, and two
imports of one object each with one; one job of one or two recipients whose passes stop twice,
and two jobs, one of them of a single recipient, with room for two recipients at a
time, whose passes do not stop and whose cleanups are due only when the code makes
them so. `services_safe` has two registrations of
any of two devices, and up to four of one device at a time, by two users; three leases and no act of an
administrator, two leases and one act; two paid requests of two thirds of the budget each,
over two months. `storage_safe` explores the index with a message and its
attachment, with one message that changes twice, and with two messages in one page
of the backfill or in two (the lapse of leases and failed calls only with one);
the rules with two members at one rule, one member at two rules that change
places, a rule that changes (and fails no test) while its run is open, three rules
in any order of four definitions on one message, and two rules on a conversation of
two. Symmetry is used on lease
tokens and model values that occur in no constant of the state (a fresh one
occurs nowhere), and on actors of one kind, never in a liveness run.
`CHECK_DEADLOCK FALSE` stands where everything may be done:
all counters used up and nothing left to do.

*Fairness.* Outbound and R2: a scheduled alarm runs and is run again when it
throws or its object is evicted, back-offs and leases end by the clock. Steps of
a pass are strongly fair because a pass may be evicted in between, and evictions
do not hit the same point of every pass. Projection: both alarm lanes, for the
same reason; requests and users owe nothing. Emergency forward: work under way
goes on (every await has a deadline), the sweep is a cron job every five minutes
(`app.ts` 443), leases run out, a copy the queue keeps is delivered again.
Callers are not fair: `MarkersDrain` therefore asks for a time after which no
call is under way, since a caller that is repeated for ever can recreate the
marker for ever. Inbound: steps under way, deliveries of what the queue keeps and
the sweep; `SweepReads` is strongly fair because an archive that is too young is
old enough at one of the following runs; `Exhaust` is, because the queue is
configured with ten retries and a dead-letter queue.

*Findings.* `sent_not_terminal` and `forward_fence` show behaviours that a test
and a comment of the repository rule out; both are quoted in `PROJECT.json`.

## 5. Proofs

Every theorem holds for all values of the constants (any number of deliveries,
passes, messages, objects, versions, tries); the named `ASSUME`s only fix types
and keep sets disjoint.

* `OutboundDeliveryProofs`. `LedgerInv` is inductive. *No false failure* is not
  by itself: a row may be failed only when none of its attempts may still be
  accepted, and that needs `ExposureKnown`, which relates the state of each
  attempt to what SES did; *no false success* needs `Evidence`, *no silent
  duplicate* the shapes of the rows a pass holds in memory across an await
  (`JobShape`), and the retry budget `WithinBudget` with the origin of the
  retry. The first two (`FailureIsTruthful`, `SuccessIsTruthful`) are in no run's
  list: the refinement below says more.
  Its last part shows that the ledger implements `TruthfulDelivery`: its initial
  states are the abstract ones, and every action is the step of the promise it
  should be, or stutters for every message (`OutboxIsTruthful`). `OneCopyUnasked`
  is what a user relies on: of the copies SES accepted or may still accept, at
  most one was sent without an acknowledged risk.
* `StorageProofs`. R2 ownership: *owned is stored* needs that whatever may still be
  deleted (a claimed row, a batch in memory, a request in flight) is `Closed`:
  fenced against adoption for good. That, and that an open, written object is
  there, is `OwnershipInv`. *Nothing is forgotten* (`SendObjectsAreTracked`) holds
  if no request outlives the twenty minutes of its promotion intent (`SlowWriters`
  false, as in `storage_safe`): `TrackingInv` adds that the row of a request that
  is still writing is neither due nor parked, and that a key a pass reports as
  deleted has no object. It is not claimed for slower requests: a put that lands
  after its key was fenced, deleted and dropped is in nobody's list.
  Automation rules: `AutoInv` says of each rule which versions its references cover
  and that its draft and active version exist (`RuleParts`), of each list a member
  looks at that it is not newer than the rules and that an equal revision means an
  equal rule (`ViewParts`: why a check of the revision is a check of what was seen),
  and of each open run that its references cover what it captured (`RunParts`).
  `MailInv` types mail and captures. That a plan does what its rules ask for
  (`PlanIsOrderly`, for every sequence of definitions) is shown by induction along
  the captured rules: `Says` describes the plan of the first `k` of them and is
  carried from each to the next. The library's induction theorems take operators;
  `UpTo` does the same for a set of numbers, because one that it missed would have
  a least (`LeastOf`, from the well-foundedness of the order on the naturals).
  Semantic index: `IndexIsTrue` is not inductive. That vectors are tracked needs
  that a token is in one life at a time (`TokenParts`): a source has no delete under
  way, what is being sent is leased or has lost its source since, and five minutes
  after a submission nothing of it is on its way, which is why a missing vector may
  then confirm a delete. That a source is current although it is written after an
  await needs `ReadParts`: what was read still holds, or the log names the message.
  That *complete* is true is an argument about mail without a source (`Missed`,
  `Unlisted`): it lies after the cursor, in the log, or on what is left of the page
  (`EmailParts`, `TurnParts`), so when the backfill has ended and the log is empty
  there is none. A page holds the first of the rows (`FirstPage`, by cardinalities,
  with `LeastMail` and `LastMail` for the next message and the cursor), and a
  rebuild at the one await where this fails is `raced` (`StatusParts`).
* `OutboundProjectionProofs`. `ProjectionInv` relates status, folder and
  recovery row of every version; *cancelled is reachable* needs `FirstFlightInv`
  (a first flight has never been retried, so a cancelled snapshot was never
  accepted), the action properties follow from it step by step. That a projected
  message is filed is true only with `putBack`: the user's move to the Outbox is the
  one step that can undo it, and an SES event that reopens the row clears the record.
  Of the draft, `kept` says why a consumption was recorded that consumed nothing.
* `EmergencyForwardProofs`. `ForwardInv` is inductive. *Nothing is stranded*
  is not: a marker is deleted on the word of a snapshot read several awaits
  earlier. It needs that what a snapshot, an intended receipt or a position in
  the code claims has happened (`SnapshotInv`, `StepInv`) and that what settles
  a message (`Recorded`) is never undone. Each step is taken apart into its
  effect on the marker, on the receipt and on the rest (`MEff`, `REff`,
  `Frame`); lemma `Assemble` puts them together, so that an action only owes
  what it alone could break. No assumption on leases is used (`Timely` is free):
  the safety of the protocol does not rest on the clock.
* `InboundPipelineProofs`. *A message accepted from its sender is held* needs to
  know who may be at work: `HeldInv` says that ingress has its archive or has
  delivered (`IngressInv`), that before the message was queued nobody else works
  at it (`SharingInv`), that the receipt a consumer or the sweep is about to put
  is true (`GoalInv`), and that every busy consumer has a copy of its own
  (`CopyInv`, with the cardinality lemmas of the library). From it follow the
  truth of terminal receipts and the action property that a copy leaves the queue
  only when the message is delivered, its forward has begun or its sender was told
  of the rejection.
* `MailProofs`. Draft saves: *objects are safe* needs that what is given up is given up
  for good: a token in the cleanup, in a deletion or in a rollback is `Retired`,
  it is not the draft's and can no longer be committed, late or not. *Saved once*
  holds after the record of a save was pruned because all attempts of a save
  start from one revision, which a commit leaves behind (`BaseInv`); what a
  request keeps of the draft is the draft's as long as the revision is.
  Bulk sends: that a recipient's message keeps its attachment needs that what a pass
  has found still holds when it acts on it (`RunInv`: an intent in its hands names
  an object nothing protects, and a protection cannot come back), that a message
  under preparation has an intent (`KeyInv`) and none of the ledger's is under
  preparation (`DelivInv`). That no copy is forgotten needs to know until when an
  intent names a job's copy (`JobCopyInv`: until the job has ended and is past the
  twenty minutes of `verifyAt`) and that every copy was put in time, is named or is
  stray (`TrackInv`); no bound on the time of a put is assumed.
  `BulkAccounts` counts recipients with the cardinality lemmas of the library: a
  retry is counted against the same limit as the recipients that wait, and a
  recipient of the ledger that its job has not counted yet is counted twice, never
  not at all.
* `ServicesProofs`. Credential recovery: in `RecoveryInv` tokens are issued in
  order and one works (`TokensInv`), a completed request is answered by one token
  and an open one by none (`JobsInv`), and a lease in a drain's hands or in the
  outbox has its attempt (`AttemptsInv`). `LinksStaySingle` states the invariant
  `services_safe` checks; that attempts begin only while a link is good, and that
  an accepted delivery stays accepted, are action theorems from it.
  The push outbox: *sends are bounded* is not inductive, since a pass that is put
  off gives its attempt back. `PushInv` adds that a delivery that waits has an
  attempt left (`TriesInv`), that a pass is at a delivery it has claimed, with an
  attempt it has not used before it sends, and that the registration it judges is
  of the delivery's target (`ClaimedInv`), which is also why health is charged to
  the right user. No assumption on leases is used but that none lapses under the
  pass that holds it.
  AI usage: *the ledger adds up* and *the budget holds* are inductive together with
  where a request is (`RequestsInv`): an event is settled once because settlement
  asks for the reserved state, and the limit a request carries never exceeds what
  its month has approved. `UsageCharges` states what `services_safe` checks for any
  number of requests and months and any estimates and costs; a month exceeds its
  budget by what calls cost beyond their estimates and by nothing else.
* `ImportClaimsProofs`. `ImportInv` relates where a request is to what may still
  happen of it. An object that a reconciliation found present is never put again
  (`IsPut`), a request whose message is stored puts and undoes nothing more
  (`IsPast`), and a page that was settled is the message's, gone, or in the
  outbox (`Tracked`); a finalized intent says that of every page, except of
  objects found absent after its writer closed it. A step is taken apart by
  lemmas on what it leaves alone (`RequestKeeps`, `ObjectsKeep`, `SeenKeeps`,
  `CallKeeps`). It also shows that `integrity_blocked` is never reached
  (`NoIntentIsBlocked`): no object of the message is ever missing or fenced.

*Only model-checked*: every liveness property (they need fairness, which the
prover does not handle). Every safety property that a passing run checks is a
theorem; `JudgedAndSentAsDue` is one in its three conjuncts, as
`RegistrationsDropAsJudged`, `LinksAreSentWhileGood` and `AcceptedLinksStay`.

## 6. Not modelled

The components marked planned in section 2. Request parsing, MIME and
content conversion, rendering, the web application and the migrations keep no
protocol state of their own. Authorization is taken as passed wherever an action
of these modules begins. The precise instants of back-offs are not modelled,
only that they end.
