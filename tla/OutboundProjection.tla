------------------------- MODULE OutboundProjection -------------------------
(***************************************************************************)
(* What a delivery's outcome does to the user's mail: an accepted message  *)
(* leaves the Outbox and consumes the draft it was sent from, a cancelled  *)
(* one becomes a draft again (src/workers/durableObject/index.ts).         *)
(*                                                                         *)
(* One draft is edited, sent, edited and sent again; version v of it has   *)
(* at most one delivery (findDeliveryBySourceDraft), whose snapshot is a   *)
(* message of its own.  The delivery's status is the ledger of             *)
(* OutboundDelivery reduced to what the projection reads: "queued" stands  *)
(* for queued and retrying, "resting" for failed and unknown, "sent" for   *)
(* sent and bounced.  Alarm passes do not overlap; requests run between    *)
(* the awaits of a pass, and a pass between the awaits of a request.       *)
(*                                                                         *)
(* The user files drafts and snapshots meanwhile, as mail of any other     *)
(* kind: a snapshot may go back to the Outbox, or to Drafts and be         *)
(* discarded there.  Two history variables, which no guard reads, keep     *)
(* what the properties must know of that (both are in the activity log):   *)
(*   putBack[v]  the user put the snapshot into the Outbox after the       *)
(*               recovery had recorded that it was filed;                  *)
(*   kept        this version of the draft was in another folder when its  *)
(*               consumption came, which then left it alone.               *)
(***************************************************************************)
EXTENDS Integers

CONSTANTS
  MaxVersion,   \* versions of the draft
  MaxTries,     \* failures after which a recovery is parked (6 in the code)
  MaxRetries,   \* bound: manual retries
  MaxEvents,    \* bound: SES events
  Requests      \* concurrent cancel requests

Alarm == "alarm"

ASSUME ConstantsAssumption ==
  /\ MaxVersion \in Nat \ {0} /\ MaxTries \in Nat \ {0}
  /\ MaxRetries \in Nat /\ MaxEvents \in Nat
  /\ Alarm \notin Requests

VARIABLES
  draft, version, kept,              \* the source draft and its draft_version
  status, retry, amb, acc, agree,    \* the ledger, per version
  folder, prev, putBack,             \* the snapshot's folder_id, previous_folder_id
  row, projected, consumed, tries,   \* outbound_acceptance_recovery
  inline,                            \* SES events between their commit and their projection
  ctries, copying, reco,             \* cancellation recovery
  retries, events                    \* bounded counters

drafts     == <<draft, version, kept>>
ledger     == <<status, retry, amb, acc, agree>>
mail       == <<folder, prev, putBack>>
recovery   == <<row, projected, consumed, tries>>
cancelling == <<ctries, copying, reco>>
vars == <<drafts, ledger, mail, recovery, inline, cancelling, retries, events>>

Versions == 1..MaxVersion
Actors   == Requests \cup {Alarm}
Idle     == 0    \* an actor that copies no snapshot

Statuses == {"none", "queued", "sending", "resting", "sent", "cancelled"}
\* "other" is any other folder of the user's, Drafts among them.
Folders  == {"none", "outbox", "sent", "other", "trash", "retired", "gone"}
Rows     == {"none", "pending", "parked", "completed"}

TypeOK ==
  /\ draft \in {"drafts", "away", "discarded", "consumed"}
  /\ version \in Versions /\ kept \in BOOLEAN
  /\ status \in [Versions -> Statuses]
  /\ retry \in [Versions -> BOOLEAN]  \* retry_origin_status is set
  /\ amb \in [Versions -> BOOLEAN]    \* some attempt's outcome is unknown
  /\ acc \in [Versions -> BOOLEAN]    \* some attempt is accepted
  /\ agree \in [Versions -> BOOLEAN]  \* deliveryPreservesAcceptedTruth
  /\ folder \in [Versions -> Folders] /\ prev \in [Versions -> Folders]
  /\ putBack \in [Versions -> BOOLEAN]
  /\ row \in [Versions -> Rows]
  /\ projected \in [Versions -> BOOLEAN] /\ consumed \in [Versions -> BOOLEAN]
  /\ tries \in [Versions -> 0..MaxTries]
  /\ inline \subseteq Versions
  /\ ctries \in [Versions -> 0..MaxTries]
  /\ copying \in [Actors -> Versions \cup {Idle}]
  /\ reco \in [Versions -> {"none", "draft", "gone"}]
  /\ retries \in 0..MaxRetries /\ events \in 0..MaxEvents

Init ==
  /\ draft = "drafts" /\ version = 1 /\ kept = FALSE
  /\ status = [v \in Versions |-> "none"]
  /\ retry = [v \in Versions |-> FALSE] /\ amb = [v \in Versions |-> FALSE]
  /\ acc = [v \in Versions |-> FALSE] /\ agree = [v \in Versions |-> FALSE]
  /\ folder = [v \in Versions |-> "none"] /\ prev = [v \in Versions |-> "none"]
  /\ putBack = [v \in Versions |-> FALSE]
  /\ row = [v \in Versions |-> "none"]
  /\ projected = [v \in Versions |-> FALSE] /\ consumed = [v \in Versions |-> FALSE]
  /\ tries = [v \in Versions |-> 0] /\ inline = {}
  /\ ctries = [v \in Versions |-> 0] /\ copying = [a \in Actors |-> Idle]
  /\ reco = [v \in Versions |-> "none"]
  /\ retries = 0 /\ events = 0

-----------------------------------------------------------------------------
(* The user's draft.                                                       *)

InDrafts(v) == draft = "drafts" /\ version = v

\* upsertDraft: every save makes a new version.
EditDraft ==
  /\ draft = "drafts" /\ version < MaxVersion
  /\ version' = version + 1 /\ kept' = FALSE
  /\ UNCHANGED <<draft, ledger, mail, recovery, inline, cancelling, retries, events>>

\* discardDraft: only the version the user saw.
DiscardDraft ==
  /\ draft = "drafts" /\ draft' = "discarded"
  /\ UNCHANGED <<version, kept, ledger, mail, recovery, inline, cancelling, retries, events>>

\* trashEmail, moveEmail, restoreEmail of the draft: no delivery is of its id.
FileDraft ==
  /\ \/ draft = "drafts" /\ draft' = "away"
     \/ draft = "away" /\ draft' = "drafts"
  /\ UNCHANGED <<version, kept, ledger, mail, recovery, inline, cancelling, retries, events>>

-----------------------------------------------------------------------------
(* The ledger, as far as the projection depends on it.                     *)

\* enqueue asserts the exact draft version and copies it into the Outbox.
Enqueue(v) ==
  /\ InDrafts(v) /\ status[v] = "none"
  /\ status' = [status EXCEPT ![v] = "queued"]
  /\ folder' = [folder EXCEPT ![v] = "outbox"]
  /\ UNCHANGED <<drafts, retry, amb, acc, agree, prev, putBack, recovery, inline,
                 cancelling, retries, events>>

\* The user has discarded the snapshot, in Drafts.
Missing(v) == folder[v] = "gone"

\* claimNextForPreflight; a delivery with an accepted attempt is settled
\* instead, one without its snapshot fails.
Claim(v) ==
  /\ status[v] = "queued"
  /\ LET refused == acc[v] \/ Missing(v) IN
     /\ status' = [status EXCEPT ![v] = IF refused THEN "resting" ELSE "sending"]
     /\ retry' = [retry EXCEPT ![v] = @ /\ ~refused]
  /\ agree' = [agree EXCEPT ![v] = FALSE]
  /\ UNCHANGED <<drafts, amb, acc, mail, recovery, inline, cancelling, retries, events>>

\* deferPreflight, finalizeRetryableFailure, an expired preflight lease (left by
\* beginProviderAttempt, too, when it finds no snapshot).
Requeue(v) ==
  /\ status[v] = "sending"
  /\ status' = [status EXCEPT ![v] = "queued"]
  /\ UNCHANGED <<drafts, retry, amb, acc, agree, mail, recovery, inline, cancelling, retries, events>>

\* finalizeDefinitiveFailure, failPreflight (lost = FALSE); finalizeUnknown and
\* an expired provider lease (lost = TRUE).
ComeToRest(v, lost) ==
  /\ status[v] = "sending"
  /\ status' = [status EXCEPT ![v] = "resting"]
  /\ retry' = [retry EXCEPT ![v] = FALSE]
  /\ amb' = [amb EXCEPT ![v] = @ \/ lost]
  /\ UNCHANGED <<drafts, acc, agree, mail, recovery, inline, cancelling, retries, events>>

\* Mutant: a manual retry forgets the status it must be able to restore.
RetryForgetful(v) ==
  /\ status[v] = "resting" /\ retries < MaxRetries
  /\ status' = [status EXCEPT ![v] = "queued"]
  /\ agree' = [agree EXCEPT ![v] = FALSE]
  /\ retries' = retries + 1
  /\ UNCHANGED <<drafts, retry, amb, acc, mail, recovery, inline, cancelling, events>>

\* retryFailed, retryUnknown: the status to return to is remembered.
Retry(v) ==
  /\ status[v] = "resting" /\ retries < MaxRetries
  /\ status' = [status EXCEPT ![v] = "queued"]
  /\ retry' = [retry EXCEPT ![v] = TRUE]
  /\ agree' = [agree EXCEPT ![v] = FALSE]
  /\ retries' = retries + 1
  /\ UNCHANGED <<drafts, amb, acc, mail, recovery, inline, cancelling, events>>

-----------------------------------------------------------------------------
(* Acceptance: the snapshot moves to Sent, the draft is consumed.          *)

\* Mutant: only the Outbox is looked at, not where Trash would restore to.
MoveKeepingPrevious(v) ==
  /\ folder' = [folder EXCEPT ![v] = IF @ = "outbox" THEN "sent" ELSE @]
  /\ putBack' = [putBack EXCEPT ![v] = FALSE]
  /\ UNCHANGED prev

\* #moveAcceptedOutboundToSent: a snapshot the user filed elsewhere stays
\* there, but no longer restores to the Outbox.
MoveAcceptedOutboundToSent(v) ==
  /\ folder' = [folder EXCEPT ![v] = IF @ = "outbox" THEN "sent" ELSE @]
  /\ prev' = [prev EXCEPT ![v] = IF @ = "outbox" /\ folder[v] # "outbox" THEN "sent" ELSE @]
  /\ putBack' = [putBack EXCEPT ![v] = FALSE]

\* Mutant: the draft is consumed whatever its version.
ConsumeAnyVersion(v) ==
  /\ draft' = IF draft = "drafts" THEN "consumed" ELSE draft
  /\ UNCHANGED <<version, kept>>

\* consumeDraftVersion: exactly the version that was sent, if it is in Drafts.
\* "not_draft", "version_changed" and "missing" are answers, not failures.
ConsumeDraftVersion(v) ==
  /\ draft' = IF InDrafts(v) THEN "consumed" ELSE draft
  /\ kept' = (kept \/ (draft = "away" /\ version = v))
  /\ UNCHANGED version

\* The two steps, of which the first n are reached without a failure; the
\* first finds no snapshot, or moves it and goes on.
Project(v, n) ==
  /\ IF n >= 1 THEN MoveAcceptedOutboundToSent(v) ELSE UNCHANGED mail
  /\ IF n >= 2 /\ ~Missing(v) THEN ConsumeDraftVersion(v) ELSE UNCHANGED drafts

\* Without a snapshot the row is parked, whatever it was; otherwise it is old.
ParkIfMissing(v, n, old) == IF n >= 1 /\ Missing(v) THEN "parked" ELSE old

\* finalizeAccepted with recordAcceptedRecovery (an existing row is kept), then
\* the projection in the same turn.
FinalizeAccepted(v, n) ==
  /\ status[v] = "sending"
  /\ status' = [status EXCEPT ![v] = "sent"]
  /\ retry' = [retry EXCEPT ![v] = FALSE]
  /\ acc' = [acc EXCEPT ![v] = TRUE]
  /\ agree' = [agree EXCEPT ![v] = FALSE]
  /\ row' = [row EXCEPT ![v] = ParkIfMissing(v, n, IF @ = "none" THEN "pending" ELSE @)]
  /\ Project(v, n)
  /\ UNCHANGED <<amb, projected, consumed, tries, inline, cancelling, retries, events>>

\* recordSesProviderEvent, and #recordConcurrentAcceptedProviderOutcome (which
\* projects nothing itself): acceptance is learnt late.  The recovery row
\* starts over; the handler goes on to project after it has set the alarm.
RecordAcceptance(v, s, settled, goesOn) ==
  /\ status[v] = "sending" \/ amb[v] \/ acc[v]
  /\ events < MaxEvents /\ events' = events + 1
  /\ status' = [status EXCEPT ![v] = s]
  /\ retry' = [retry EXCEPT ![v] = FALSE]
  /\ acc' = [acc EXCEPT ![v] = TRUE]
  /\ agree' = [agree EXCEPT ![v] = settled]
  /\ row' = [row EXCEPT ![v] = "pending"]
  /\ projected' = [projected EXCEPT ![v] = FALSE]
  /\ putBack' = [putBack EXCEPT ![v] = FALSE]
  /\ tries' = [tries EXCEPT ![v] = 0]
  /\ inline' = IF goesOn THEN inline \cup {v} ELSE inline
  /\ UNCHANGED <<drafts, amb, folder, prev, consumed, cancelling, retries>>

\* The rest of recordSesProviderEvent, with what it read before the await.
ProjectInline(v, n) ==
  /\ v \in inline /\ inline' = inline \ {v}
  /\ Project(v, n)
  /\ row' = [row EXCEPT ![v] = ParkIfMissing(v, n, @)]
  /\ UNCHANGED <<ledger, projected, consumed, tries, cancelling, retries, events>>

-----------------------------------------------------------------------------
(* #processOutboundAcceptanceRecovery, one row at a time.                  *)

AlarmFree == copying[Alarm] = Idle

\* The delivery row does not tell what the attempts tell: rewrite it and look again.
RepairDelivery(v, s) ==
  /\ AlarmFree /\ row[v] = "pending" /\ ~agree[v]
  /\ status' = [status EXCEPT ![v] = s]
  /\ retry' = [retry EXCEPT ![v] = FALSE]
  /\ agree' = [agree EXCEPT ![v] = TRUE]
  /\ UNCHANGED <<drafts, amb, acc, mail, recovery, inline, cancelling, retries, events>>

\* Mutant: the message is not moved, as if finalizeAccepted always had.
CompleteWithoutMove(v) ==
  /\ AlarmFree /\ row[v] = "pending" /\ agree[v]
  /\ UNCHANGED mail
  /\ IF consumed[v] THEN UNCHANGED drafts ELSE ConsumeDraftVersion(v)
  /\ row' = [row EXCEPT ![v] = "completed"]
  /\ projected' = [projected EXCEPT ![v] = TRUE]
  /\ consumed' = [consumed EXCEPT ![v] = TRUE]
  /\ UNCHANGED <<ledger, tries, inline, cancelling, retries, events>>

\* The message is still to be moved, and its snapshot does not exist.
CannotMove(v) == ~projected[v] /\ Missing(v)

\* Both steps, skipping the ones an earlier pass has done; then completed.
CompleteRecovery(v) ==
  /\ AlarmFree /\ row[v] = "pending" /\ agree[v] /\ ~CannotMove(v)
  /\ IF projected[v] THEN UNCHANGED mail ELSE MoveAcceptedOutboundToSent(v)
  /\ IF consumed[v] THEN UNCHANGED drafts ELSE ConsumeDraftVersion(v)
  /\ row' = [row EXCEPT ![v] = "completed"]
  /\ projected' = [projected EXCEPT ![v] = TRUE]
  /\ consumed' = [consumed EXCEPT ![v] = TRUE]
  /\ UNCHANGED <<ledger, tries, inline, cancelling, retries, events>>

\* Mutant: a recovery that fails too often is closed instead of parked.
DeferAndClose(v) ==
  IF tries[v] + 1 >= MaxTries
    THEN row' = [row EXCEPT ![v] = "completed"] /\ UNCHANGED tries
    ELSE tries' = [tries EXCEPT ![v] = @ + 1] /\ UNCHANGED row

\* #deferOutboundAcceptanceRecovery and #parkOutboundAcceptanceRecovery.
Defer(v) ==
  IF tries[v] + 1 >= MaxTries
    THEN row' = [row EXCEPT ![v] = "parked"] /\ UNCHANGED tries
    ELSE tries' = [tries EXCEPT ![v] = @ + 1] /\ UNCHANGED row

\* "snapshot_missing" is for an operator.
ParkMissing(v) ==
  /\ AlarmFree /\ row[v] = "pending" /\ agree[v] /\ CannotMove(v)
  /\ row' = [row EXCEPT ![v] = "parked"]
  /\ UNCHANGED <<drafts, ledger, mail, projected, consumed, tries, inline, cancelling,
                 retries, events>>

\* The move throws (moved = FALSE), or the consumption after it does.
RecoveryThrows(v, moved) ==
  /\ AlarmFree /\ row[v] = "pending" /\ agree[v] /\ ~CannotMove(v)
  /\ IF moved THEN ~consumed[v] ELSE ~projected[v]
  /\ IF moved /\ ~projected[v] THEN MoveAcceptedOutboundToSent(v) ELSE UNCHANGED mail
  /\ projected' = [projected EXCEPT ![v] = @ \/ moved]
  /\ Defer(v)
  /\ UNCHANGED <<drafts, ledger, consumed, inline, cancelling, retries, events>>

\* recoverParkedOutboundAcceptance: the operator releases a parked row.
RecoverParked(v) ==
  /\ row[v] = "parked"
  /\ row' = [row EXCEPT ![v] = "pending"]
  /\ tries' = [tries EXCEPT ![v] = 0]
  /\ UNCHANGED <<drafts, ledger, mail, projected, consumed, inline, cancelling, retries, events>>

-----------------------------------------------------------------------------
(* Cancellation: the snapshot is retired, its text stays a draft.          *)

\* #completeCancelledOutboundRecovery.
CompleteCancellation(v) == ctries' = [ctries EXCEPT ![v] = 0]

Retire(v) ==
  /\ folder' = [folder EXCEPT ![v] = "retired"]
  /\ prev' = [prev EXCEPT ![v] = "none"]
  /\ UNCHANGED putBack

\* planCancelledOutboundRecovery: sourceDraftMatchesSnapshot compares version
\* and contents; "same" is the answer about the contents.
Equivalent(v, same) == InDrafts(v) /\ same

\* Mutant: any draft of the same message counts as the source of the snapshot.
RecoverFromAnyDraft(a, v, same) ==
  IF folder[v] = "retired"
    THEN CompleteCancellation(v) /\ UNCHANGED <<mail, copying, reco>>
    ELSE IF draft = "drafts" \/ reco[v] = "draft"
    THEN CompleteCancellation(v) /\ Retire(v) /\ UNCHANGED <<copying, reco>>
    ELSE copying' = [copying EXCEPT ![a] = v] /\ UNCHANGED <<mail, ctries, reco>>

\* #recoverCancelledOutboundSnapshot up to its first await: nothing to do, or
\* the source draft keeps the text, or the attachments must be copied.
RecoverSnapshot(a, v, same) ==
  IF folder[v] = "retired"
    THEN CompleteCancellation(v) /\ UNCHANGED <<mail, copying, reco>>
    ELSE IF Equivalent(v, same) \/ reco[v] = "draft"
    THEN CompleteCancellation(v) /\ Retire(v) /\ UNCHANGED <<copying, reco>>
    ELSE copying' = [copying EXCEPT ![a] = v] /\ UNCHANGED <<mail, ctries, reco>>

\* service.cancel of a retry restores the outcome before the retry.
CancelRetry(v) ==
  /\ status[v] = "queued" /\ retry[v]
  /\ status' = [status EXCEPT ![v] = "resting"]
  /\ retry' = [retry EXCEPT ![v] = FALSE]
  /\ agree' = [agree EXCEPT ![v] = FALSE]
  /\ UNCHANGED <<drafts, amb, acc, mail, recovery, inline, cancelling, retries, events>>

\* cancelOutboundDelivery: the cancellation commits and the recovery starts, or
\* runs again for a delivery that is cancelled already.
Cancel(a, v, same) ==
  /\ copying[a] = Idle
  /\ \/ status[v] = "queued" /\ ~retry[v]
     \/ status[v] = "cancelled"
  /\ status' = [status EXCEPT ![v] = "cancelled"]
  /\ RecoverSnapshot(a, v, same)
  /\ UNCHANGED <<drafts, retry, amb, acc, agree, recovery, inline, retries, events>>

\* Mutant: the lane only takes recoveries that have not failed yet.
AlarmRecoversFirst(v, same) ==
  /\ AlarmFree
  /\ status[v] = "cancelled" /\ folder[v] = "outbox" /\ ctries[v] = 0
  /\ RecoverSnapshot(Alarm, v, same)
  /\ UNCHANGED <<drafts, ledger, recovery, inline, retries, events>>

\* listPendingCancellationRecovery: only what is in the Outbox and not parked.
AlarmRecovers(v, same) ==
  /\ AlarmFree
  /\ status[v] = "cancelled" /\ folder[v] = "outbox" /\ ctries[v] < MaxTries
  /\ RecoverSnapshot(Alarm, v, same)
  /\ UNCHANGED <<drafts, ledger, recovery, inline, retries, events>>

\* Mutant: the folder is not read again after the await.
FinishCopyUnchecked(a) ==
  /\ copying[a] # Idle
  /\ LET v == copying[a] IN
     Retire(v) /\ reco' = [reco EXCEPT ![v] = "draft"] /\ CompleteCancellation(v)
  /\ copying' = [copying EXCEPT ![a] = Idle]
  /\ UNCHANGED <<drafts, ledger, recovery, inline, retries, events>>

\* The copies exist: the draft is created and the snapshot retired, unless the
\* other actor was faster.
FinishCopy(a) ==
  /\ copying[a] # Idle
  /\ LET v == copying[a] IN
     /\ IF folder[v] = "retired" THEN UNCHANGED <<mail, reco>>
        ELSE Retire(v) /\ reco' = [reco EXCEPT ![v] = "draft"]
     /\ CompleteCancellation(v)
  /\ copying' = [copying EXCEPT ![a] = Idle]
  /\ UNCHANGED <<drafts, ledger, recovery, inline, retries, events>>

\* #deferCancelledOutboundRecovery: R2 failed, or the copies' ownership was retired.
FailCopy(a) ==
  /\ copying[a] # Idle
  /\ ctries' = [ctries EXCEPT ![copying[a]] = IF @ < MaxTries THEN @ + 1 ELSE @]
  /\ copying' = [copying EXCEPT ![a] = Idle]
  /\ UNCHANGED <<drafts, ledger, mail, recovery, inline, reco, retries, events>>

\* The object is evicted: whatever awaited R2 or the alarm's storage is gone.
Evict ==
  /\ inline # {} \/ \E a \in Actors : copying[a] # Idle
  /\ copying' = [a \in Actors |-> Idle] /\ inline' = {}
  /\ UNCHANGED <<drafts, ledger, mail, recovery, ctries, reco, retries, events>>

\* The user discards the draft that the recovery made.
DiscardRecovered(v) ==
  /\ reco[v] = "draft" /\ reco' = [reco EXCEPT ![v] = "gone"]
  /\ UNCHANGED <<drafts, ledger, mail, recovery, inline, ctries, copying, retries, events>>

-----------------------------------------------------------------------------
(* The user files the snapshot.  Archiving and trashing a conversation, or *)
(* a selection, are the same steps; they refuse the Outbox and Drafts.     *)

\* Mutant: a cancelled delivery no longer protects its snapshot.
BlockedWhileOpen(v) ==
  \/ status[v] \in {"none", "queued", "sending"}
  \/ folder[v] = "retired"

\* outboundDeliveryBlocksGenericLifecycle; an internal folder is refused too.
Blocked(v) ==
  \/ status[v] \in {"none", "queued", "sending", "cancelled"}
  \/ folder[v] = "retired"

TrashEmail(v) ==
  /\ ~Blocked(v) /\ folder[v] \notin {"trash", "gone"}
  /\ folder' = [folder EXCEPT ![v] = "trash"]
  /\ prev' = [prev EXCEPT ![v] = folder[v]]
  /\ UNCHANGED <<drafts, ledger, putBack, recovery, inline, cancelling, retries, events>>

\* restoreEmail asks for no delivery status.
RestoreEmail(v) ==
  /\ folder[v] = "trash"
  /\ folder' = [folder EXCEPT ![v] = prev[v]]
  /\ prev' = [prev EXCEPT ![v] = "none"]
  /\ UNCHANGED <<drafts, ledger, putBack, recovery, inline, cancelling, retries, events>>

\* Any folder is a target but the internal one and Snoozed: the Outbox too.
MoveEmail(v, to) ==
  /\ ~Blocked(v) /\ folder[v] \notin {to, "gone"}
  /\ folder' = [folder EXCEPT ![v] = to]
  /\ prev' = [prev EXCEPT ![v] = IF folder[v] = "trash" THEN "none" ELSE @]
  /\ putBack' = [putBack EXCEPT ![v] = to = "outbox" /\ projected[v]]
  /\ UNCHANGED <<drafts, ledger, recovery, inline, cancelling, retries, events>>

\* A snapshot in Drafts is a draft like any other: discardDraft deletes it, and
\* asks for no delivery status.
DiscardSnapshot(v) ==
  /\ folder[v] = "other"
  /\ folder' = [folder EXCEPT ![v] = "gone"]
  /\ UNCHANGED <<drafts, ledger, prev, putBack, recovery, inline, cancelling, retries, events>>

-----------------------------------------------------------------------------
Ledger(v) ==
  \/ Enqueue(v) \/ Claim(v) \/ Requeue(v) \/ Retry(v) \/ CancelRetry(v)
  \/ \E lost \in BOOLEAN : ComeToRest(v, lost)

Acceptance(v) ==
  \/ \E n \in 0..2 : FinalizeAccepted(v, n)
  \/ \E s \in {"sent", "resting"}, settled, goesOn \in BOOLEAN :
       RecordAcceptance(v, s, settled, goesOn)
  \/ \E n \in 0..2 : ProjectInline(v, n)
  \/ RecoverParked(v)

RecoveryPass(v) ==
  \/ \E s \in {"sent", "resting"} : RepairDelivery(v, s)
  \/ CompleteRecovery(v) \/ ParkMissing(v)
  \/ \E moved \in BOOLEAN : RecoveryThrows(v, moved)

Cancellation(v) ==
  \/ \E a \in Requests, same \in BOOLEAN : Cancel(a, v, same)
  \/ \E same \in BOOLEAN : AlarmRecovers(v, same)
  \/ DiscardRecovered(v)

CopyEnds(a) == FinishCopy(a) \/ FailCopy(a)

Lifecycle(v) ==
  \/ TrashEmail(v) \/ RestoreEmail(v) \/ DiscardSnapshot(v)
  \/ \E to \in {"outbox", "sent", "other"} : MoveEmail(v, to)

Next ==
  \/ EditDraft \/ DiscardDraft \/ FileDraft \/ Evict
  \/ \E a \in Actors : CopyEnds(a)
  \/ \E v \in Versions : Ledger(v) \/ Acceptance(v) \/ RecoveryPass(v)
                         \/ Cancellation(v) \/ Lifecycle(v)

Spec == Init /\ [][Next]_vars

(***************************************************************************)
(* Fairness.  An alarm that throws or is lost to an eviction is run again  *)
(* by the platform, and every lane that has due rows re-arms it, so a due  *)
(* row is processed again and again; SF because an eviction or the copy of *)
(* another row may stand between.  Requests and users owe nothing.         *)
(***************************************************************************)
Fairness ==
  /\ \A v \in Versions : SF_vars(RecoveryPass(v))
  /\ \A v \in Versions : SF_vars(\E same \in BOOLEAN : AlarmRecovers(v, same))
  /\ SF_vars(CopyEnds(Alarm))

FairSpec == Spec /\ Fairness

-----------------------------------------------------------------------------
(* Properties.                                                             *)

\* Only what was enqueued has a snapshot, and only old versions were enqueued.
EnqueuedInv(v) ==
  /\ status[v] = "none" <=> folder[v] = "none"
  /\ status[v] # "none" => v <= version
  /\ status[v] = "none" => ~retry[v]

\* Trash alone remembers where a message came from; only a cancelled snapshot is
\* retired, and its recovered draft appears with the retirement.
FolderInv(v) ==
  /\ folder[v] = "trash" <=> prev[v] # "none"
  /\ prev[v] \in {"none", "outbox", "sent", "other"}
  /\ folder[v] = "retired" => status[v] = "cancelled"
  /\ reco[v] # "none" => folder[v] = "retired"

\* A delivery that has never come to rest is where enqueue put it, and SES
\* cannot have accepted it unless its request is out; a cancelled one likewise.
FirstFlightInv(v) ==
  /\ status[v] \in {"none", "queued", "sending", "cancelled"} /\ ~retry[v] =>
       ~acc[v] /\ ~amb[v] /\ folder[v] \in {"none", "outbox", "retired"}
  /\ status[v] = "cancelled" => ~retry[v]
  /\ status[v] = "sending" => ~acc[v]

\* Every accepted delivery has a recovery row, and the row's marks are true but
\* for what the user did: put the snapshot back into the Outbox, or had the draft
\* in another folder when it was to be consumed.
RowInv(v) ==
  /\ row[v] = "none" <=> ~acc[v]
  /\ v \in inline => acc[v]
  /\ projected[v] => acc[v] /\ (putBack[v] \/ (folder[v] # "outbox" /\ prev[v] # "outbox"))
  /\ consumed[v] => acc[v]
  /\ consumed[v] /\ version = v /\ draft \in {"drafts", "away"} => kept
  /\ row[v] = "completed" => projected[v] /\ consumed[v]

\* Only cancelled snapshots are copied.
CopyInv == \A a \in Actors : copying[a] # Idle => status[copying[a]] = "cancelled"

\* The bookkeeping the deliveries, the snapshots, the recovery rows and the
\* copies in flight owe each other, in every state between two transactions.
ProjectionInv ==
  /\ TypeOK
  /\ \A v \in Versions : EnqueuedInv(v) /\ FolderInv(v) /\ FirstFlightInv(v) /\ RowInv(v)
  /\ CopyInv

\* The snapshot has left the Outbox, and nothing but a move of the user's can
\* take it back there: it is where the user reads it, or the user discarded it.
Filed(f, p) == f \in {"sent", "other", "trash", "gone"} /\ p # "outbox"

\* listPendingCancellationRecovery only looks into the Outbox: a cancelled
\* delivery whose snapshot the user had filed elsewhere would never be
\* recovered.  The guard of the generic lifecycle and the remembered origin of
\* a manual retry together exclude it.
CancelledIsReachable ==
  \A v \in Versions : status[v] = "cancelled" => folder[v] \in {"outbox", "retired"}

\* What the system calls cancelled, and hides from the user, was not accepted
\* by SES and cannot be any more.
CancelledWasNeverSent ==
  \A v \in Versions :
    status[v] = "cancelled" \/ folder[v] = "retired" => ~acc[v] /\ ~amb[v]

\* A completed recovery row means what it says, whatever was trashed, restored,
\* thrown or learnt again meanwhile: the accepted message is out of the Outbox
\* and would not be restored to it, unless the user moved it there afterwards,
\* and its draft version is gone from Drafts, unless the user had that version
\* in another folder when it was to be consumed and has brought it back.
CompletedIsDone ==
  \A v \in Versions :
    row[v] = "completed" =>
      /\ acc[v]
      /\ Filed(folder[v], prev[v]) \/ putBack[v]
      /\ InDrafts(v) => kept

\* The draft is consumed only when exactly the version that is in Drafts was
\* accepted, and never before its message was filed: it is out of the Outbox, or
\* the user has put it back there or discarded it since.
ConsumedIsSent ==
  [][draft = "drafts" /\ draft' = "consumed" =>
       acc'[version] /\ (Filed(folder'[version], prev'[version]) \/ putBack'[version])]_vars

\* A snapshot is retired only while its text is an editable draft: the source
\* draft in the version that was sent, or the recovered one.
RetiredTextIsADraft ==
  [][\A v \in Versions :
       folder[v] # "retired" /\ folder'[v] = "retired" =>
         (draft' = "drafts" /\ version' = v) \/ reco'[v] = "draft"]_vars

\* Two recoveries of one cancellation (the request and the alarm) make one
\* draft: what the user has discarded does not come back.
NoResurrection ==
  [][\A v \in Versions : reco[v] = "gone" => reco'[v] = "gone"]_vars

\* An accepted message leaves the Outbox, or its recovery waits for an operator;
\* one that the user puts back there afterwards has been filed before.
AcceptedIsFiled ==
  \A v \in Versions :
    acc[v] ~> (Filed(folder[v], prev[v]) \/ putBack[v] \/ row[v] = "parked")

\* A cancellation is carried out, or its recovery waits for an explicit repair.
CancellationSettles ==
  \A v \in Versions :
    status[v] = "cancelled" ~> (folder[v] = "retired" \/ ctries[v] = MaxTries)
=============================================================================
