---------------------- MODULE OutboundProjectionProofs ----------------------
(***************************************************************************)
(* The bookkeeping of OutboundProjection is inductive; cancelled messages  *)
(* were never sent and stay reachable, completed recoveries are done, and  *)
(* drafts are consumed and snapshots retired without losing text.          *)
(***************************************************************************)
EXTENDS OutboundProjection, TLAPS

-----------------------------------------------------------------------------
(* What the shared parts of the actions do, version by version.            *)

\* Nothing, the move from the Outbox, or the correction of where Trash restores to.
MailMoves(v) ==
  /\ folder' \in [Versions -> Folders] /\ prev' \in [Versions -> Folders]
  /\ putBack' \in [Versions -> BOOLEAN]
  /\ \A w \in Versions :
       \/ folder'[w] = folder[w] /\ prev'[w] = prev[w] /\ putBack'[w] = putBack[w]
       \/ w = v /\ folder[w] = "outbox" /\ folder'[w] = "sent" /\ prev'[w] = prev[w]
       \/ w = v /\ folder[w] # "outbox" /\ folder'[w] = folder[w]
          /\ prev'[w] = (IF prev[w] = "outbox" THEN "sent" ELSE prev[w])

\* Nothing, the consumption of version v, or the answer that it is elsewhere.
DraftMoves(v) ==
  /\ version' = version /\ kept' \in BOOLEAN /\ (kept => kept')
  /\ draft' = draft \/ (InDrafts(v) /\ draft' = "consumed")

\* Nothing, a copy that starts, or a snapshot that is retired.
SnapshotMoves(a, v) ==
  /\ folder' \in [Versions -> Folders] /\ prev' \in [Versions -> Folders]
  /\ ctries' \in [Versions -> 0..MaxTries]
  /\ copying' \in [Actors -> Versions \cup {Idle}] /\ reco' = reco /\ putBack' = putBack
  /\ \A w \in Versions :
       \/ folder'[w] = folder[w] /\ prev'[w] = prev[w]
       \/ w = v /\ folder'[w] = "retired" /\ prev'[w] = "none"
  /\ \A b \in Actors : copying'[b] = copying[b] \/ copying'[b] = v

\* #moveAcceptedOutboundToSent files the message for good.
LEMMA MoveFacts ==
  ASSUME TypeOK, NEW v \in Versions, MoveAcceptedOutboundToSent(v)
  PROVE  MailMoves(v) /\ folder'[v] # "outbox"
         /\ (FolderInv(v) => prev'[v] # "outbox")
<1>1. /\ folder' \in [Versions -> Folders] /\ prev' \in [Versions -> Folders]
      /\ putBack' \in [Versions -> BOOLEAN]
  BY DEF TypeOK, MoveAcceptedOutboundToSent, Folders
<1>2. ASSUME NEW w \in Versions
      PROVE  /\ folder'[w] = (IF w = v /\ folder[w] = "outbox" THEN "sent" ELSE folder[w])
             /\ prev'[w] = (IF w = v /\ prev[w] = "outbox" /\ folder[w] # "outbox"
                             THEN "sent" ELSE prev[w])
             /\ putBack'[w] = (IF w = v THEN FALSE ELSE putBack[w])
  BY DEF TypeOK, MoveAcceptedOutboundToSent
<1>3. MailMoves(v)
  BY <1>1, <1>2 DEF MailMoves
<1>4. folder'[v] # "outbox" /\ (FolderInv(v) => prev'[v] # "outbox")
  BY <1>2 DEF FolderInv
<1>. QED BY <1>3, <1>4

\* A step without the move leaves the mail as it is.
LEMMA NoMoveFacts ==
  ASSUME TypeOK, NEW v \in Versions, UNCHANGED mail
  PROVE  MailMoves(v)
BY DEF TypeOK, mail, MailMoves

\* consumeDraftVersion takes the draft in the given version only, or answers that
\* the user keeps it elsewhere.
LEMMA ConsumeFacts ==
  ASSUME TypeOK, NEW v \in Versions, ConsumeDraftVersion(v)
  PROVE  DraftMoves(v) /\ (version = v /\ draft' \in {"drafts", "away"} => kept')
BY DEF TypeOK, ConsumeDraftVersion, DraftMoves, InDrafts

\* A step without the consumption leaves the draft as it is.
LEMMA NoConsumeFacts ==
  ASSUME TypeOK, NEW v \in Versions, UNCHANGED drafts
  PROVE  DraftMoves(v)
BY DEF TypeOK, drafts, DraftMoves

\* The projection, however far it gets.
LEMMA ProjectFacts ==
  ASSUME TypeOK, NEW v \in Versions, NEW n \in 0..2, Project(v, n)
  PROVE  MailMoves(v) /\ DraftMoves(v)
BY MoveFacts, NoMoveFacts, ConsumeFacts, NoConsumeFacts DEF Project

\* #recoverCancelledOutboundSnapshot up to its await.
LEMMA RecoverFacts ==
  ASSUME TypeOK, NEW a \in Actors, NEW v \in Versions, NEW same \in BOOLEAN,
         RecoverSnapshot(a, v, same)
  PROVE  SnapshotMoves(a, v)
<1>. USE ConstantsAssumption DEF TypeOK, SnapshotMoves, Folders
<1>1. CASE folder[v] = "retired"
  BY <1>1 DEF RecoverSnapshot, CompleteCancellation, mail
<1>2. CASE folder[v] # "retired" /\ (Equivalent(v, same) \/ reco[v] = "draft")
  BY <1>2 DEF RecoverSnapshot, CompleteCancellation, Retire
<1>3. CASE folder[v] # "retired" /\ ~(Equivalent(v, same) \/ reco[v] = "draft")
  BY <1>3 DEF RecoverSnapshot, mail
<1>. QED BY <1>1, <1>2, <1>3

-----------------------------------------------------------------------------
(* Every action preserves the invariant.                                   *)


\* EditDraft preserves the invariant.
LEMMA EditDraftStep ==
  ASSUME ProjectionInv, EditDraft
  PROVE  ProjectionInv'
<1>. USE ConstantsAssumption DEF Versions, Actors, Alarm, Idle
<1>1. TypeOK'
  <2>1. kept' \in BOOLEAN
    BY DEF EditDraft
  <2>2. version' \in Versions /\ draft' = draft
    BY DEF ProjectionInv, TypeOK, EditDraft
  <2>. QED BY <2>1, <2>2 DEF ProjectionInv, TypeOK, EditDraft, ledger, mail, recovery, cancelling
<1>2. ASSUME NEW w \in Versions PROVE EnqueuedInv(w)' /\ FolderInv(w)'
  BY DEF ProjectionInv, TypeOK, Statuses, Folders, EnqueuedInv, FolderInv, FirstFlightInv, RowInv, CopyInv, EditDraft, drafts, ledger, mail, recovery, cancelling
<1>3. ASSUME NEW w \in Versions PROVE FirstFlightInv(w)'
  BY DEF ProjectionInv, TypeOK, Statuses, Folders, EnqueuedInv, FolderInv, FirstFlightInv, RowInv, CopyInv, EditDraft, drafts, ledger, mail, recovery, cancelling
<1>4. ASSUME NEW w \in Versions PROVE RowInv(w)'
  BY DEF ProjectionInv, TypeOK, Statuses, Folders, Rows, EnqueuedInv, FolderInv, FirstFlightInv, RowInv, InDrafts, EditDraft, drafts, ledger, mail, recovery, cancelling
<1>5. CopyInv'
  BY DEF ProjectionInv, TypeOK, Statuses, CopyInv, FirstFlightInv, RowInv, EditDraft, drafts, ledger, mail, recovery, cancelling
<1>. QED BY <1>1, <1>2, <1>3, <1>4, <1>5 DEF ProjectionInv

\* DiscardDraft preserves the invariant.
LEMMA DiscardDraftStep ==
  ASSUME ProjectionInv, DiscardDraft
  PROVE  ProjectionInv'
<1>. USE ConstantsAssumption DEF Versions, Actors, Alarm, Idle
<1>1. TypeOK'
  BY DEF ProjectionInv, TypeOK, Statuses, Folders, Rows, DiscardDraft, drafts, ledger, mail, recovery, cancelling
<1>2. ASSUME NEW w \in Versions PROVE EnqueuedInv(w)' /\ FolderInv(w)'
  BY DEF ProjectionInv, TypeOK, Statuses, Folders, EnqueuedInv, FolderInv, FirstFlightInv, RowInv, CopyInv, DiscardDraft, drafts, ledger, mail, recovery, cancelling
<1>3. ASSUME NEW w \in Versions PROVE FirstFlightInv(w)'
  BY DEF ProjectionInv, TypeOK, Statuses, Folders, EnqueuedInv, FolderInv, FirstFlightInv, RowInv, CopyInv, DiscardDraft, drafts, ledger, mail, recovery, cancelling
<1>4. ASSUME NEW w \in Versions PROVE RowInv(w)'
  BY DEF ProjectionInv, TypeOK, Statuses, Folders, Rows, EnqueuedInv, FolderInv, FirstFlightInv, RowInv, InDrafts, DiscardDraft, drafts, ledger, mail, recovery, cancelling
<1>5. CopyInv'
  BY DEF ProjectionInv, TypeOK, Statuses, CopyInv, FirstFlightInv, RowInv, DiscardDraft, drafts, ledger, mail, recovery, cancelling
<1>. QED BY <1>1, <1>2, <1>3, <1>4, <1>5 DEF ProjectionInv

\* FileDraft preserves the invariant.
LEMMA FileDraftStep ==
  ASSUME ProjectionInv, FileDraft
  PROVE  ProjectionInv'
<1>. USE ConstantsAssumption DEF Versions, Actors, Alarm, Idle
<1>1. TypeOK'
  BY DEF ProjectionInv, TypeOK, Statuses, Folders, Rows, FileDraft, drafts, ledger, mail, recovery, cancelling
<1>2. ASSUME NEW w \in Versions PROVE EnqueuedInv(w)' /\ FolderInv(w)'
  BY DEF ProjectionInv, TypeOK, Statuses, Folders, EnqueuedInv, FolderInv, FirstFlightInv, RowInv, CopyInv, FileDraft, drafts, ledger, mail, recovery, cancelling
<1>3. ASSUME NEW w \in Versions PROVE FirstFlightInv(w)'
  BY DEF ProjectionInv, TypeOK, Statuses, Folders, EnqueuedInv, FolderInv, FirstFlightInv, RowInv, CopyInv, FileDraft, drafts, ledger, mail, recovery, cancelling
<1>4. ASSUME NEW w \in Versions PROVE RowInv(w)'
  BY DEF ProjectionInv, TypeOK, Statuses, Folders, Rows, EnqueuedInv, FolderInv, FirstFlightInv, RowInv, InDrafts, FileDraft, drafts, ledger, mail, recovery, cancelling
<1>5. CopyInv'
  BY DEF ProjectionInv, TypeOK, Statuses, CopyInv, FirstFlightInv, RowInv, FileDraft, drafts, ledger, mail, recovery, cancelling
<1>. QED BY <1>1, <1>2, <1>3, <1>4, <1>5 DEF ProjectionInv

\* Evict preserves the invariant.
LEMMA EvictStep ==
  ASSUME ProjectionInv, Evict
  PROVE  ProjectionInv'
<1>. USE ConstantsAssumption DEF Versions, Actors, Alarm, Idle
<1>1. TypeOK'
  BY DEF ProjectionInv, TypeOK, Statuses, Folders, Rows, Evict, drafts, ledger, mail, recovery, cancelling
<1>2. ASSUME NEW w \in Versions PROVE EnqueuedInv(w)' /\ FolderInv(w)'
  BY DEF ProjectionInv, TypeOK, Statuses, Folders, EnqueuedInv, FolderInv, FirstFlightInv, RowInv, CopyInv, Evict, drafts, ledger, mail, recovery, cancelling
<1>3. ASSUME NEW w \in Versions PROVE FirstFlightInv(w)'
  BY DEF ProjectionInv, TypeOK, Statuses, Folders, EnqueuedInv, FolderInv, FirstFlightInv, RowInv, CopyInv, Evict, drafts, ledger, mail, recovery, cancelling
<1>4. ASSUME NEW w \in Versions PROVE RowInv(w)'
  BY DEF ProjectionInv, TypeOK, Statuses, Folders, Rows, EnqueuedInv, FolderInv, FirstFlightInv, RowInv, InDrafts, Evict, drafts, ledger, mail, recovery, cancelling
<1>5. CopyInv'
  BY DEF ProjectionInv, TypeOK, Statuses, CopyInv, FirstFlightInv, RowInv, Evict, drafts, ledger, mail, recovery, cancelling
<1>. QED BY <1>1, <1>2, <1>3, <1>4, <1>5 DEF ProjectionInv

\* FinishCopy preserves the invariant.
LEMMA FinishCopyStep ==
  ASSUME ProjectionInv, NEW a \in Actors, FinishCopy(a)
  PROVE  ProjectionInv'
<1>. USE ConstantsAssumption DEF Versions, Actors, Alarm, Idle
<1>0. copying[a] \in Versions /\ status[copying[a]] = "cancelled"
  BY DEF ProjectionInv, TypeOK, CopyInv, FinishCopy
<1>1. TypeOK'
  <2>1. CASE folder[copying[a]] = "retired"
    <3>1. ctries' \in [Versions -> 0..MaxTries] /\ copying' \in [Actors -> Versions \cup {Idle}]
      BY <1>0 DEF ProjectionInv, TypeOK, FinishCopy, CompleteCancellation
    <3>2. mail' = mail /\ reco' = reco
      BY <2>1 DEF FinishCopy, mail
    <3>. QED BY <3>1, <3>2 DEF ProjectionInv, TypeOK, FinishCopy, drafts, ledger, mail, recovery
  <2>2. CASE folder[copying[a]] # "retired"
    <3>0. PICK v \in Versions : v = copying[a]
      BY <1>0
    <3>a. Retire(v) /\ reco' = [reco EXCEPT ![v] = "draft"] /\ CompleteCancellation(v)
      BY <2>2, <3>0 DEF FinishCopy
    <3>1. folder' \in [Versions -> Folders] /\ prev' \in [Versions -> Folders] /\ putBack' = putBack
      BY <3>a DEF ProjectionInv, TypeOK, Folders, Retire
    <3>2. reco' \in [Versions -> {"none", "draft", "gone"}] /\ ctries' \in [Versions -> 0..MaxTries]
      BY <3>a DEF ProjectionInv, TypeOK, CompleteCancellation
    <3>3. copying' \in [Actors -> Versions \cup {Idle}]
      BY DEF ProjectionInv, TypeOK, FinishCopy
    <3>. QED BY <3>1, <3>2, <3>3 DEF ProjectionInv, TypeOK, FinishCopy, drafts, ledger, recovery
  <2>. QED BY <2>1, <2>2
<1>2. ASSUME NEW w \in Versions PROVE EnqueuedInv(w)' /\ FolderInv(w)'
  BY DEF ProjectionInv, TypeOK, Statuses, Folders, EnqueuedInv, FolderInv, FirstFlightInv, RowInv, CopyInv, FinishCopy, Retire, CompleteCancellation, drafts, ledger, mail, recovery, cancelling
<1>3. ASSUME NEW w \in Versions PROVE FirstFlightInv(w)'
  BY DEF ProjectionInv, TypeOK, Statuses, Folders, EnqueuedInv, FolderInv, FirstFlightInv, RowInv, CopyInv, FinishCopy, Retire, CompleteCancellation, drafts, ledger, mail, recovery, cancelling
<1>4. ASSUME NEW w \in Versions PROVE RowInv(w)'
  BY DEF ProjectionInv, TypeOK, Statuses, Folders, Rows, EnqueuedInv, FolderInv, FirstFlightInv, RowInv, InDrafts, FinishCopy, Retire, CompleteCancellation, drafts, ledger, mail, recovery, cancelling
<1>5. CopyInv'
  BY DEF ProjectionInv, TypeOK, Statuses, CopyInv, FirstFlightInv, RowInv, FinishCopy, Retire, CompleteCancellation, drafts, ledger, mail, recovery, cancelling
<1>. QED BY <1>1, <1>2, <1>3, <1>4, <1>5 DEF ProjectionInv

\* FailCopy preserves the invariant.
LEMMA FailCopyStep ==
  ASSUME ProjectionInv, NEW a \in Actors, FailCopy(a)
  PROVE  ProjectionInv'
<1>. USE ConstantsAssumption DEF Versions, Actors, Alarm, Idle
<1>1. TypeOK'
  BY DEF ProjectionInv, TypeOK, Statuses, Folders, Rows, FailCopy, drafts, ledger, mail, recovery, cancelling
<1>2. ASSUME NEW w \in Versions PROVE EnqueuedInv(w)' /\ FolderInv(w)'
  BY DEF ProjectionInv, TypeOK, Statuses, Folders, EnqueuedInv, FolderInv, FirstFlightInv, RowInv, CopyInv, FailCopy, drafts, ledger, mail, recovery, cancelling
<1>3. ASSUME NEW w \in Versions PROVE FirstFlightInv(w)'
  BY DEF ProjectionInv, TypeOK, Statuses, Folders, EnqueuedInv, FolderInv, FirstFlightInv, RowInv, CopyInv, FailCopy, drafts, ledger, mail, recovery, cancelling
<1>4. ASSUME NEW w \in Versions PROVE RowInv(w)'
  BY DEF ProjectionInv, TypeOK, Statuses, Folders, Rows, EnqueuedInv, FolderInv, FirstFlightInv, RowInv, InDrafts, FailCopy, drafts, ledger, mail, recovery, cancelling
<1>5. CopyInv'
  BY DEF ProjectionInv, TypeOK, Statuses, CopyInv, FirstFlightInv, RowInv, FailCopy, drafts, ledger, mail, recovery, cancelling
<1>. QED BY <1>1, <1>2, <1>3, <1>4, <1>5 DEF ProjectionInv

\* Enqueue preserves the invariant.
LEMMA EnqueueStep ==
  ASSUME ProjectionInv, NEW v \in Versions, Enqueue(v)
  PROVE  ProjectionInv'
<1>. USE ConstantsAssumption DEF Versions, Actors, Alarm, Idle
<1>1. TypeOK'
  BY DEF ProjectionInv, TypeOK, Statuses, Folders, Rows, Enqueue, drafts, ledger, mail, recovery, cancelling
<1>2. ASSUME NEW w \in Versions PROVE EnqueuedInv(w)' /\ FolderInv(w)'
  <2>1. folder'[w] = (IF w = v THEN "outbox" ELSE folder[w]) /\ status'[w] = (IF w = v THEN "queued" ELSE status[w])
    BY DEF ProjectionInv, TypeOK, Enqueue
  <2>2. prev' = prev /\ retry' = retry /\ version' = version /\ reco' = reco
    BY DEF Enqueue, drafts, cancelling
  <2>. QED BY <2>1, <2>2 DEF ProjectionInv, TypeOK, EnqueuedInv, FolderInv, Enqueue, InDrafts
<1>3. ASSUME NEW w \in Versions PROVE FirstFlightInv(w)'
  BY DEF ProjectionInv, TypeOK, Statuses, Folders, EnqueuedInv, FolderInv, FirstFlightInv, RowInv, CopyInv, Enqueue, drafts, ledger, mail, recovery, cancelling
<1>4. ASSUME NEW w \in Versions PROVE RowInv(w)'
  BY DEF ProjectionInv, TypeOK, Statuses, Folders, Rows, EnqueuedInv, FolderInv, FirstFlightInv, RowInv, InDrafts, Enqueue, drafts, ledger, mail, recovery, cancelling
<1>5. CopyInv'
  BY DEF ProjectionInv, TypeOK, Statuses, CopyInv, FirstFlightInv, RowInv, Enqueue, drafts, ledger, mail, recovery, cancelling
<1>. QED BY <1>1, <1>2, <1>3, <1>4, <1>5 DEF ProjectionInv

\* Claim preserves the invariant.
LEMMA ClaimStep ==
  ASSUME ProjectionInv, NEW v \in Versions, Claim(v)
  PROVE  ProjectionInv'
<1>. USE ConstantsAssumption DEF Versions, Actors, Alarm, Idle
<1>1. TypeOK'
  BY DEF ProjectionInv, TypeOK, Statuses, Folders, Rows, Claim, drafts, ledger, mail, recovery, cancelling
<1>2. ASSUME NEW w \in Versions PROVE EnqueuedInv(w)' /\ FolderInv(w)'
  BY DEF ProjectionInv, TypeOK, Statuses, Folders, EnqueuedInv, FolderInv, FirstFlightInv, RowInv, CopyInv, Claim, drafts, ledger, mail, recovery, cancelling
<1>3. ASSUME NEW w \in Versions PROVE FirstFlightInv(w)'
  <2>1. CASE w = v
    <3>1. /\ acc[v] => status'[v] = "resting"
          /\ status'[v] = "resting" => acc[v] \/ folder[v] = "gone"
          /\ status'[v] \in {"resting", "sending"}
          /\ status'[v] = "sending" => retry'[v] = retry[v]
      BY DEF ProjectionInv, TypeOK, Claim, Missing
    <3>2. acc' = acc /\ amb' = amb /\ folder' = folder
      BY DEF Claim, mail
    <3>. QED BY <2>1, <3>1, <3>2 DEF ProjectionInv, FirstFlightInv, TypeOK, Claim
  <2>2. CASE w # v
    BY <2>2 DEF ProjectionInv, TypeOK, FirstFlightInv, Claim, mail
  <2>. QED BY <2>1, <2>2
<1>4. ASSUME NEW w \in Versions PROVE RowInv(w)'
  BY DEF ProjectionInv, TypeOK, Statuses, Folders, Rows, EnqueuedInv, FolderInv, FirstFlightInv, RowInv, InDrafts, Claim, drafts, ledger, mail, recovery, cancelling
<1>5. CopyInv'
  BY DEF ProjectionInv, TypeOK, Statuses, CopyInv, FirstFlightInv, RowInv, Claim, drafts, ledger, mail, recovery, cancelling
<1>. QED BY <1>1, <1>2, <1>3, <1>4, <1>5 DEF ProjectionInv

\* Requeue preserves the invariant.
LEMMA RequeueStep ==
  ASSUME ProjectionInv, NEW v \in Versions, Requeue(v)
  PROVE  ProjectionInv'
<1>. USE ConstantsAssumption DEF Versions, Actors, Alarm, Idle
<1>1. TypeOK'
  BY DEF ProjectionInv, TypeOK, Statuses, Folders, Rows, Requeue, drafts, ledger, mail, recovery, cancelling
<1>2. ASSUME NEW w \in Versions PROVE EnqueuedInv(w)' /\ FolderInv(w)'
  BY DEF ProjectionInv, TypeOK, Statuses, Folders, EnqueuedInv, FolderInv, FirstFlightInv, RowInv, CopyInv, Requeue, drafts, ledger, mail, recovery, cancelling
<1>3. ASSUME NEW w \in Versions PROVE FirstFlightInv(w)'
  BY DEF ProjectionInv, TypeOK, Statuses, Folders, EnqueuedInv, FolderInv, FirstFlightInv, RowInv, CopyInv, Requeue, drafts, ledger, mail, recovery, cancelling
<1>4. ASSUME NEW w \in Versions PROVE RowInv(w)'
  BY DEF ProjectionInv, TypeOK, Statuses, Folders, Rows, EnqueuedInv, FolderInv, FirstFlightInv, RowInv, InDrafts, Requeue, drafts, ledger, mail, recovery, cancelling
<1>5. CopyInv'
  BY DEF ProjectionInv, TypeOK, Statuses, CopyInv, FirstFlightInv, RowInv, Requeue, drafts, ledger, mail, recovery, cancelling
<1>. QED BY <1>1, <1>2, <1>3, <1>4, <1>5 DEF ProjectionInv

\* Retry preserves the invariant.
LEMMA RetryStep ==
  ASSUME ProjectionInv, NEW v \in Versions, Retry(v)
  PROVE  ProjectionInv'
<1>. USE ConstantsAssumption DEF Versions, Actors, Alarm, Idle
<1>1. TypeOK'
  BY DEF ProjectionInv, TypeOK, Statuses, Folders, Rows, Retry, drafts, ledger, mail, recovery, cancelling
<1>2. ASSUME NEW w \in Versions PROVE EnqueuedInv(w)' /\ FolderInv(w)'
  BY DEF ProjectionInv, TypeOK, Statuses, Folders, EnqueuedInv, FolderInv, FirstFlightInv, RowInv, CopyInv, Retry, drafts, ledger, mail, recovery, cancelling
<1>3. ASSUME NEW w \in Versions PROVE FirstFlightInv(w)'
  BY DEF ProjectionInv, TypeOK, Statuses, Folders, EnqueuedInv, FolderInv, FirstFlightInv, RowInv, CopyInv, Retry, drafts, ledger, mail, recovery, cancelling
<1>4. ASSUME NEW w \in Versions PROVE RowInv(w)'
  BY DEF ProjectionInv, TypeOK, Statuses, Folders, Rows, EnqueuedInv, FolderInv, FirstFlightInv, RowInv, InDrafts, Retry, drafts, ledger, mail, recovery, cancelling
<1>5. CopyInv'
  BY DEF ProjectionInv, TypeOK, Statuses, CopyInv, FirstFlightInv, RowInv, Retry, drafts, ledger, mail, recovery, cancelling
<1>. QED BY <1>1, <1>2, <1>3, <1>4, <1>5 DEF ProjectionInv

\* CancelRetry preserves the invariant.
LEMMA CancelRetryStep ==
  ASSUME ProjectionInv, NEW v \in Versions, CancelRetry(v)
  PROVE  ProjectionInv'
<1>. USE ConstantsAssumption DEF Versions, Actors, Alarm, Idle
<1>1. TypeOK'
  BY DEF ProjectionInv, TypeOK, Statuses, Folders, Rows, CancelRetry, drafts, ledger, mail, recovery, cancelling
<1>2. ASSUME NEW w \in Versions PROVE EnqueuedInv(w)' /\ FolderInv(w)'
  BY DEF ProjectionInv, TypeOK, Statuses, Folders, EnqueuedInv, FolderInv, FirstFlightInv, RowInv, CopyInv, CancelRetry, drafts, ledger, mail, recovery, cancelling
<1>3. ASSUME NEW w \in Versions PROVE FirstFlightInv(w)'
  BY DEF ProjectionInv, TypeOK, Statuses, Folders, EnqueuedInv, FolderInv, FirstFlightInv, RowInv, CopyInv, CancelRetry, drafts, ledger, mail, recovery, cancelling
<1>4. ASSUME NEW w \in Versions PROVE RowInv(w)'
  BY DEF ProjectionInv, TypeOK, Statuses, Folders, Rows, EnqueuedInv, FolderInv, FirstFlightInv, RowInv, InDrafts, CancelRetry, drafts, ledger, mail, recovery, cancelling
<1>5. CopyInv'
  BY DEF ProjectionInv, TypeOK, Statuses, CopyInv, FirstFlightInv, RowInv, CancelRetry, drafts, ledger, mail, recovery, cancelling
<1>. QED BY <1>1, <1>2, <1>3, <1>4, <1>5 DEF ProjectionInv

\* ComeToRest preserves the invariant.
LEMMA ComeToRestStep ==
  ASSUME ProjectionInv, NEW v \in Versions, NEW lost \in BOOLEAN, ComeToRest(v, lost)
  PROVE  ProjectionInv'
<1>. USE ConstantsAssumption DEF Versions, Actors, Alarm, Idle
<1>1. TypeOK'
  BY DEF ProjectionInv, TypeOK, Statuses, Folders, Rows, ComeToRest, drafts, ledger, mail, recovery, cancelling
<1>2. ASSUME NEW w \in Versions PROVE EnqueuedInv(w)' /\ FolderInv(w)'
  BY DEF ProjectionInv, TypeOK, Statuses, Folders, EnqueuedInv, FolderInv, FirstFlightInv, RowInv, CopyInv, ComeToRest, drafts, ledger, mail, recovery, cancelling
<1>3. ASSUME NEW w \in Versions PROVE FirstFlightInv(w)'
  BY DEF ProjectionInv, TypeOK, Statuses, Folders, EnqueuedInv, FolderInv, FirstFlightInv, RowInv, CopyInv, ComeToRest, drafts, ledger, mail, recovery, cancelling
<1>4. ASSUME NEW w \in Versions PROVE RowInv(w)'
  BY DEF ProjectionInv, TypeOK, Statuses, Folders, Rows, EnqueuedInv, FolderInv, FirstFlightInv, RowInv, InDrafts, ComeToRest, drafts, ledger, mail, recovery, cancelling
<1>5. CopyInv'
  BY DEF ProjectionInv, TypeOK, Statuses, CopyInv, FirstFlightInv, RowInv, ComeToRest, drafts, ledger, mail, recovery, cancelling
<1>. QED BY <1>1, <1>2, <1>3, <1>4, <1>5 DEF ProjectionInv

\* FinalizeAccepted preserves the invariant.
LEMMA FinalizeAcceptedStep ==
  ASSUME ProjectionInv, NEW v \in Versions, NEW n \in 0..2, FinalizeAccepted(v, n)
  PROVE  ProjectionInv'
<1>. USE ConstantsAssumption DEF Versions, Actors, Alarm, Idle
<1>0. MailMoves(v) /\ DraftMoves(v)
  BY ProjectFacts DEF ProjectionInv, FinalizeAccepted
<1>1. TypeOK'
  BY <1>0 DEF ProjectionInv, TypeOK, Statuses, Rows, FinalizeAccepted, ParkIfMissing, MailMoves, DraftMoves, ledger, recovery, cancelling
<1>2. ASSUME NEW w \in Versions PROVE EnqueuedInv(w)' /\ FolderInv(w)'
  <2>1. version' = version /\ reco' = reco /\ retry' = [retry EXCEPT ![v] = FALSE]
    BY <1>0 DEF FinalizeAccepted, DraftMoves, ledger, cancelling
  <2>2. (status'[w] = "none" <=> status[w] = "none") /\ (folder[w] = "retired" => status'[w] = status[w])
    BY <2>1 DEF ProjectionInv, TypeOK, FolderInv, FinalizeAccepted
  <2>. QED BY <1>0, <2>1, <2>2 DEF ProjectionInv, TypeOK, EnqueuedInv, FolderInv, MailMoves
<1>3. ASSUME NEW w \in Versions PROVE FirstFlightInv(w)'
  BY <1>0 DEF ProjectionInv, TypeOK, EnqueuedInv, FolderInv, FirstFlightInv, RowInv, FinalizeAccepted, MailMoves, DraftMoves, ledger
<1>4. ASSUME NEW w \in Versions PROVE RowInv(w)'
  BY <1>0 DEF ProjectionInv, TypeOK, FolderInv, FirstFlightInv, RowInv, FinalizeAccepted, ParkIfMissing, MailMoves, DraftMoves, ledger, recovery
<1>5. CopyInv'
  BY DEF ProjectionInv, TypeOK, CopyInv, FinalizeAccepted, ledger, cancelling
<1>. QED BY <1>1, <1>2, <1>3, <1>4, <1>5 DEF ProjectionInv

\* RecordAcceptance preserves the invariant.
LEMMA RecordAcceptanceStep ==
  ASSUME ProjectionInv, NEW v \in Versions, NEW s \in {"sent", "resting"}, NEW settled \in BOOLEAN, NEW goesOn \in BOOLEAN, RecordAcceptance(v, s, settled, goesOn)
  PROVE  ProjectionInv'
<1>. USE ConstantsAssumption DEF Versions, Actors, Alarm, Idle
<1>1. TypeOK'
  BY DEF ProjectionInv, TypeOK, Statuses, Folders, Rows, RecordAcceptance, drafts, ledger, mail, recovery, cancelling
<1>2. ASSUME NEW w \in Versions PROVE EnqueuedInv(w)' /\ FolderInv(w)'
  BY DEF ProjectionInv, TypeOK, Statuses, Folders, EnqueuedInv, FolderInv, FirstFlightInv, RowInv, CopyInv, RecordAcceptance, drafts, ledger, mail, recovery, cancelling
<1>3. ASSUME NEW w \in Versions PROVE FirstFlightInv(w)'
  BY DEF ProjectionInv, TypeOK, Statuses, Folders, EnqueuedInv, FolderInv, FirstFlightInv, RowInv, CopyInv, RecordAcceptance, drafts, ledger, mail, recovery, cancelling
<1>4. ASSUME NEW w \in Versions PROVE RowInv(w)'
  BY DEF ProjectionInv, TypeOK, Statuses, Folders, Rows, EnqueuedInv, FolderInv, FirstFlightInv, RowInv, InDrafts, RecordAcceptance, drafts, ledger, mail, recovery, cancelling
<1>5. CopyInv'
  BY DEF ProjectionInv, TypeOK, Statuses, CopyInv, FirstFlightInv, RowInv, RecordAcceptance, drafts, ledger, mail, recovery, cancelling
<1>. QED BY <1>1, <1>2, <1>3, <1>4, <1>5 DEF ProjectionInv

\* ProjectInline preserves the invariant.
LEMMA ProjectInlineStep ==
  ASSUME ProjectionInv, NEW v \in Versions, NEW n \in 0..2, ProjectInline(v, n)
  PROVE  ProjectionInv'
<1>. USE ConstantsAssumption DEF Versions, Actors, Alarm, Idle
<1>0. MailMoves(v) /\ DraftMoves(v)
  BY ProjectFacts DEF ProjectionInv, ProjectInline
<1>1. TypeOK'
  BY <1>0 DEF ProjectionInv, TypeOK, Statuses, Rows, ProjectInline, ParkIfMissing, MailMoves, DraftMoves, ledger, recovery, cancelling
<1>2. ASSUME NEW w \in Versions PROVE EnqueuedInv(w)' /\ FolderInv(w)'
  <2>1. version' = version /\ reco' = reco /\ status' = status /\ retry' = retry
    BY <1>0 DEF ProjectInline, DraftMoves, ledger, cancelling
  <2>2. (status'[w] = "none" <=> status[w] = "none") /\ (folder[w] = "retired" => status'[w] = status[w])
    BY <2>1 DEF ProjectionInv, TypeOK, FolderInv, ProjectInline
  <2>. QED BY <1>0, <2>1, <2>2 DEF ProjectionInv, TypeOK, EnqueuedInv, FolderInv, MailMoves
<1>3. ASSUME NEW w \in Versions PROVE FirstFlightInv(w)'
  BY <1>0 DEF ProjectionInv, TypeOK, EnqueuedInv, FolderInv, FirstFlightInv, RowInv, ProjectInline, MailMoves, DraftMoves, ledger
<1>4. ASSUME NEW w \in Versions PROVE RowInv(w)'
  <2>1. row'[w] = row[w] \/ (w = v /\ row'[w] = "parked")
    BY DEF ProjectionInv, TypeOK, ProjectInline, ParkIfMissing
  <2>2. acc[v] /\ acc' = acc /\ inline' \subseteq inline /\ projected' = projected /\ consumed' = consumed
    BY DEF ProjectionInv, RowInv, ProjectInline, ledger
  <2>. QED BY <1>0, <2>1, <2>2 DEF ProjectionInv, TypeOK, FolderInv, RowInv, MailMoves, DraftMoves
<1>5. CopyInv'
  BY DEF ProjectionInv, TypeOK, CopyInv, ProjectInline, ledger, cancelling
<1>. QED BY <1>1, <1>2, <1>3, <1>4, <1>5 DEF ProjectionInv

\* RecoverParked preserves the invariant.
LEMMA RecoverParkedStep ==
  ASSUME ProjectionInv, NEW v \in Versions, RecoverParked(v)
  PROVE  ProjectionInv'
<1>. USE ConstantsAssumption DEF Versions, Actors, Alarm, Idle
<1>1. TypeOK'
  BY DEF ProjectionInv, TypeOK, Statuses, Folders, Rows, RecoverParked, drafts, ledger, mail, recovery, cancelling
<1>2. ASSUME NEW w \in Versions PROVE EnqueuedInv(w)' /\ FolderInv(w)'
  BY DEF ProjectionInv, TypeOK, Statuses, Folders, EnqueuedInv, FolderInv, FirstFlightInv, RowInv, CopyInv, RecoverParked, drafts, ledger, mail, recovery, cancelling
<1>3. ASSUME NEW w \in Versions PROVE FirstFlightInv(w)'
  BY DEF ProjectionInv, TypeOK, Statuses, Folders, EnqueuedInv, FolderInv, FirstFlightInv, RowInv, CopyInv, RecoverParked, drafts, ledger, mail, recovery, cancelling
<1>4. ASSUME NEW w \in Versions PROVE RowInv(w)'
  BY DEF ProjectionInv, TypeOK, Statuses, Folders, Rows, EnqueuedInv, FolderInv, FirstFlightInv, RowInv, InDrafts, RecoverParked, drafts, ledger, mail, recovery, cancelling
<1>5. CopyInv'
  BY DEF ProjectionInv, TypeOK, Statuses, CopyInv, FirstFlightInv, RowInv, RecoverParked, drafts, ledger, mail, recovery, cancelling
<1>. QED BY <1>1, <1>2, <1>3, <1>4, <1>5 DEF ProjectionInv

\* RepairDelivery preserves the invariant.
LEMMA RepairDeliveryStep ==
  ASSUME ProjectionInv, NEW v \in Versions, NEW s \in {"sent", "resting"}, RepairDelivery(v, s)
  PROVE  ProjectionInv'
<1>. USE ConstantsAssumption DEF Versions, Actors, Alarm, Idle
<1>1. TypeOK'
  BY DEF ProjectionInv, TypeOK, Statuses, Folders, Rows, RepairDelivery, drafts, ledger, mail, recovery, cancelling
<1>2. ASSUME NEW w \in Versions PROVE EnqueuedInv(w)' /\ FolderInv(w)'
  BY DEF ProjectionInv, TypeOK, Statuses, Folders, EnqueuedInv, FolderInv, FirstFlightInv, RowInv, CopyInv, RepairDelivery, drafts, ledger, mail, recovery, cancelling
<1>3. ASSUME NEW w \in Versions PROVE FirstFlightInv(w)'
  BY DEF ProjectionInv, TypeOK, Statuses, Folders, EnqueuedInv, FolderInv, FirstFlightInv, RowInv, CopyInv, RepairDelivery, drafts, ledger, mail, recovery, cancelling
<1>4. ASSUME NEW w \in Versions PROVE RowInv(w)'
  BY DEF ProjectionInv, TypeOK, Statuses, Folders, Rows, EnqueuedInv, FolderInv, FirstFlightInv, RowInv, InDrafts, RepairDelivery, drafts, ledger, mail, recovery, cancelling
<1>5. CopyInv'
  BY DEF ProjectionInv, TypeOK, Statuses, CopyInv, FirstFlightInv, RowInv, RepairDelivery, drafts, ledger, mail, recovery, cancelling
<1>. QED BY <1>1, <1>2, <1>3, <1>4, <1>5 DEF ProjectionInv

\* CompleteRecovery preserves the invariant.
LEMMA CompleteRecoveryStep ==
  ASSUME ProjectionInv, NEW v \in Versions, CompleteRecovery(v)
  PROVE  ProjectionInv'
<1>. USE ConstantsAssumption DEF Versions, Actors, Alarm, Idle
<1>0. MailMoves(v) /\ DraftMoves(v)
  BY MoveFacts, NoMoveFacts, ConsumeFacts, NoConsumeFacts DEF ProjectionInv, CompleteRecovery
<1>1. TypeOK'
  BY <1>0 DEF ProjectionInv, TypeOK, Statuses, Rows, CompleteRecovery, MailMoves, DraftMoves, ledger, recovery, cancelling
<1>2. ASSUME NEW w \in Versions PROVE EnqueuedInv(w)' /\ FolderInv(w)'
  <2>1. version' = version /\ reco' = reco /\ status' = status /\ retry' = retry
    BY <1>0 DEF CompleteRecovery, DraftMoves, ledger, cancelling
  <2>2. (status'[w] = "none" <=> status[w] = "none") /\ (folder[w] = "retired" => status'[w] = status[w])
    BY <2>1 DEF ProjectionInv, TypeOK, FolderInv, CompleteRecovery
  <2>. QED BY <1>0, <2>1, <2>2 DEF ProjectionInv, TypeOK, EnqueuedInv, FolderInv, MailMoves
<1>3. ASSUME NEW w \in Versions PROVE FirstFlightInv(w)'
  BY <1>0 DEF ProjectionInv, TypeOK, EnqueuedInv, FolderInv, FirstFlightInv, RowInv, CompleteRecovery, MailMoves, DraftMoves, ledger
<1>4. ASSUME NEW w \in Versions PROVE RowInv(w)'
  <2>1. putBack'[v] \/ (folder'[v] # "outbox" /\ prev'[v] # "outbox")
    BY MoveFacts DEF ProjectionInv, CompleteRecovery, RowInv, mail
  <2>2. version' = v /\ draft' \in {"drafts", "away"} => kept'
    BY <1>0, ConsumeFacts DEF ProjectionInv, CompleteRecovery, RowInv, DraftMoves, drafts
  <2>3. acc[v]
    BY DEF ProjectionInv, CompleteRecovery, RowInv
  <2>4. CASE w = v
    BY <2>1, <2>2, <2>3, <2>4 DEF ProjectionInv, TypeOK, RowInv, CompleteRecovery, ledger
  <2>5. CASE w # v
    BY <1>0, <2>5 DEF ProjectionInv, TypeOK, RowInv, CompleteRecovery, MailMoves, DraftMoves, ledger
  <2>. QED BY <2>4, <2>5
<1>5. CopyInv'
  BY DEF ProjectionInv, TypeOK, CopyInv, CompleteRecovery, ledger, cancelling
<1>. QED BY <1>1, <1>2, <1>3, <1>4, <1>5 DEF ProjectionInv

\* ParkMissing preserves the invariant.
LEMMA ParkMissingStep ==
  ASSUME ProjectionInv, NEW v \in Versions, ParkMissing(v)
  PROVE  ProjectionInv'
<1>. USE ConstantsAssumption DEF Versions, Actors, Alarm, Idle
<1>1. TypeOK'
  BY DEF ProjectionInv, TypeOK, Statuses, Folders, Rows, ParkMissing, CannotMove, drafts, ledger, mail, recovery, cancelling
<1>2. ASSUME NEW w \in Versions PROVE EnqueuedInv(w)' /\ FolderInv(w)'
  BY DEF ProjectionInv, TypeOK, Statuses, Folders, EnqueuedInv, FolderInv, FirstFlightInv, RowInv, CopyInv, ParkMissing, CannotMove, drafts, ledger, mail, recovery, cancelling
<1>3. ASSUME NEW w \in Versions PROVE FirstFlightInv(w)'
  BY DEF ProjectionInv, TypeOK, Statuses, Folders, EnqueuedInv, FolderInv, FirstFlightInv, RowInv, CopyInv, ParkMissing, CannotMove, drafts, ledger, mail, recovery, cancelling
<1>4. ASSUME NEW w \in Versions PROVE RowInv(w)'
  BY DEF ProjectionInv, TypeOK, Statuses, Folders, Rows, EnqueuedInv, FolderInv, FirstFlightInv, RowInv, InDrafts, ParkMissing, CannotMove, drafts, ledger, mail, recovery, cancelling
<1>5. CopyInv'
  BY DEF ProjectionInv, TypeOK, Statuses, CopyInv, FirstFlightInv, RowInv, ParkMissing, CannotMove, drafts, ledger, mail, recovery, cancelling
<1>. QED BY <1>1, <1>2, <1>3, <1>4, <1>5 DEF ProjectionInv

\* RecoveryThrows preserves the invariant.
LEMMA RecoveryThrowsStep ==
  ASSUME ProjectionInv, NEW v \in Versions, NEW moved \in BOOLEAN, RecoveryThrows(v, moved)
  PROVE  ProjectionInv'
<1>. USE ConstantsAssumption DEF Versions, Actors, Alarm, Idle
<1>0. MailMoves(v) /\ DraftMoves(v)
  BY MoveFacts, NoMoveFacts, NoConsumeFacts DEF ProjectionInv, RecoveryThrows
<1>a. row' \in [Versions -> Rows] /\ tries' \in [Versions -> 0..MaxTries]
  <2>1. CASE tries[v] + 1 >= MaxTries
    BY <2>1 DEF ProjectionInv, TypeOK, Rows, RecoveryThrows, Defer
  <2>2. CASE ~(tries[v] + 1 >= MaxTries)
    <3>1. tries[v] \in 0..MaxTries /\ tries[v] + 1 \in 0..MaxTries
      BY <2>2 DEF ProjectionInv, TypeOK
    <3>2. tries' = [tries EXCEPT ![v] = tries[v] + 1] /\ row' = row
      BY <2>2 DEF RecoveryThrows, Defer
    <3>. QED BY <3>1, <3>2 DEF ProjectionInv, TypeOK
  <2>. QED BY <2>1, <2>2
<1>1. TypeOK'
  BY <1>0, <1>a DEF ProjectionInv, TypeOK, RecoveryThrows, MailMoves, DraftMoves, ledger, recovery, cancelling
<1>2. ASSUME NEW w \in Versions PROVE EnqueuedInv(w)' /\ FolderInv(w)'
  <2>1. version' = version /\ reco' = reco /\ status' = status /\ retry' = retry
    BY <1>0 DEF RecoveryThrows, DraftMoves, ledger, cancelling
  <2>2. (status'[w] = "none" <=> status[w] = "none") /\ (folder[w] = "retired" => status'[w] = status[w])
    BY <2>1 DEF ProjectionInv, TypeOK, FolderInv, RecoveryThrows
  <2>. QED BY <1>0, <2>1, <2>2 DEF ProjectionInv, TypeOK, EnqueuedInv, FolderInv, MailMoves
<1>3. ASSUME NEW w \in Versions PROVE FirstFlightInv(w)'
  BY <1>0 DEF ProjectionInv, TypeOK, EnqueuedInv, FolderInv, FirstFlightInv, RowInv, RecoveryThrows, MailMoves, DraftMoves, ledger
<1>4. ASSUME NEW w \in Versions PROVE RowInv(w)'
  <2>1. row'[w] = row[w] \/ (w = v /\ row'[w] = "parked")
    BY DEF ProjectionInv, TypeOK, RecoveryThrows, Defer
  <2>2. projected'[w] = (projected[w] \/ (w = v /\ moved))
    BY DEF ProjectionInv, TypeOK, RecoveryThrows
  <2>3. moved => putBack'[v] \/ (folder'[v] # "outbox" /\ prev'[v] # "outbox")
    BY MoveFacts DEF ProjectionInv, RecoveryThrows, RowInv, mail
  <2>4. acc[v] /\ row[v] = "pending"
    BY DEF ProjectionInv, RecoveryThrows, RowInv
  <2>5. acc' = acc /\ inline' = inline /\ consumed' = consumed /\ drafts' = drafts
    BY DEF RecoveryThrows, ledger, drafts
  <2>. QED BY <1>0, <2>1, <2>2, <2>3, <2>4, <2>5 DEF ProjectionInv, TypeOK, FolderInv, RowInv, MailMoves, drafts
<1>5. CopyInv'
  BY DEF ProjectionInv, TypeOK, CopyInv, RecoveryThrows, ledger, cancelling
<1>. QED BY <1>1, <1>2, <1>3, <1>4, <1>5 DEF ProjectionInv

\* Cancel preserves the invariant.
LEMMA CancelStep ==
  ASSUME ProjectionInv, NEW a \in Actors, NEW v \in Versions, NEW same \in BOOLEAN, Cancel(a, v, same)
  PROVE  ProjectionInv'
<1>. USE ConstantsAssumption DEF Versions, Actors, Alarm, Idle
<1>0. SnapshotMoves(a, v)
  BY RecoverFacts DEF ProjectionInv, Cancel
<1>a. drafts' = drafts /\ recovery' = recovery /\ inline' = inline
  BY DEF Cancel
<1>b. /\ status' \in [Versions -> Statuses] /\ status'[v] = "cancelled"
      /\ \A w \in Versions : w # v => status'[w] = status[w]
      /\ retry' = retry /\ amb' = amb /\ acc' = acc /\ agree' = agree
      /\ ~retry[v] /\ status[v] \in {"queued", "cancelled"}
  BY DEF ProjectionInv, TypeOK, Statuses, FirstFlightInv, Cancel, ledger
<1>1. TypeOK'
  BY <1>0, <1>a, <1>b DEF ProjectionInv, TypeOK, SnapshotMoves, Cancel, drafts, recovery
<1>2. ASSUME NEW w \in Versions PROVE EnqueuedInv(w)' /\ FolderInv(w)'
  <2>1. \/ folder'[w] = folder[w] /\ prev'[w] = prev[w]
        \/ w = v /\ folder'[w] = "retired" /\ prev'[w] = "none"
    BY <1>0 DEF SnapshotMoves
  <2>2. EnqueuedInv(w) /\ FolderInv(w) /\ version' = version /\ reco' = reco
    BY <1>0, <1>a DEF ProjectionInv, SnapshotMoves, drafts
  <2>3. CASE w = v
    BY <1>b, <2>1, <2>2, <2>3 DEF EnqueuedInv, FolderInv
  <2>4. CASE w # v
    BY <1>b, <2>1, <2>2, <2>4 DEF EnqueuedInv, FolderInv
  <2>. QED BY <2>3, <2>4
<1>3. ASSUME NEW w \in Versions PROVE FirstFlightInv(w)'
  <2>1. \/ folder'[w] = folder[w]
        \/ w = v /\ folder'[w] = "retired"
    BY <1>0 DEF SnapshotMoves
  <2>2. FirstFlightInv(w)
    BY DEF ProjectionInv
  <2>3. CASE w = v
    BY <1>b, <2>1, <2>2, <2>3 DEF FirstFlightInv
  <2>4. CASE w # v
    BY <1>b, <2>1, <2>2, <2>4 DEF FirstFlightInv
  <2>. QED BY <2>3, <2>4
<1>4. ASSUME NEW w \in Versions PROVE RowInv(w)'
  BY <1>0, <1>a, <1>b DEF ProjectionInv, TypeOK, FirstFlightInv, RowInv, InDrafts, SnapshotMoves, drafts, recovery
<1>5. CopyInv'
  <2>. SUFFICES ASSUME NEW b \in Actors, copying'[b] # Idle
                PROVE  status'[copying'[b]] = "cancelled"
    BY DEF CopyInv
  <2>1. CASE copying'[b] = v
    BY <1>b, <2>1
  <2>2. CASE copying'[b] = copying[b]
    <3>1. copying[b] \in Versions /\ status[copying[b]] = "cancelled"
      BY <2>2 DEF ProjectionInv, TypeOK, CopyInv
    <3>. QED BY <1>b, <2>2, <3>1
  <2>. QED BY <1>0, <2>1, <2>2 DEF SnapshotMoves
<1>. QED BY <1>1, <1>2, <1>3, <1>4, <1>5 DEF ProjectionInv

\* AlarmRecovers preserves the invariant.
LEMMA AlarmRecoversStep ==
  ASSUME ProjectionInv, NEW v \in Versions, NEW same \in BOOLEAN, AlarmRecovers(v, same)
  PROVE  ProjectionInv'
<1>. USE ConstantsAssumption DEF Versions, Actors, Alarm, Idle
<1>0. SnapshotMoves(Alarm, v)
  BY RecoverFacts DEF ProjectionInv, AlarmRecovers
<1>a. drafts' = drafts /\ recovery' = recovery /\ inline' = inline
  BY DEF AlarmRecovers
<1>b. /\ status' \in [Versions -> Statuses] /\ status'[v] = "cancelled"
      /\ \A w \in Versions : w # v => status'[w] = status[w]
      /\ retry' = retry /\ amb' = amb /\ acc' = acc /\ agree' = agree
      /\ ~retry[v] /\ status[v] \in {"queued", "cancelled"}
  BY DEF ProjectionInv, TypeOK, Statuses, FirstFlightInv, AlarmRecovers, ledger
<1>1. TypeOK'
  BY <1>0, <1>a, <1>b DEF ProjectionInv, TypeOK, SnapshotMoves, AlarmRecovers, drafts, recovery
<1>2. ASSUME NEW w \in Versions PROVE EnqueuedInv(w)' /\ FolderInv(w)'
  <2>1. \/ folder'[w] = folder[w] /\ prev'[w] = prev[w]
        \/ w = v /\ folder'[w] = "retired" /\ prev'[w] = "none"
    BY <1>0 DEF SnapshotMoves
  <2>2. EnqueuedInv(w) /\ FolderInv(w) /\ version' = version /\ reco' = reco
    BY <1>0, <1>a DEF ProjectionInv, SnapshotMoves, drafts
  <2>3. CASE w = v
    BY <1>b, <2>1, <2>2, <2>3 DEF EnqueuedInv, FolderInv
  <2>4. CASE w # v
    BY <1>b, <2>1, <2>2, <2>4 DEF EnqueuedInv, FolderInv
  <2>. QED BY <2>3, <2>4
<1>3. ASSUME NEW w \in Versions PROVE FirstFlightInv(w)'
  <2>1. \/ folder'[w] = folder[w]
        \/ w = v /\ folder'[w] = "retired"
    BY <1>0 DEF SnapshotMoves
  <2>2. FirstFlightInv(w)
    BY DEF ProjectionInv
  <2>3. CASE w = v
    BY <1>b, <2>1, <2>2, <2>3 DEF FirstFlightInv
  <2>4. CASE w # v
    BY <1>b, <2>1, <2>2, <2>4 DEF FirstFlightInv
  <2>. QED BY <2>3, <2>4
<1>4. ASSUME NEW w \in Versions PROVE RowInv(w)'
  BY <1>0, <1>a, <1>b DEF ProjectionInv, TypeOK, FirstFlightInv, RowInv, InDrafts, SnapshotMoves, drafts, recovery
<1>5. CopyInv'
  <2>. SUFFICES ASSUME NEW b \in Actors, copying'[b] # Idle
                PROVE  status'[copying'[b]] = "cancelled"
    BY DEF CopyInv
  <2>1. CASE copying'[b] = v
    BY <1>b, <2>1
  <2>2. CASE copying'[b] = copying[b]
    <3>1. copying[b] \in Versions /\ status[copying[b]] = "cancelled"
      BY <2>2 DEF ProjectionInv, TypeOK, CopyInv
    <3>. QED BY <1>b, <2>2, <3>1
  <2>. QED BY <1>0, <2>1, <2>2 DEF SnapshotMoves
<1>. QED BY <1>1, <1>2, <1>3, <1>4, <1>5 DEF ProjectionInv

\* DiscardRecovered preserves the invariant.
LEMMA DiscardRecoveredStep ==
  ASSUME ProjectionInv, NEW v \in Versions, DiscardRecovered(v)
  PROVE  ProjectionInv'
<1>. USE ConstantsAssumption DEF Versions, Actors, Alarm, Idle
<1>1. TypeOK'
  BY DEF ProjectionInv, TypeOK, Statuses, Folders, Rows, DiscardRecovered, drafts, ledger, mail, recovery, cancelling
<1>2. ASSUME NEW w \in Versions PROVE EnqueuedInv(w)' /\ FolderInv(w)'
  BY DEF ProjectionInv, TypeOK, Statuses, Folders, EnqueuedInv, FolderInv, FirstFlightInv, RowInv, CopyInv, DiscardRecovered, drafts, ledger, mail, recovery, cancelling
<1>3. ASSUME NEW w \in Versions PROVE FirstFlightInv(w)'
  BY DEF ProjectionInv, TypeOK, Statuses, Folders, EnqueuedInv, FolderInv, FirstFlightInv, RowInv, CopyInv, DiscardRecovered, drafts, ledger, mail, recovery, cancelling
<1>4. ASSUME NEW w \in Versions PROVE RowInv(w)'
  BY DEF ProjectionInv, TypeOK, Statuses, Folders, Rows, EnqueuedInv, FolderInv, FirstFlightInv, RowInv, InDrafts, DiscardRecovered, drafts, ledger, mail, recovery, cancelling
<1>5. CopyInv'
  BY DEF ProjectionInv, TypeOK, Statuses, CopyInv, FirstFlightInv, RowInv, DiscardRecovered, drafts, ledger, mail, recovery, cancelling
<1>. QED BY <1>1, <1>2, <1>3, <1>4, <1>5 DEF ProjectionInv

\* TrashEmail preserves the invariant.
LEMMA TrashEmailStep ==
  ASSUME ProjectionInv, NEW v \in Versions, TrashEmail(v)
  PROVE  ProjectionInv'
<1>. USE ConstantsAssumption DEF Versions, Actors, Alarm, Idle
<1>1. TypeOK'
  BY DEF ProjectionInv, TypeOK, Statuses, Folders, Rows, TrashEmail, Blocked, drafts, ledger, mail, recovery, cancelling
<1>2. ASSUME NEW w \in Versions PROVE EnqueuedInv(w)' /\ FolderInv(w)'
  BY DEF ProjectionInv, TypeOK, Statuses, Folders, EnqueuedInv, FolderInv, FirstFlightInv, RowInv, CopyInv, TrashEmail, Blocked, drafts, ledger, mail, recovery, cancelling
<1>3. ASSUME NEW w \in Versions PROVE FirstFlightInv(w)'
  BY DEF ProjectionInv, TypeOK, Statuses, Folders, EnqueuedInv, FolderInv, FirstFlightInv, RowInv, CopyInv, TrashEmail, Blocked, drafts, ledger, mail, recovery, cancelling
<1>4. ASSUME NEW w \in Versions PROVE RowInv(w)'
  BY DEF ProjectionInv, TypeOK, Statuses, Folders, Rows, EnqueuedInv, FolderInv, FirstFlightInv, RowInv, InDrafts, TrashEmail, Blocked, drafts, ledger, mail, recovery, cancelling
<1>5. CopyInv'
  BY DEF ProjectionInv, TypeOK, Statuses, CopyInv, FirstFlightInv, RowInv, TrashEmail, Blocked, drafts, ledger, mail, recovery, cancelling
<1>. QED BY <1>1, <1>2, <1>3, <1>4, <1>5 DEF ProjectionInv

\* RestoreEmail preserves the invariant.
LEMMA RestoreEmailStep ==
  ASSUME ProjectionInv, NEW v \in Versions, RestoreEmail(v)
  PROVE  ProjectionInv'
<1>. USE ConstantsAssumption DEF Versions, Actors, Alarm, Idle
<1>0. ASSUME NEW w \in Versions
      PROVE  /\ folder'[w] = (IF w = v THEN prev[v] ELSE folder[w])
             /\ prev'[w] = (IF w = v THEN "none" ELSE prev[w])
             /\ status'[w] = status[w] /\ retry'[w] = retry[w] /\ reco'[w] = reco[w]
             /\ acc'[w] = acc[w] /\ amb'[w] = amb[w] /\ version' = version
  BY DEF ProjectionInv, TypeOK, RestoreEmail, drafts, ledger, cancelling
<1>a. folder[v] = "trash" /\ prev[v] \in {"outbox", "sent", "other"}
  BY DEF ProjectionInv, FolderInv, RestoreEmail
<1>1. TypeOK'
  BY DEF ProjectionInv, TypeOK, Statuses, Folders, Rows, RestoreEmail, drafts, ledger, mail, recovery, cancelling
<1>2. ASSUME NEW w \in Versions PROVE EnqueuedInv(w)' /\ FolderInv(w)'
  <2>1. EnqueuedInv(w) /\ FolderInv(w)
    BY DEF ProjectionInv
  <2>. QED BY <1>0, <1>a, <2>1 DEF EnqueuedInv, FolderInv
<1>3. ASSUME NEW w \in Versions PROVE FirstFlightInv(w)'
  <2>1. FirstFlightInv(w)
    BY DEF ProjectionInv
  <2>. QED BY <1>0, <1>a, <2>1 DEF FirstFlightInv
<1>4. ASSUME NEW w \in Versions PROVE RowInv(w)'
  BY DEF ProjectionInv, TypeOK, Statuses, Folders, Rows, EnqueuedInv, FolderInv, FirstFlightInv, RowInv, InDrafts, RestoreEmail, drafts, ledger, mail, recovery, cancelling
<1>5. CopyInv'
  BY DEF ProjectionInv, TypeOK, Statuses, CopyInv, FirstFlightInv, RowInv, RestoreEmail, drafts, ledger, mail, recovery, cancelling
<1>. QED BY <1>1, <1>2, <1>3, <1>4, <1>5 DEF ProjectionInv

\* DiscardSnapshot preserves the invariant.
LEMMA DiscardSnapshotStep ==
  ASSUME ProjectionInv, NEW v \in Versions, DiscardSnapshot(v)
  PROVE  ProjectionInv'
<1>. USE ConstantsAssumption DEF Versions, Actors, Alarm, Idle
<1>0. ASSUME NEW w \in Versions
      PROVE  /\ folder'[w] = (IF w = v THEN "gone" ELSE folder[w])
             /\ prev'[w] = prev[w]
             /\ status'[w] = status[w] /\ retry'[w] = retry[w] /\ reco'[w] = reco[w]
             /\ acc'[w] = acc[w] /\ amb'[w] = amb[w] /\ version' = version
  BY DEF ProjectionInv, TypeOK, DiscardSnapshot, drafts, ledger, cancelling
<1>a. folder[v] = "other"
  BY DEF DiscardSnapshot
<1>1. TypeOK'
  BY DEF ProjectionInv, TypeOK, Statuses, Folders, Rows, DiscardSnapshot, drafts, ledger, mail, recovery, cancelling
<1>2. ASSUME NEW w \in Versions PROVE EnqueuedInv(w)' /\ FolderInv(w)'
  <2>1. EnqueuedInv(w) /\ FolderInv(w)
    BY DEF ProjectionInv
  <2>. QED BY <1>0, <1>a, <2>1 DEF EnqueuedInv, FolderInv
<1>3. ASSUME NEW w \in Versions PROVE FirstFlightInv(w)'
  <2>1. FirstFlightInv(w)
    BY DEF ProjectionInv
  <2>. QED BY <1>0, <1>a, <2>1 DEF FirstFlightInv
<1>4. ASSUME NEW w \in Versions PROVE RowInv(w)'
  BY DEF ProjectionInv, TypeOK, Statuses, Folders, Rows, EnqueuedInv, FolderInv, FirstFlightInv, RowInv, InDrafts, DiscardSnapshot, drafts, ledger, mail, recovery, cancelling
<1>5. CopyInv'
  BY DEF ProjectionInv, TypeOK, Statuses, CopyInv, FirstFlightInv, RowInv, DiscardSnapshot, drafts, ledger, mail, recovery, cancelling
<1>. QED BY <1>1, <1>2, <1>3, <1>4, <1>5 DEF ProjectionInv

\* MoveEmail preserves the invariant.
LEMMA MoveEmailStep ==
  ASSUME ProjectionInv, NEW v \in Versions, NEW to \in {"outbox", "sent", "other"}, MoveEmail(v, to)
  PROVE  ProjectionInv'
<1>. USE ConstantsAssumption DEF Versions, Actors, Alarm, Idle
<1>1. TypeOK'
  BY DEF ProjectionInv, TypeOK, Statuses, Folders, Rows, MoveEmail, Blocked, drafts, ledger, mail, recovery, cancelling
<1>2. ASSUME NEW w \in Versions PROVE EnqueuedInv(w)' /\ FolderInv(w)'
  BY DEF ProjectionInv, TypeOK, Statuses, Folders, EnqueuedInv, FolderInv, FirstFlightInv, RowInv, CopyInv, MoveEmail, Blocked, drafts, ledger, mail, recovery, cancelling
<1>3. ASSUME NEW w \in Versions PROVE FirstFlightInv(w)'
  BY DEF ProjectionInv, TypeOK, Statuses, Folders, EnqueuedInv, FolderInv, FirstFlightInv, RowInv, CopyInv, MoveEmail, Blocked, drafts, ledger, mail, recovery, cancelling
<1>4. ASSUME NEW w \in Versions PROVE RowInv(w)'
  BY DEF ProjectionInv, TypeOK, Statuses, Folders, Rows, EnqueuedInv, FolderInv, FirstFlightInv, RowInv, InDrafts, MoveEmail, Blocked, drafts, ledger, mail, recovery, cancelling
<1>5. CopyInv'
  BY DEF ProjectionInv, TypeOK, Statuses, CopyInv, FirstFlightInv, RowInv, MoveEmail, Blocked, drafts, ledger, mail, recovery, cancelling
<1>. QED BY <1>1, <1>2, <1>3, <1>4, <1>5 DEF ProjectionInv

\* A step that changes nothing preserves the invariant.
LEMMA StutterStep ==
  ASSUME ProjectionInv, UNCHANGED vars
  PROVE  ProjectionInv'
BY DEF ProjectionInv, TypeOK, EnqueuedInv, FolderInv, FirstFlightInv, RowInv, CopyInv, InDrafts,
       vars, drafts, ledger, mail, recovery, cancelling

\* Every step of the system preserves the invariant.
LEMMA NextStep ==
  ASSUME ProjectionInv, [Next]_vars
  PROVE  ProjectionInv'
<1>1. CASE EditDraft \/ DiscardDraft \/ FileDraft \/ Evict
  BY <1>1, EditDraftStep, DiscardDraftStep, FileDraftStep, EvictStep
<1>2. ASSUME NEW a \in Actors, CopyEnds(a) PROVE ProjectionInv'
  BY <1>2, FinishCopyStep, FailCopyStep DEF CopyEnds
<1>3. ASSUME NEW v \in Versions, Ledger(v) PROVE ProjectionInv'
  BY <1>3, EnqueueStep, ClaimStep, RequeueStep, RetryStep, CancelRetryStep, ComeToRestStep DEF Ledger
<1>4. ASSUME NEW v \in Versions, Acceptance(v) PROVE ProjectionInv'
  BY <1>4, FinalizeAcceptedStep, RecordAcceptanceStep, ProjectInlineStep, RecoverParkedStep DEF Acceptance
<1>5. ASSUME NEW v \in Versions, RecoveryPass(v) PROVE ProjectionInv'
  BY <1>5, RepairDeliveryStep, CompleteRecoveryStep, ParkMissingStep, RecoveryThrowsStep DEF RecoveryPass
<1>6. ASSUME NEW v \in Versions, Cancellation(v) PROVE ProjectionInv'
  BY <1>6, CancelStep, AlarmRecoversStep, DiscardRecoveredStep DEF Cancellation, Actors
<1>7. ASSUME NEW v \in Versions, Lifecycle(v) PROVE ProjectionInv'
  BY <1>7, TrashEmailStep, RestoreEmailStep, MoveEmailStep, DiscardSnapshotStep DEF Lifecycle
<1>8. CASE UNCHANGED vars
  BY <1>8, StutterStep
<1>. QED BY <1>1, <1>2, <1>3, <1>4, <1>5, <1>6, <1>7, <1>8 DEF Next

\* A mailbox with one unsent draft satisfies the invariant.
LEMMA InitHolds ==
  ASSUME Init
  PROVE  ProjectionInv
<1>1. kept \in BOOLEAN
  BY DEF Init
<1>2. TypeOK
  BY <1>1, ConstantsAssumption DEF Init, TypeOK, Statuses, Folders, Rows, Versions, Actors, Idle, Alarm
<1>3. ASSUME NEW v \in Versions
      PROVE  EnqueuedInv(v) /\ FolderInv(v) /\ FirstFlightInv(v) /\ RowInv(v)
  BY DEF Init, EnqueuedInv, FolderInv, FirstFlightInv, RowInv
<1>4. CopyInv
  BY DEF Init, CopyInv
<1>. QED BY <1>2, <1>3, <1>4 DEF ProjectionInv

\* Deliveries, snapshots, recovery rows and copies in flight agree in every
\* reachable state, for any number of versions, requests, retries and events.
THEOREM ProjectionInvariant == Spec => []ProjectionInv
<1>1. Init => ProjectionInv
  BY InitHolds
<1>2. ProjectionInv /\ [Next]_vars => ProjectionInv'
  BY NextStep
<1>. QED BY <1>1, <1>2, PTL DEF Spec

\* The alarm's cancellation lane finds every cancelled delivery that is not
\* recovered: no sequence of failing, filing, retrying and cancelling takes its
\* snapshot out of the Outbox.
THEOREM CancelledStaysReachable == Spec => []CancelledIsReachable
<1>1. ProjectionInv => CancelledIsReachable
  BY DEF ProjectionInv, EnqueuedInv, FirstFlightInv, CancelledIsReachable
<1>. QED BY <1>1, ProjectionInvariant, PTL

\* What is cancelled, or hidden as retired, has no accepted and no ambiguous attempt.
THEOREM CancelledNeverSent == Spec => []CancelledWasNeverSent
<1>1. ProjectionInv => CancelledWasNeverSent
  BY DEF ProjectionInv, FolderInv, FirstFlightInv, CancelledWasNeverSent
<1>. QED BY <1>1, ProjectionInvariant, PTL

\* A completed recovery row stays true: the message is filed, its draft version
\* gone, but for what the user moved back.
THEOREM CompletedRecoveryIsDone == Spec => []CompletedIsDone
<1>1. ProjectionInv => CompletedIsDone
  <2>. SUFFICES ASSUME ProjectionInv, NEW v \in Versions, row[v] = "completed"
                PROVE  /\ acc[v]
                       /\ Filed(folder[v], prev[v]) \/ putBack[v]
                       /\ InDrafts(v) => kept
    BY DEF CompletedIsDone
  <2>1. acc[v] /\ (putBack[v] \/ (folder[v] # "outbox" /\ prev[v] # "outbox"))
    BY DEF ProjectionInv, RowInv
  <2>2. InDrafts(v) => kept
    BY DEF ProjectionInv, RowInv, InDrafts
  <2>3. folder[v] # "none" /\ folder[v] # "retired"
    BY <2>1 DEF ProjectionInv, EnqueuedInv, FolderInv, FirstFlightInv
  <2>. QED BY <2>1, <2>2, <2>3 DEF ProjectionInv, TypeOK, Folders, Filed
<1>. QED BY <1>1, ProjectionInvariant, PTL

-----------------------------------------------------------------------------
(* What a step may never do.                                               *)

\* Steps other than a projection do not consume the draft.
LEMMA OtherStepsKeepDraft ==
  ASSUME [Next]_vars, draft = "drafts", draft' = "consumed"
  PROVE  \E v \in Versions :
           \/ \E n \in 0..2 : FinalizeAccepted(v, n) \/ ProjectInline(v, n)
           \/ CompleteRecovery(v)
<1>1. ~(EditDraft \/ DiscardDraft \/ FileDraft \/ Evict)
  BY DEF EditDraft, DiscardDraft, FileDraft, Evict, drafts
<1>2. ASSUME NEW a \in Actors PROVE ~CopyEnds(a)
  BY DEF CopyEnds, FinishCopy, FailCopy, drafts
<1>3. ASSUME NEW v \in Versions PROVE ~Ledger(v)
  BY DEF Ledger, Enqueue, Claim, Requeue, Retry, CancelRetry, ComeToRest, drafts
<1>4. ASSUME NEW v \in Versions, Acceptance(v)
      PROVE  \E n \in 0..2 : FinalizeAccepted(v, n) \/ ProjectInline(v, n)
  BY <1>4 DEF Acceptance, RecordAcceptance, RecoverParked, drafts
<1>5. ASSUME NEW v \in Versions, RecoveryPass(v) PROVE CompleteRecovery(v)
  BY <1>5 DEF RecoveryPass, RepairDelivery, ParkMissing, RecoveryThrows, drafts
<1>6. ASSUME NEW v \in Versions PROVE ~Cancellation(v)
  BY DEF Cancellation, Cancel, AlarmRecovers, DiscardRecovered, drafts
<1>7. ASSUME NEW v \in Versions PROVE ~Lifecycle(v)
  BY DEF Lifecycle, TrashEmail, RestoreEmail, DiscardSnapshot, MoveEmail, drafts
<1>8. ~UNCHANGED vars
  BY DEF vars, drafts
<1>. QED BY <1>1, <1>2, <1>3, <1>4, <1>5, <1>6, <1>7, <1>8 DEF Next

\* A projection that consumes the draft has filed the version in Drafts.
LEMMA ConsumptionFacts ==
  ASSUME ProjectionInv, NEW v \in Versions, draft = "drafts", draft' = "consumed",
         \/ \E n \in 0..2 : FinalizeAccepted(v, n) \/ ProjectInline(v, n)
         \/ CompleteRecovery(v)
  PROVE  /\ version = v /\ acc'[v]
         /\ putBack'[v] \/ (folder'[v] # "outbox" /\ prev'[v] # "outbox")
<1>. USE DEF Versions
<1>0. TypeOK /\ FolderInv(v) /\ RowInv(v)
  BY DEF ProjectionInv
<1>1. CASE \E n \in 0..2 : FinalizeAccepted(v, n) \/ ProjectInline(v, n)
  <2>1. PICK n \in 0..2 : Project(v, n)
    BY <1>1 DEF FinalizeAccepted, ProjectInline
  <2>2. MoveAcceptedOutboundToSent(v) /\ ConsumeDraftVersion(v)
    BY <2>1 DEF Project, drafts
  <2>3. version = v
    BY <2>2 DEF ConsumeDraftVersion, InDrafts
  <2>4. acc'[v]
    BY <1>0, <1>1 DEF FinalizeAccepted, ProjectInline, RowInv, TypeOK, ledger
  <2>. QED BY <1>0, <2>2, <2>3, <2>4, MoveFacts
<1>2. CASE CompleteRecovery(v)
  <2>1. version = v
    BY <1>2 DEF CompleteRecovery, ConsumeDraftVersion, InDrafts, drafts
  <2>2. acc'[v]
    BY <1>0, <1>2 DEF CompleteRecovery, RowInv, ledger
  <2>3. putBack'[v] \/ (folder'[v] # "outbox" /\ prev'[v] # "outbox")
    BY <1>0, <1>2, MoveFacts DEF CompleteRecovery, RowInv, mail
  <2>. QED BY <2>1, <2>2, <2>3
<1>. QED BY <1>1, <1>2

\* The draft disappears only when exactly its present version was accepted and
\* its message was filed before.
THEOREM ConsumedDraftWasSent == Spec => ConsumedIsSent
<1>1. ASSUME ProjectionInv, [Next]_vars
      PROVE  [draft = "drafts" /\ draft' = "consumed" =>
                acc'[version]
                /\ (Filed(folder'[version], prev'[version]) \/ putBack'[version])]_vars
  <2>. SUFFICES ASSUME draft = "drafts", draft' = "consumed"
                PROVE  /\ acc'[version]
                       /\ Filed(folder'[version], prev'[version]) \/ putBack'[version]
    OBVIOUS
  <2>1. ProjectionInv'
    BY <1>1, NextStep
  <2>2. PICK v \in Versions :
           \/ \E n \in 0..2 : FinalizeAccepted(v, n) \/ ProjectInline(v, n)
           \/ CompleteRecovery(v)
    BY <1>1, OtherStepsKeepDraft
  <2>3. /\ version = v /\ acc'[v]
        /\ putBack'[v] \/ (folder'[v] # "outbox" /\ prev'[v] # "outbox")
    BY <1>1, <2>2, ConsumptionFacts
  <2>4. folder'[v] # "none" /\ folder'[v] # "retired"
    BY <2>1, <2>3 DEF ProjectionInv, EnqueuedInv, FolderInv, FirstFlightInv
  <2>5. folder'[v] \in Folders
    BY <2>1 DEF ProjectionInv, TypeOK
  <2>. QED BY <2>3, <2>4, <2>5 DEF Filed, Folders
<1>. QED BY <1>1, ProjectionInvariant, PTL DEF Spec, ConsumedIsSent

\* Only the three steps of a cancellation recovery touch a recovered draft or
\* retire a snapshot.
LEMMA OtherStepsKeepSnapshots ==
  ASSUME ProjectionInv, [Next]_vars, NEW v \in Versions
  PROVE  \/ reco'[v] = reco[v] /\ (folder'[v] = "retired" => folder[v] = "retired")
         \/ \E a \in Actors : FinishCopy(a)
         \/ DiscardRecovered(v)
         \/ \E a \in Actors, same \in BOOLEAN, w \in Versions :
              RecoverSnapshot(a, w, same) /\ drafts' = drafts
<1>. USE DEF drafts, ledger, mail, recovery, cancelling
<1>0. TypeOK /\ FolderInv(v)
  BY DEF ProjectionInv
<1>1. CASE EditDraft \/ DiscardDraft \/ FileDraft \/ Evict
  BY <1>1 DEF EditDraft, DiscardDraft, FileDraft, Evict
<1>2. ASSUME NEW a \in Actors, FailCopy(a)
      PROVE  reco'[v] = reco[v] /\ folder'[v] = folder[v]
  BY <1>2 DEF FailCopy
<1>3. ASSUME NEW w \in Versions, Ledger(w)
      PROVE  reco'[v] = reco[v] /\ (folder'[v] = "retired" => folder[v] = "retired")
  BY <1>0, <1>3 DEF Ledger, Enqueue, Claim, Requeue, Retry, CancelRetry, ComeToRest, TypeOK
<1>4. ASSUME NEW w \in Versions, Acceptance(w)
      PROVE  reco'[v] = reco[v] /\ (folder'[v] = "retired" => folder[v] = "retired")
  <2>1. CASE \E n \in 0..2 : FinalizeAccepted(w, n) \/ ProjectInline(w, n)
    <3>1. MailMoves(w) /\ reco' = reco
      BY <1>0, <2>1, ProjectFacts DEF FinalizeAccepted, ProjectInline
    <3>. QED BY <3>1 DEF MailMoves
  <2>2. CASE \/ \E s \in {"sent", "resting"}, settled, goesOn \in BOOLEAN :
                   RecordAcceptance(w, s, settled, goesOn)
             \/ RecoverParked(w)
    BY <2>2 DEF RecordAcceptance, RecoverParked
  <2>. QED BY <1>4, <2>1, <2>2 DEF Acceptance
<1>5. ASSUME NEW w \in Versions, RecoveryPass(w)
      PROVE  reco'[v] = reco[v] /\ (folder'[v] = "retired" => folder[v] = "retired")
  <2>1. CASE ParkMissing(w) \/ \E s \in {"sent", "resting"} : RepairDelivery(w, s)
    BY <2>1 DEF ParkMissing, RepairDelivery
  <2>2. CASE CompleteRecovery(w) \/ \E moved \in BOOLEAN : RecoveryThrows(w, moved)
    <3>1. reco' = reco /\ (UNCHANGED mail \/ MoveAcceptedOutboundToSent(w))
      BY <2>2 DEF CompleteRecovery, RecoveryThrows
    <3>2. MailMoves(w)
      BY <1>0, <3>1, MoveFacts, NoMoveFacts
    <3>. QED BY <3>1, <3>2 DEF MailMoves
  <2>. QED BY <1>5, <2>1, <2>2 DEF RecoveryPass
<1>6. ASSUME NEW w \in Versions, Cancellation(w)
      PROVE  \/ reco'[v] = reco[v] /\ folder'[v] = folder[v]
             \/ DiscardRecovered(v)
             \/ \E a \in Actors, same \in BOOLEAN, x \in Versions :
                  RecoverSnapshot(a, x, same) /\ drafts' = drafts
  <2>1. CASE \E a \in Requests, same \in BOOLEAN : Cancel(a, w, same)
    BY <2>1 DEF Cancel, Actors
  <2>2. CASE \E same \in BOOLEAN : AlarmRecovers(w, same)
    BY <2>2 DEF AlarmRecovers, Actors
  <2>3. CASE DiscardRecovered(w)
    BY <1>0, <2>3 DEF DiscardRecovered, TypeOK
  <2>. QED BY <1>6, <2>1, <2>2, <2>3 DEF Cancellation
<1>7. ASSUME NEW w \in Versions, Lifecycle(w)
      PROVE  reco'[v] = reco[v] /\ (folder'[v] = "retired" => folder[v] = "retired")
  BY <1>0, <1>7 DEF Lifecycle, TrashEmail, RestoreEmail, DiscardSnapshot, MoveEmail, TypeOK, FolderInv
<1>8. CASE UNCHANGED vars
  BY <1>8 DEF vars
<1>. QED BY <1>1, <1>2, <1>3, <1>4, <1>5, <1>6, <1>7, <1>8 DEF Next, CopyEnds

\* A snapshot is retired only while its text is an editable draft.
THEOREM RetiredTextStaysADraft == Spec => RetiredTextIsADraft
<1>1. ASSUME ProjectionInv, [Next]_vars
      PROVE  [\A v \in Versions :
                folder[v] # "retired" /\ folder'[v] = "retired" =>
                  (draft' = "drafts" /\ version' = v) \/ reco'[v] = "draft"]_vars
  <2>. SUFFICES ASSUME NEW v \in Versions, folder[v] # "retired", folder'[v] = "retired"
                PROVE  (draft' = "drafts" /\ version' = v) \/ reco'[v] = "draft"
    OBVIOUS
  <2>0. TypeOK
    BY <1>1 DEF ProjectionInv
  <2>1. CASE \E a \in Actors : FinishCopy(a)
    <3>1. PICK a \in Actors : FinishCopy(a)
      BY <2>1
    <3>2. PICK w \in Versions : w = copying[a]
      BY <2>0, <3>1 DEF TypeOK, FinishCopy
    <3>3. /\ folder'[v] # folder[v]
          /\ folder[w] = "retired" => folder' = folder
          /\ folder[w] # "retired" => Retire(w) /\ reco' = [reco EXCEPT ![w] = "draft"]
      BY <3>1, <3>2 DEF FinishCopy, mail
    <3>4. v = w
      BY <2>0, <3>3 DEF TypeOK, Retire
    <3>. QED BY <2>0, <3>3, <3>4 DEF TypeOK
  <2>2. CASE DiscardRecovered(v)
    BY <2>2 DEF DiscardRecovered, mail
  <2>3. CASE \E a \in Actors, same \in BOOLEAN, w \in Versions :
               RecoverSnapshot(a, w, same) /\ drafts' = drafts
    <3>1. PICK a \in Actors, same \in BOOLEAN, w \in Versions :
             RecoverSnapshot(a, w, same) /\ drafts' = drafts
      BY <2>3
    <3>a. folder' # folder
      OBVIOUS
    <3>2. /\ Retire(w)
          /\ Equivalent(w, same) \/ reco[w] = "draft"
          /\ reco' = reco
      BY <3>1, <3>a DEF RecoverSnapshot, mail
    <3>3. v = w
      BY <2>0, <3>2 DEF TypeOK, Retire
    <3>. QED BY <3>1, <3>2, <3>3 DEF Equivalent, InDrafts, drafts
  <2>. QED BY <1>1, <2>1, <2>2, <2>3, OtherStepsKeepSnapshots
<1>. QED BY <1>1, ProjectionInvariant, PTL DEF Spec, RetiredTextIsADraft

\* A recovered draft the user has discarded does not come back.
THEOREM DiscardedStaysDiscarded == Spec => NoResurrection
<1>1. ASSUME ProjectionInv, [Next]_vars
      PROVE  [\A v \in Versions : reco[v] = "gone" => reco'[v] = "gone"]_vars
  <2>. SUFFICES ASSUME NEW v \in Versions, reco[v] = "gone"
                PROVE  reco'[v] = "gone"
    OBVIOUS
  <2>0. TypeOK /\ folder[v] = "retired"
    BY <1>1 DEF ProjectionInv, FolderInv
  <2>1. CASE \E a \in Actors : FinishCopy(a)
    <3>1. PICK a \in Actors : FinishCopy(a)
      BY <2>1
    <3>2. PICK w \in Versions : w = copying[a]
      BY <2>0, <3>1 DEF TypeOK, FinishCopy
    <3>3. /\ folder[w] = "retired" => reco' = reco
          /\ folder[w] # "retired" => reco' = [reco EXCEPT ![w] = "draft"]
      BY <3>1, <3>2 DEF FinishCopy, mail
    <3>4. CASE w = v
      BY <2>0, <3>3, <3>4
    <3>5. CASE w # v
      BY <2>0, <3>3, <3>5 DEF TypeOK
    <3>. QED BY <3>4, <3>5
  <2>2. CASE DiscardRecovered(v)
    BY <2>2 DEF DiscardRecovered
  <2>3. CASE \E a \in Actors, same \in BOOLEAN, w \in Versions :
               RecoverSnapshot(a, w, same) /\ drafts' = drafts
    BY <2>3 DEF RecoverSnapshot
  <2>. QED BY <1>1, <2>1, <2>2, <2>3, OtherStepsKeepSnapshots
<1>. QED BY <1>1, ProjectionInvariant, PTL DEF Spec, NoResurrection
=============================================================================
