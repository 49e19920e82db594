------------------------ MODULE InboundPipelineProofs ------------------------
(***************************************************************************)
(* HeldInv is inductive, for any number of consumers, copies, scans and    *)
(* failures: a message that SMTP accepted is delivered or stays in an      *)
(* archive that the sweep keeps at, terminal receipts are true, and a      *)
(* rejection is final.                                                     *)
(***************************************************************************)
EXTENDS InboundPipeline, FiniteSetTheorems, TLAPS

\* What was delivered stays delivered, and what was deleted deleted.
Grows ==
  /\ accepted => accepted'
  /\ truth # "none" => truth' # "none"
  /\ truth = "deleted" => truth' = "deleted"

\* More stays within the bound of a queue.
LEMMA MoreFacts ==
  ASSUME NEW n \in 0..MaxCopies
  PROVE  More(n) \in 0..MaxCopies /\ More(n) >= n
BY PipelineAssumption DEF More

\* The truth that an actor without a full archive reads is never too strong.
LEMMA TruthFacts ==
  ASSUME TypeOK
  PROVE  /\ Truth \in {"none", "stored", "deleted"}
         /\ Truth # "none" => Projected(Truth)
BY DEF TypeOK, Truth, Projected

\* The number of busy consumers is a number, and no consumer is busy or one is.
LEMMA BusyFacts ==
  /\ IsFiniteSet(Busy) /\ Cardinality(Busy) \in Nat
  /\ (\A c \in Consumers : cpc[c] = "idle") => Cardinality(Busy) = 0
<1>1. Busy \subseteq Consumers
  BY DEF Busy
<1>2. IsFiniteSet(Busy)
  BY <1>1, PipelineAssumption, FS_Subset
<1>3. (\A c \in Consumers : cpc[c] = "idle") => Busy = {}
  BY DEF Busy
<1> QED BY <1>2, <1>3, FS_CardinalityType, FS_EmptySet

\* Receipts about to be put stay true while their writers rest.
LEMMA GoalsKept ==
  ASSUME GoalInv, Grows, UNCHANGED <<consumer, rpc, rgoal>>
  PROVE  GoalInv'
BY DEF GoalInv, Grows, Projected, consumer

\* Copies stay enough while the consumers rest.
LEMMA CopiesKept ==
  ASSUME TypeOK, CopyInv, cpc' = cpc, copies' \in Nat, copies' >= copies
  PROVE  CopyInv'
<1>1. Busy' = Busy
  BY DEF Busy
<1> QED BY <1>1, BusyFacts DEF CopyInv, TypeOK

\* The failures of ingress stay within their bound.
LEMMA FailuresTyped ==
  ASSUME TypeOK, Fails \/ Works
  PROVE  ifails' \in 0..MaxIngressFails /\ fails' \in 0..MaxFails
<1>1. ifails \in 0..MaxIngressFails /\ fails \in 0..MaxFails /\ MaxIngressFails \in Nat
  BY PipelineAssumption DEF TypeOK
<1>2. CASE ipc' = "done"
  BY <1>1, <1>2 DEF Fails, Works
<1>3. CASE ipc' # "done"
  BY <1>1, <1>3 DEF Fails, Works
<1> QED BY <1>2, <1>3

\* A step of ingress in its parts.
LEMMA IngressTogether ==
  ASSUME HeldInv, TypeOK', TerminalReceiptsAreTrue', IngressInv', SharingInv', Grows,
         UNCHANGED <<consumer, sweep>>, copies' >= copies
  PROVE  HeldInv'
<1>1. GoalInv'
  BY GoalsKept DEF HeldInv, sweep
<1>2. CopyInv'
  BY CopiesKept DEF HeldInv, PipelineInv, TypeOK, consumer
<1> QED
  BY <1>1, <1>2
     DEF HeldInv, PipelineInv, RejectionIsFinal, SharingInv, Unshared, Undelivered, Delivered

\* The stream is read.
LEMMA KeepReadStream == HeldInv /\ ReadStream => HeldInv'
<1> SUFFICES ASSUME HeldInv, ReadStream PROVE HeldInv'
  OBVIOUS
<1> USE DEF HeldInv, PipelineInv, ReadStream, At, Answer, NoAnswer, Write,
            world, rVars, queues, mail, ingress, consumer, sweep
<1>1. /\ ipc' \in IngressPCs
      /\ UNCHANGED <<addressed, broken, mailbox, raw, active, receipt, iFresh, rFresh,
                     em, copies, dlq, truth, dead, accepted, smtp, ptr, cpc, goal,
                     rpc, seen, rgoal, scans>>
  BY DEF TypeOK, IngressPCs, Receipts, Terminal
<1>2. TypeOK' /\ Grows /\ copies' >= copies
  <2>1. ifails' \in 0..MaxIngressFails /\ fails' \in 0..MaxFails
    BY FailuresTyped DEF Fails, Works
  <2>2. Grows /\ copies' >= copies
    BY <1>1 DEF TypeOK, Grows
  <2> QED BY <1>1, <2>1, <2>2 DEF TypeOK
<1>3. TerminalReceiptsAreTrue' /\ IngressInv'
  <2>1. TerminalReceiptsAreTrue'
    BY DEF TypeOK, TerminalReceiptsAreTrue, IngressInv, SharingInv, Told
  <2>2. IngressInv'
    BY DEF TypeOK, IngressInv, SharingInv, HoldsPointer, Unshared, Delivered
  <2> QED BY <2>1, <2>2
<1>4. SharingInv'
  BY DEF TypeOK, IngressInv, SharingInv, Unshared, Deciding, Told, Undelivered, Delivered,
         HoldsPointer
<1> QED BY <1>1, <1>2, <1>3, <1>4, IngressTogether DEF consumer, sweep

\* The stream cannot be read.
LEMMA KeepReadStreamFails == HeldInv /\ ReadStreamFails => HeldInv'
<1> SUFFICES ASSUME HeldInv, ReadStreamFails PROVE HeldInv'
  OBVIOUS
<1> USE DEF HeldInv, PipelineInv, ReadStreamFails, At, Answer, NoAnswer, Write,
            world, rVars, queues, mail, ingress, consumer, sweep
<1>1. /\ smtp' \in {"open", "accepted", "rejected", "failed"} /\ ipc' \in IngressPCs
      /\ ptr' \in BOOLEAN
      /\ UNCHANGED <<addressed, broken, mailbox, raw, active, receipt, iFresh, rFresh,
                     em, copies, dlq, truth, dead, accepted, cpc, goal, rpc, seen,
                     rgoal, scans>>
  BY DEF TypeOK, IngressPCs, Receipts, Terminal
<1>2. TypeOK' /\ Grows /\ copies' >= copies
  <2>1. ifails' \in 0..MaxIngressFails /\ fails' \in 0..MaxFails
    BY FailuresTyped DEF Fails, Works
  <2>2. Grows /\ copies' >= copies
    BY <1>1 DEF TypeOK, Grows
  <2> QED BY <1>1, <2>1, <2>2 DEF TypeOK
<1>3. TerminalReceiptsAreTrue' /\ IngressInv'
  <2>1. TerminalReceiptsAreTrue'
    BY DEF TypeOK, TerminalReceiptsAreTrue, IngressInv, SharingInv, Told
  <2>2. IngressInv'
    BY DEF TypeOK, IngressInv, SharingInv, HoldsPointer, Unshared, Delivered
  <2> QED BY <2>1, <2>2
<1>4. SharingInv'
  BY DEF TypeOK, IngressInv, SharingInv, Unshared, Deciding, Told, Undelivered, Delivered,
         HoldsPointer
<1> QED BY <1>1, <1>2, <1>3, <1>4, IngressTogether DEF consumer, sweep

\* The archive is written.
LEMMA KeepArchive == HeldInv /\ Archive => HeldInv'
<1> SUFFICES ASSUME HeldInv, Archive PROVE HeldInv'
  OBVIOUS
<1> USE DEF HeldInv, PipelineInv, Archive, At, Answer, NoAnswer, Write,
            world, rVars, queues, mail, ingress, consumer, sweep
<1>1. /\ raw' \in {"none", "plain", "intact"} /\ ipc' \in IngressPCs
      /\ ptr' \in BOOLEAN
      /\ UNCHANGED <<addressed, broken, mailbox, active, receipt, iFresh, rFresh, em,
                     copies, dlq, truth, dead, accepted, smtp, cpc, goal, rpc, seen,
                     rgoal, scans>>
  BY DEF TypeOK, IngressPCs, Receipts, Terminal
<1>2. TypeOK' /\ Grows /\ copies' >= copies
  <2>1. ifails' \in 0..MaxIngressFails /\ fails' \in 0..MaxFails
    BY FailuresTyped DEF Fails, Works
  <2>2. Grows /\ copies' >= copies
    BY <1>1 DEF TypeOK, Grows
  <2> QED BY <1>1, <2>1, <2>2 DEF TypeOK
<1>3. TerminalReceiptsAreTrue' /\ IngressInv'
  <2>1. TerminalReceiptsAreTrue'
    BY DEF TypeOK, TerminalReceiptsAreTrue, IngressInv, SharingInv, Told
  <2>2. IngressInv'
    BY DEF TypeOK, IngressInv, SharingInv, HoldsPointer, Unshared, Delivered
  <2> QED BY <2>1, <2>2
<1>4. SharingInv'
  BY DEF TypeOK, IngressInv, SharingInv, Unshared, Deciding, Told, Undelivered, Delivered,
         HoldsPointer
<1> QED BY <1>1, <1>2, <1>3, <1>4, IngressTogether DEF consumer, sweep

\* The archive may be there.
LEMMA KeepArchiveFails == HeldInv /\ ArchiveFails => HeldInv'
<1> SUFFICES ASSUME HeldInv, ArchiveFails PROVE HeldInv'
  OBVIOUS
<1> USE DEF HeldInv, PipelineInv, ArchiveFails, At, Answer, NoAnswer, Write,
            world, rVars, queues, mail, ingress, consumer, sweep
<1>1. /\ raw' \in {"none", "plain", "intact"} /\ ipc' \in IngressPCs
      /\ UNCHANGED <<addressed, broken, mailbox, active, receipt, iFresh, rFresh, em,
                     copies, dlq, truth, dead, accepted, smtp, ptr, cpc, goal, rpc,
                     seen, rgoal, scans>>
  BY DEF TypeOK, IngressPCs, Receipts, Terminal
<1>2. TypeOK' /\ Grows /\ copies' >= copies
  <2>1. ifails' \in 0..MaxIngressFails /\ fails' \in 0..MaxFails
    BY FailuresTyped DEF Fails, Works
  <2>2. Grows /\ copies' >= copies
    BY <1>1 DEF TypeOK, Grows
  <2> QED BY <1>1, <2>1, <2>2 DEF TypeOK
<1>3. TerminalReceiptsAreTrue' /\ IngressInv'
  <2>1. TerminalReceiptsAreTrue'
    BY DEF TypeOK, TerminalReceiptsAreTrue, IngressInv, SharingInv, Told
  <2>2. IngressInv'
    BY DEF TypeOK, IngressInv, SharingInv, HoldsPointer, Unshared, Delivered
  <2> QED BY <2>1, <2>2
<1>4. SharingInv'
  BY DEF TypeOK, IngressInv, SharingInv, Unshared, Deciding, Told, Undelivered, Delivered,
         HoldsPointer
<1> QED BY <1>1, <1>2, <1>3, <1>4, IngressTogether DEF consumer, sweep

\* The archive may lack its digest.
LEMMA KeepDigestFails == HeldInv /\ DigestFails => HeldInv'
<1> SUFFICES ASSUME HeldInv, DigestFails PROVE HeldInv'
  OBVIOUS
<1> USE DEF HeldInv, PipelineInv, DigestFails, At, Answer, NoAnswer, Write,
            world, rVars, queues, mail, ingress, consumer, sweep
<1>1. /\ raw' \in {"none", "plain", "intact"}
      /\ smtp' \in {"open", "accepted", "rejected", "failed"} /\ ipc' \in IngressPCs
      /\ ptr' \in BOOLEAN
      /\ UNCHANGED <<addressed, broken, mailbox, active, receipt, iFresh, rFresh, em,
                     copies, dlq, truth, dead, accepted, cpc, goal, rpc, seen, rgoal,
                     scans>>
  BY DEF TypeOK, IngressPCs, Receipts, Terminal
<1>2. TypeOK' /\ Grows /\ copies' >= copies
  <2>1. ifails' \in 0..MaxIngressFails /\ fails' \in 0..MaxFails
    BY FailuresTyped DEF Fails, Works
  <2>2. Grows /\ copies' >= copies
    BY <1>1 DEF TypeOK, Grows
  <2> QED BY <1>1, <2>1, <2>2 DEF TypeOK
<1>3. TerminalReceiptsAreTrue' /\ IngressInv'
  <2>1. TerminalReceiptsAreTrue'
    BY DEF TypeOK, TerminalReceiptsAreTrue, IngressInv, SharingInv, Told
  <2>2. IngressInv'
    BY DEF TypeOK, IngressInv, SharingInv, HoldsPointer, Unshared, Delivered
  <2> QED BY <2>1, <2>2
<1>4. SharingInv'
  BY DEF TypeOK, IngressInv, SharingInv, Unshared, Deciding, Told, Undelivered, Delivered,
         HoldsPointer
<1> QED BY <1>1, <1>2, <1>3, <1>4, IngressTogether DEF consumer, sweep

\* The archive is in the active index, or ingress goes its own way.
LEMMA KeepMarkActive == HeldInv /\ MarkActive => HeldInv'
<1> SUFFICES ASSUME HeldInv, MarkActive PROVE HeldInv'
  OBVIOUS
<1> USE DEF HeldInv, PipelineInv, MarkActive, At, Answer, NoAnswer, Write,
            world, rVars, queues, mail, ingress, consumer, sweep
<1>1. /\ active' \in BOOLEAN /\ ipc' \in IngressPCs
      /\ UNCHANGED <<addressed, broken, mailbox, raw, receipt, iFresh, rFresh, em,
                     copies, dlq, truth, dead, accepted, smtp, ptr, cpc, goal, rpc,
                     seen, rgoal, scans>>
  BY DEF TypeOK, IngressPCs, Receipts, Terminal
<1>2. TypeOK' /\ Grows /\ copies' >= copies
  <2>1. ifails' \in 0..MaxIngressFails /\ fails' \in 0..MaxFails
    BY FailuresTyped DEF Fails, Works
  <2>2. Grows /\ copies' >= copies
    BY <1>1 DEF TypeOK, Grows
  <2> QED BY <1>1, <2>1, <2>2 DEF TypeOK
<1>3. TerminalReceiptsAreTrue' /\ IngressInv'
  <2>1. TerminalReceiptsAreTrue'
    BY DEF TypeOK, TerminalReceiptsAreTrue, IngressInv, SharingInv, Told
  <2>2. IngressInv'
    BY DEF TypeOK, IngressInv, SharingInv, HoldsPointer, Unshared, Delivered
  <2> QED BY <2>1, <2>2
<1>4. SharingInv'
  BY DEF TypeOK, IngressInv, SharingInv, Unshared, Deciding, Told, Undelivered, Delivered,
         HoldsPointer
<1> QED BY <1>1, <1>2, <1>3, <1>4, IngressTogether DEF consumer, sweep

\* The first receipt.
LEMMA KeepRecordArchived == HeldInv /\ RecordArchived => HeldInv'
<1> SUFFICES ASSUME HeldInv, RecordArchived PROVE HeldInv'
  OBVIOUS
<1> USE DEF HeldInv, PipelineInv, RecordArchived, IngressPuts, At, Answer, NoAnswer, Write,
            world, rVars, queues, mail, ingress, consumer, sweep
<1>1. /\ receipt' \in Receipts /\ iFresh' \in BOOLEAN /\ rFresh' \in BOOLEAN
      /\ ipc' \in IngressPCs
      /\ UNCHANGED <<addressed, broken, mailbox, raw, active, em, copies, dlq, truth,
                     dead, accepted, smtp, ptr, cpc, goal, rpc, seen, rgoal, scans>>
  BY DEF TypeOK, IngressPCs, Receipts, Terminal
<1>2. TypeOK' /\ Grows /\ copies' >= copies
  <2>1. ifails' \in 0..MaxIngressFails /\ fails' \in 0..MaxFails
    BY FailuresTyped DEF Fails, Works
  <2>2. Grows /\ copies' >= copies
    BY <1>1 DEF TypeOK, Grows
  <2> QED BY <1>1, <2>1, <2>2 DEF TypeOK
<1>3. TerminalReceiptsAreTrue' /\ IngressInv'
  <2>1. TerminalReceiptsAreTrue'
    BY DEF TypeOK, TerminalReceiptsAreTrue, IngressInv, SharingInv, Told
  <2>2. IngressInv'
    BY DEF TypeOK, IngressInv, SharingInv, HoldsPointer, Unshared, Delivered
  <2> QED BY <2>1, <2>2
<1>4. SharingInv'
  BY DEF TypeOK, IngressInv, SharingInv, Unshared, Deciding, Told, Undelivered, Delivered,
         HoldsPointer
<1> QED BY <1>1, <1>2, <1>3, <1>4, IngressTogether DEF consumer, sweep

\* The envelope and the mailbox are checked.
LEMMA KeepAdmit == HeldInv /\ Admit => HeldInv'
<1> SUFFICES ASSUME HeldInv, Admit PROVE HeldInv'
  OBVIOUS
<1> USE DEF HeldInv, PipelineInv, Admit, At, Answer, NoAnswer, Write,
            world, rVars, queues, mail, ingress, consumer, sweep
<1>1. /\ ipc' \in IngressPCs
      /\ UNCHANGED <<addressed, broken, mailbox, raw, active, receipt, iFresh, rFresh,
                     em, copies, dlq, truth, dead, accepted, smtp, ptr, cpc, goal,
                     rpc, seen, rgoal, scans>>
  BY DEF TypeOK, IngressPCs, Receipts, Terminal
<1>2. TypeOK' /\ Grows /\ copies' >= copies
  <2>1. ifails' \in 0..MaxIngressFails /\ fails' \in 0..MaxFails
    BY FailuresTyped DEF Fails, Works
  <2>2. Grows /\ copies' >= copies
    BY <1>1 DEF TypeOK, Grows
  <2> QED BY <1>1, <2>1, <2>2 DEF TypeOK
<1>3. TerminalReceiptsAreTrue' /\ IngressInv'
  <2>1. TerminalReceiptsAreTrue'
    BY DEF TypeOK, TerminalReceiptsAreTrue, IngressInv, SharingInv, Told
  <2>2. IngressInv'
    BY DEF TypeOK, IngressInv, SharingInv, HoldsPointer, Unshared, Delivered
  <2> QED BY <2>1, <2>2
<1>4. SharingInv'
  BY DEF TypeOK, IngressInv, SharingInv, Unshared, Deciding, Told, Undelivered, Delivered,
         HoldsPointer
<1> QED BY <1>1, <1>2, <1>3, <1>4, IngressTogether DEF consumer, sweep

\* The receipt of the admission.
LEMMA KeepRecordAdmitted == HeldInv /\ RecordAdmitted => HeldInv'
<1> SUFFICES ASSUME HeldInv, RecordAdmitted PROVE HeldInv'
  OBVIOUS
<1> USE DEF HeldInv, PipelineInv, RecordAdmitted, IngressPuts, At, Answer, NoAnswer, Write,
            world, rVars, queues, mail, ingress, consumer, sweep
<1>1. /\ receipt' \in Receipts /\ iFresh' \in BOOLEAN /\ rFresh' \in BOOLEAN
      /\ ipc' \in IngressPCs
      /\ UNCHANGED <<addressed, broken, mailbox, raw, active, em, copies, dlq, truth,
                     dead, accepted, smtp, ptr, cpc, goal, rpc, seen, rgoal, scans>>
  BY DEF TypeOK, IngressPCs, Receipts, Terminal
<1>2. TypeOK' /\ Grows /\ copies' >= copies
  <2>1. ifails' \in 0..MaxIngressFails /\ fails' \in 0..MaxFails
    BY FailuresTyped DEF Fails, Works
  <2>2. Grows /\ copies' >= copies
    BY <1>1 DEF TypeOK, Grows
  <2> QED BY <1>1, <2>1, <2>2 DEF TypeOK
<1>3. TerminalReceiptsAreTrue' /\ IngressInv'
  <2>1. TerminalReceiptsAreTrue'
    BY DEF TypeOK, TerminalReceiptsAreTrue, IngressInv, SharingInv, Told
  <2>2. IngressInv'
    BY DEF TypeOK, IngressInv, SharingInv, HoldsPointer, Unshared, Delivered
  <2> QED BY <2>1, <2>2
<1>4. SharingInv'
  BY DEF TypeOK, IngressInv, SharingInv, Unshared, Deciding, Told, Undelivered, Delivered,
         HoldsPointer
<1> QED BY <1>1, <1>2, <1>3, <1>4, IngressTogether DEF consumer, sweep

\* The queue gets the pointer, or may have it.
LEMMA KeepSendPointer == HeldInv /\ SendPointer => HeldInv'
<1> SUFFICES ASSUME HeldInv, SendPointer PROVE HeldInv'
  OBVIOUS
<1> USE DEF HeldInv, PipelineInv, SendPointer, At, Answer, NoAnswer, Write,
            world, rVars, queues, mail, ingress, consumer, sweep
<1>1. /\ copies' \in 0..MaxCopies /\ ipc' \in IngressPCs
      /\ UNCHANGED <<addressed, broken, mailbox, raw, active, receipt, iFresh, rFresh,
                     em, dlq, truth, dead, accepted, smtp, ptr, cpc, goal, rpc, seen,
                     rgoal, scans>>
  BY MoreFacts DEF TypeOK, IngressPCs, Receipts, Terminal
<1>2. TypeOK' /\ Grows /\ copies' >= copies
  <2>1. ifails' \in 0..MaxIngressFails /\ fails' \in 0..MaxFails
    BY FailuresTyped DEF Fails, Works
  <2>2. Grows /\ copies' >= copies
    BY MoreFacts, <1>1 DEF TypeOK, Grows
  <2> QED BY <1>1, <2>1, <2>2 DEF TypeOK
<1>3. TerminalReceiptsAreTrue' /\ IngressInv'
  <2>1. TerminalReceiptsAreTrue'
    BY DEF TypeOK, TerminalReceiptsAreTrue, IngressInv, SharingInv, Told
  <2>2. IngressInv'
    BY DEF TypeOK, IngressInv, SharingInv, HoldsPointer, Unshared, Delivered
  <2> QED BY <2>1, <2>2
<1>4. SharingInv'
  BY DEF TypeOK, IngressInv, SharingInv, Unshared, Deciding, Told, Undelivered, Delivered,
         HoldsPointer
<1> QED BY <1>1, <1>2, <1>3, <1>4, IngressTogether DEF consumer, sweep

\* The last receipt of ingress, and the answer.
LEMMA KeepRecordEnqueued == HeldInv /\ RecordEnqueued => HeldInv'
<1> SUFFICES ASSUME HeldInv, RecordEnqueued PROVE HeldInv'
  OBVIOUS
<1> USE DEF HeldInv, PipelineInv, RecordEnqueued, At, Answer, NoAnswer, Write,
            world, rVars, queues, mail, ingress, consumer, sweep
<1>1. /\ receipt' \in Receipts /\ iFresh' \in BOOLEAN /\ rFresh' \in BOOLEAN
      /\ smtp' \in {"open", "accepted", "rejected", "failed"} /\ ipc' \in IngressPCs
      /\ UNCHANGED <<addressed, broken, mailbox, raw, active, em, copies, dlq, truth,
                     dead, accepted, ptr, cpc, goal, rpc, seen, rgoal, scans>>
  BY DEF TypeOK, IngressPCs, Receipts, Terminal
<1>2. TypeOK' /\ Grows /\ copies' >= copies
  <2>1. ifails' \in 0..MaxIngressFails /\ fails' \in 0..MaxFails
    BY FailuresTyped DEF Fails, Works
  <2>2. Grows /\ copies' >= copies
    BY <1>1 DEF TypeOK, Grows
  <2> QED BY <1>1, <2>1, <2>2 DEF TypeOK
<1>3. TerminalReceiptsAreTrue' /\ IngressInv'
  <2>1. TerminalReceiptsAreTrue'
    BY DEF TypeOK, TerminalReceiptsAreTrue, IngressInv, SharingInv, Told
  <2>2. IngressInv'
    BY DEF TypeOK, IngressInv, SharingInv, HoldsPointer, Unshared, Delivered
  <2> QED BY <2>1, <2>2
<1>4. SharingInv'
  BY DEF TypeOK, IngressInv, SharingInv, Unshared, Deciding, Told, Undelivered, Delivered,
         HoldsPointer
<1> QED BY <1>1, <1>2, <1>3, <1>4, IngressTogether DEF consumer, sweep

\* The sender is told; nobody else has the message under an archived receipt.
LEMMA KeepRecordRejected == HeldInv /\ RecordRejected => HeldInv'
<1> SUFFICES ASSUME HeldInv, RecordRejected PROVE HeldInv'
  OBVIOUS
<1> USE DEF HeldInv, PipelineInv, RecordRejected, At, Answer, NoAnswer, Write,
            world, rVars, queues, mail, ingress, consumer, sweep
<1>1. /\ receipt' \in Receipts /\ iFresh' \in BOOLEAN /\ rFresh' \in BOOLEAN
      /\ smtp' \in {"open", "accepted", "rejected", "failed"} /\ ipc' \in IngressPCs
      /\ UNCHANGED <<addressed, broken, mailbox, raw, active, em, copies, dlq, truth,
                     dead, accepted, ptr, cpc, goal, rpc, seen, rgoal, scans>>
  BY DEF TypeOK, IngressPCs, Receipts, Terminal
<1>2. TypeOK' /\ Grows /\ copies' >= copies
  <2>1. ifails' \in 0..MaxIngressFails /\ fails' \in 0..MaxFails
    BY FailuresTyped DEF Fails, Works
  <2>2. Grows /\ copies' >= copies
    BY <1>1 DEF TypeOK, Grows
  <2> QED BY <1>1, <2>1, <2>2 DEF TypeOK
<1>3. TerminalReceiptsAreTrue' /\ IngressInv'
  <2>1. TerminalReceiptsAreTrue'
    BY DEF TypeOK, TerminalReceiptsAreTrue, IngressInv, SharingInv, Told
  <2>2. IngressInv'
    BY DEF TypeOK, IngressInv, SharingInv, HoldsPointer, Unshared, Delivered
  <2> QED BY <2>1, <2>2
<1>4. SharingInv'
  BY DEF TypeOK, IngressInv, SharingInv, Unshared, Deciding, Told, Undelivered, Delivered,
         HoldsPointer
<1> QED BY <1>1, <1>2, <1>3, <1>4, IngressTogether DEF consumer, sweep

\* The rejection is read back.
LEMMA KeepReadBackRejection == HeldInv /\ ReadBackRejection => HeldInv'
<1> SUFFICES ASSUME HeldInv, ReadBackRejection PROVE HeldInv'
  OBVIOUS
<1> USE DEF HeldInv, PipelineInv, ReadBackRejection, At, Answer, NoAnswer, Write,
            world, rVars, queues, mail, ingress, consumer, sweep
<1>1. /\ ipc' \in IngressPCs
      /\ UNCHANGED <<addressed, broken, mailbox, raw, active, receipt, iFresh, rFresh,
                     em, copies, dlq, truth, dead, accepted, smtp, ptr, cpc, goal,
                     rpc, seen, rgoal, scans>>
  BY DEF TypeOK, IngressPCs, Receipts, Terminal
<1>2. TypeOK' /\ Grows /\ copies' >= copies
  <2>1. ifails' \in 0..MaxIngressFails /\ fails' \in 0..MaxFails
    BY FailuresTyped DEF Fails, Works
  <2>2. Grows /\ copies' >= copies
    BY <1>1 DEF TypeOK, Grows
  <2> QED BY <1>1, <2>1, <2>2 DEF TypeOK
<1>3. TerminalReceiptsAreTrue' /\ IngressInv'
  <2>1. TerminalReceiptsAreTrue'
    BY DEF TypeOK, TerminalReceiptsAreTrue, IngressInv, SharingInv, Told
  <2>2. IngressInv'
    BY DEF TypeOK, IngressInv, SharingInv, HoldsPointer, Unshared, Delivered
  <2> QED BY <2>1, <2>2
<1>4. SharingInv'
  BY DEF TypeOK, IngressInv, SharingInv, Unshared, Deciding, Told, Undelivered, Delivered,
         HoldsPointer
<1> QED BY <1>1, <1>2, <1>3, <1>4, IngressTogether DEF consumer, sweep

\* A rejection that is not durable is forwarded.
LEMMA KeepEstablishAfterRejection == HeldInv /\ EstablishAfterRejection => HeldInv'
<1> SUFFICES ASSUME HeldInv, EstablishAfterRejection PROVE HeldInv'
  OBVIOUS
<1> USE DEF HeldInv, PipelineInv, EstablishAfterRejection, Begin, BeginPartly, At, Answer, NoAnswer, Write,
            world, rVars, queues, mail, ingress, consumer, sweep
<1>1. /\ receipt' \in Receipts /\ iFresh' \in BOOLEAN /\ rFresh' \in BOOLEAN
      /\ em' \in {"none", "pending", "sent"} /\ ipc' \in IngressPCs
      /\ UNCHANGED <<addressed, broken, mailbox, raw, active, copies, dlq, truth,
                     dead, accepted, smtp, ptr, cpc, goal, rpc, seen, rgoal, scans>>
  BY DEF TypeOK, IngressPCs, Receipts, Terminal
<1>2. TypeOK' /\ Grows /\ copies' >= copies
  <2>1. ifails' \in 0..MaxIngressFails /\ fails' \in 0..MaxFails
    BY FailuresTyped DEF Fails, Works
  <2>2. Grows /\ copies' >= copies
    BY <1>1 DEF TypeOK, Grows
  <2> QED BY <1>1, <2>1, <2>2 DEF TypeOK
<1>3. TerminalReceiptsAreTrue' /\ IngressInv'
  <2>1. TerminalReceiptsAreTrue'
    BY DEF TypeOK, TerminalReceiptsAreTrue, IngressInv, SharingInv, Told
  <2>2. IngressInv'
    BY DEF TypeOK, IngressInv, SharingInv, HoldsPointer, Unshared, Delivered
  <2> QED BY <2>1, <2>2
<1>4. SharingInv'
  BY DEF TypeOK, IngressInv, SharingInv, Unshared, Deciding, Told, Undelivered, Delivered,
         HoldsPointer
<1> QED BY <1>1, <1>2, <1>3, <1>4, IngressTogether DEF consumer, sweep

\* A durable rejection leaves the active index.
LEMMA KeepClearAfterRejection == HeldInv /\ ClearAfterRejection => HeldInv'
<1> SUFFICES ASSUME HeldInv, ClearAfterRejection PROVE HeldInv'
  OBVIOUS
<1> USE DEF HeldInv, PipelineInv, ClearAfterRejection, At, Answer, NoAnswer, Write,
            world, rVars, queues, mail, ingress, consumer, sweep
<1>1. /\ active' \in BOOLEAN /\ ipc' \in IngressPCs
      /\ UNCHANGED <<addressed, broken, mailbox, raw, receipt, iFresh, rFresh, em,
                     copies, dlq, truth, dead, accepted, smtp, ptr, cpc, goal, rpc,
                     seen, rgoal, scans>>
  BY DEF TypeOK, IngressPCs, Receipts, Terminal
<1>2. TypeOK' /\ Grows /\ copies' >= copies
  <2>1. ifails' \in 0..MaxIngressFails /\ fails' \in 0..MaxFails
    BY FailuresTyped DEF Fails, Works
  <2>2. Grows /\ copies' >= copies
    BY <1>1 DEF TypeOK, Grows
  <2> QED BY <1>1, <2>1, <2>2 DEF TypeOK
<1>3. TerminalReceiptsAreTrue' /\ IngressInv'
  <2>1. TerminalReceiptsAreTrue'
    BY DEF TypeOK, TerminalReceiptsAreTrue, IngressInv, SharingInv, Told
  <2>2. IngressInv'
    BY DEF TypeOK, IngressInv, SharingInv, HoldsPointer, Unshared, Delivered
  <2> QED BY <2>1, <2>2
<1>4. SharingInv'
  BY DEF TypeOK, IngressInv, SharingInv, Unshared, Deciding, Told, Undelivered, Delivered,
         HoldsPointer
<1> QED BY <1>1, <1>2, <1>3, <1>4, IngressTogether DEF consumer, sweep

\* The mailbox takes the message without the queue.
LEMMA KeepStoreDirectly == HeldInv /\ StoreDirectly => HeldInv'
<1> SUFFICES ASSUME HeldInv, StoreDirectly PROVE HeldInv'
  OBVIOUS
<1> USE DEF HeldInv, PipelineInv, StoreDirectly, At, Answer, NoAnswer, Write,
            world, rVars, queues, mail, ingress, consumer, sweep
<1>1. /\ truth' \in {"none", "stored", "deleted"}
      /\ smtp' \in {"open", "accepted", "rejected", "failed"} /\ ipc' \in IngressPCs
      /\ UNCHANGED <<addressed, broken, mailbox, raw, active, receipt, iFresh, rFresh,
                     em, copies, dlq, dead, accepted, ptr, cpc, goal, rpc, seen,
                     rgoal, scans>>
  BY DEF TypeOK, IngressPCs, Receipts, Terminal
<1>2. TypeOK' /\ Grows /\ copies' >= copies
  <2>1. ifails' \in 0..MaxIngressFails /\ fails' \in 0..MaxFails
    BY FailuresTyped DEF Fails, Works
  <2>2. Grows /\ copies' >= copies
    BY <1>1 DEF TypeOK, Grows
  <2> QED BY <1>1, <2>1, <2>2 DEF TypeOK
<1>3. TerminalReceiptsAreTrue' /\ IngressInv'
  <2>1. TerminalReceiptsAreTrue'
    BY DEF TypeOK, TerminalReceiptsAreTrue, IngressInv, SharingInv, Told
  <2>2. IngressInv'
    BY DEF TypeOK, IngressInv, SharingInv, HoldsPointer, Unshared, Delivered
  <2> QED BY <2>1, <2>2
<1>4. SharingInv'
  BY DEF TypeOK, IngressInv, SharingInv, Unshared, Deciding, Told, Undelivered, Delivered,
         HoldsPointer
<1> QED BY <1>1, <1>2, <1>3, <1>4, IngressTogether DEF consumer, sweep

\* The mailbox may have taken it.
LEMMA KeepStoreDirectlyFails == HeldInv /\ StoreDirectlyFails => HeldInv'
<1> SUFFICES ASSUME HeldInv, StoreDirectlyFails PROVE HeldInv'
  OBVIOUS
<1> USE DEF HeldInv, PipelineInv, StoreDirectlyFails, At, Answer, NoAnswer, Write,
            world, rVars, queues, mail, ingress, consumer, sweep
<1>1. /\ truth' \in {"none", "stored", "deleted"}
      /\ smtp' \in {"open", "accepted", "rejected", "failed"} /\ ipc' \in IngressPCs
      /\ UNCHANGED <<addressed, broken, mailbox, raw, active, receipt, iFresh, rFresh,
                     em, copies, dlq, dead, accepted, ptr, cpc, goal, rpc, seen,
                     rgoal, scans>>
  BY DEF TypeOK, IngressPCs, Receipts, Terminal
<1>2. TypeOK' /\ Grows /\ copies' >= copies
  <2>1. ifails' \in 0..MaxIngressFails /\ fails' \in 0..MaxFails
    BY FailuresTyped DEF Fails, Works
  <2>2. Grows /\ copies' >= copies
    BY <1>1 DEF TypeOK, Grows
  <2> QED BY <1>1, <2>1, <2>2 DEF TypeOK
<1>3. TerminalReceiptsAreTrue' /\ IngressInv'
  <2>1. TerminalReceiptsAreTrue'
    BY DEF TypeOK, TerminalReceiptsAreTrue, IngressInv, SharingInv, Told
  <2>2. IngressInv'
    BY DEF TypeOK, IngressInv, SharingInv, HoldsPointer, Unshared, Delivered
  <2> QED BY <2>1, <2>2
<1>4. SharingInv'
  BY DEF TypeOK, IngressInv, SharingInv, Unshared, Deciding, Told, Undelivered, Delivered,
         HoldsPointer
<1> QED BY <1>1, <1>2, <1>3, <1>4, IngressTogether DEF consumer, sweep

\* A forward is begun in place of the mailbox.
LEMMA KeepEstablish == HeldInv /\ Establish => HeldInv'
<1> SUFFICES ASSUME HeldInv, Establish PROVE HeldInv'
  OBVIOUS
<1> USE DEF HeldInv, PipelineInv, Establish, Begin, BeginPartly, At, Answer, NoAnswer, Write,
            world, rVars, queues, mail, ingress, consumer, sweep
<1>1. /\ receipt' \in Receipts /\ iFresh' \in BOOLEAN /\ rFresh' \in BOOLEAN
      /\ em' \in {"none", "pending", "sent"}
      /\ smtp' \in {"open", "accepted", "rejected", "failed"} /\ ipc' \in IngressPCs
      /\ UNCHANGED <<addressed, broken, mailbox, raw, active, copies, dlq, truth,
                     dead, accepted, ptr, cpc, goal, rpc, seen, rgoal, scans>>
  BY DEF TypeOK, IngressPCs, Receipts, Terminal
<1>2. TypeOK' /\ Grows /\ copies' >= copies
  <2>1. ifails' \in 0..MaxIngressFails /\ fails' \in 0..MaxFails
    BY FailuresTyped DEF Fails, Works
  <2>2. Grows /\ copies' >= copies
    BY <1>1 DEF TypeOK, Grows
  <2> QED BY <1>1, <2>1, <2>2 DEF TypeOK
<1>3. TerminalReceiptsAreTrue' /\ IngressInv'
  <2>1. TerminalReceiptsAreTrue'
    BY DEF TypeOK, TerminalReceiptsAreTrue, IngressInv, SharingInv, Told
  <2>2. IngressInv'
    BY DEF TypeOK, IngressInv, SharingInv, HoldsPointer, Unshared, Delivered
  <2> QED BY <2>1, <2>2
<1>4. SharingInv'
  BY DEF TypeOK, IngressInv, SharingInv, Unshared, Deciding, Told, Undelivered, Delivered,
         HoldsPointer
<1> QED BY <1>1, <1>2, <1>3, <1>4, IngressTogether DEF consumer, sweep

\* SMTP forwards the message itself.
LEMMA KeepForward == HeldInv /\ Forward => HeldInv'
<1> SUFFICES ASSUME HeldInv, Forward PROVE HeldInv'
  OBVIOUS
<1> USE DEF HeldInv, PipelineInv, Forward, At, Answer, NoAnswer, Write,
            world, rVars, queues, mail, ingress, consumer, sweep
<1>1. /\ accepted' \in BOOLEAN
      /\ smtp' \in {"open", "accepted", "rejected", "failed"} /\ ipc' \in IngressPCs
      /\ UNCHANGED <<addressed, broken, mailbox, raw, active, receipt, iFresh, rFresh,
                     em, copies, dlq, truth, dead, ptr, cpc, goal, rpc, seen, rgoal,
                     scans>>
  BY DEF TypeOK, IngressPCs, Receipts, Terminal
<1>2. TypeOK' /\ Grows /\ copies' >= copies
  <2>1. ifails' \in 0..MaxIngressFails /\ fails' \in 0..MaxFails
    BY FailuresTyped DEF Fails, Works
  <2>2. Grows /\ copies' >= copies
    <3>1. accepted \in BOOLEAN /\ accepted' \in {accepted, TRUE}
      BY DEF TypeOK
    <3>2. accepted => accepted'
      BY <3>1
    <3> QED BY <1>1, <3>2 DEF TypeOK, Grows
  <2> QED BY <1>1, <2>1, <2>2 DEF TypeOK
<1>3. TerminalReceiptsAreTrue' /\ IngressInv'
  <2>1. TerminalReceiptsAreTrue'
    BY DEF TypeOK, TerminalReceiptsAreTrue, IngressInv, SharingInv, Told
  <2>2. IngressInv'
    BY DEF TypeOK, IngressInv, SharingInv, HoldsPointer, Unshared, Delivered
  <2> QED BY <2>1, <2>2
<1>4. SharingInv'
  BY DEF TypeOK, IngressInv, SharingInv, Unshared, Deciding, Told, Undelivered, Delivered,
         HoldsPointer
<1> QED BY <1>1, <1>2, <1>3, <1>4, IngressTogether DEF consumer, sweep

\* The acceptance of that forward is recorded.
LEMMA KeepCommitForward == HeldInv /\ CommitForward => HeldInv'
<1> SUFFICES ASSUME HeldInv, CommitForward PROVE HeldInv'
  OBVIOUS
<1> USE DEF HeldInv, PipelineInv, CommitForward, At, Answer, NoAnswer, Write,
            world, rVars, queues, mail, ingress, consumer, sweep
<1>1. /\ active' \in BOOLEAN /\ receipt' \in Receipts /\ iFresh' \in BOOLEAN
      /\ rFresh' \in BOOLEAN /\ em' \in {"none", "pending", "sent"}
      /\ smtp' \in {"open", "accepted", "rejected", "failed"} /\ ipc' \in IngressPCs
      /\ UNCHANGED <<addressed, broken, mailbox, raw, copies, dlq, truth, dead,
                     accepted, ptr, cpc, goal, rpc, seen, rgoal, scans>>
  BY DEF TypeOK, IngressPCs, Receipts, Terminal
<1>2. TypeOK' /\ Grows /\ copies' >= copies
  <2>1. ifails' \in 0..MaxIngressFails /\ fails' \in 0..MaxFails
    BY FailuresTyped DEF Fails, Works
  <2>2. Grows /\ copies' >= copies
    BY <1>1 DEF TypeOK, Grows
  <2> QED BY <1>1, <2>1, <2>2 DEF TypeOK
<1>3. TerminalReceiptsAreTrue' /\ IngressInv'
  <2>1. TerminalReceiptsAreTrue'
    BY DEF TypeOK, TerminalReceiptsAreTrue, IngressInv, SharingInv, Told
  <2>2. IngressInv'
    <3>1. accepted' /\ ipc' = "done" /\ smtp' = "accepted" /\ raw' = raw /\ ptr' = ptr
      BY DEF TypeOK, IngressInv
    <3>2. iFresh' => iFresh /\ receipt' = receipt
      OBVIOUS
    <3> QED BY <3>1, <3>2 DEF IngressInv, HoldsPointer, Delivered
  <2> QED BY <2>1, <2>2
<1>4. SharingInv'
  BY DEF TypeOK, IngressInv, SharingInv, Unshared, Deciding, Told, Undelivered, Delivered,
         HoldsPointer
<1> QED BY <1>1, <1>2, <1>3, <1>4, IngressTogether DEF consumer, sweep

\* A forward is begun, or the sender told, after SMTP's own failed.
LEMMA KeepEstablishOrReject == HeldInv /\ EstablishOrReject => HeldInv'
<1> SUFFICES ASSUME HeldInv, EstablishOrReject PROVE HeldInv'
  OBVIOUS
<1> USE DEF HeldInv, PipelineInv, EstablishOrReject, Begin, BeginPartly, At, Answer, NoAnswer, Write,
            world, rVars, queues, mail, ingress, consumer, sweep
<1>1. /\ receipt' \in Receipts /\ iFresh' \in BOOLEAN /\ rFresh' \in BOOLEAN
      /\ em' \in {"none", "pending", "sent"}
      /\ smtp' \in {"open", "accepted", "rejected", "failed"} /\ ipc' \in IngressPCs
      /\ UNCHANGED <<addressed, broken, mailbox, raw, active, copies, dlq, truth,
                     dead, accepted, ptr, cpc, goal, rpc, seen, rgoal, scans>>
  BY DEF TypeOK, IngressPCs, Receipts, Terminal
<1>2. TypeOK' /\ Grows /\ copies' >= copies
  <2>1. ifails' \in 0..MaxIngressFails /\ fails' \in 0..MaxFails
    BY FailuresTyped DEF Fails, Works
  <2>2. Grows /\ copies' >= copies
    BY <1>1 DEF TypeOK, Grows
  <2> QED BY <1>1, <2>1, <2>2 DEF TypeOK
<1>3. TerminalReceiptsAreTrue' /\ IngressInv'
  <2>1. TerminalReceiptsAreTrue'
    BY DEF TypeOK, TerminalReceiptsAreTrue, IngressInv, SharingInv, Told
  <2>2. IngressInv'
    BY DEF TypeOK, IngressInv, SharingInv, HoldsPointer, Unshared, Delivered
  <2> QED BY <2>1, <2>2
<1>4. SharingInv'
  BY DEF TypeOK, IngressInv, SharingInv, Unshared, Deciding, Told, Undelivered, Delivered,
         HoldsPointer
<1> QED BY <1>1, <1>2, <1>3, <1>4, IngressTogether DEF consumer, sweep

\* Ingress is gone.
LEMMA KeepIngressCrash == HeldInv /\ IngressCrash => HeldInv'
<1> SUFFICES ASSUME HeldInv, IngressCrash PROVE HeldInv'
  OBVIOUS
<1> USE DEF HeldInv, PipelineInv, IngressCrash, At, Answer, NoAnswer, Write,
            world, rVars, queues, mail, ingress, consumer, sweep
<1>1. /\ smtp' \in {"open", "accepted", "rejected", "failed"} /\ ipc' \in IngressPCs
      /\ UNCHANGED <<addressed, broken, mailbox, raw, active, receipt, iFresh, rFresh,
                     em, copies, dlq, truth, dead, accepted, ptr, cpc, goal, rpc,
                     seen, rgoal, scans>>
  BY DEF TypeOK, IngressPCs, Receipts, Terminal
<1>2. TypeOK' /\ Grows /\ copies' >= copies
  <2>1. ifails' \in 0..MaxIngressFails /\ fails' \in 0..MaxFails
    BY FailuresTyped DEF Fails, Works
  <2>2. Grows /\ copies' >= copies
    BY <1>1 DEF TypeOK, Grows
  <2> QED BY <1>1, <2>1, <2>2 DEF TypeOK
<1>3. TerminalReceiptsAreTrue' /\ IngressInv'
  <2>1. TerminalReceiptsAreTrue'
    BY DEF TypeOK, TerminalReceiptsAreTrue, IngressInv, SharingInv, Told
  <2>2. IngressInv'
    BY DEF TypeOK, IngressInv, SharingInv, HoldsPointer, Unshared, Delivered
  <2> QED BY <2>1, <2>2
<1>4. SharingInv'
  BY DEF TypeOK, IngressInv, SharingInv, Unshared, Deciding, Told, Undelivered, Delivered,
         HoldsPointer
<1> QED BY <1>1, <1>2, <1>3, <1>4, IngressTogether DEF consumer, sweep

-----------------------------------------------------------------------------
(* Consumers                                                               *)

\* A consumer at work is counted, and so has a copy.
LEMMA BusyOne ==
  ASSUME TypeOK, CopyInv, NEW c \in Consumers, cpc[c] # "idle"
  PROVE  copies >= 1 /\ copies - 1 \in 0..MaxCopies
<1>1. c \in Busy
  BY DEF Busy
<1>2. Cardinality(Busy) # 0
  BY <1>1, BusyFacts, FS_EmptySet
<1> QED BY <1>2, BusyFacts, PipelineAssumption DEF CopyInv, TypeOK

\* The copies stay enough when a consumer starts, goes on, or ends.
LEMMA BusyStep ==
  ASSUME TypeOK, CopyInv, NEW c \in Consumers, NEW q,
         cpc' = [cpc EXCEPT ![c] = q], copies' \in Nat,
         \/ cpc[c] # "idle" /\ q # "idle" /\ copies' = copies
         \/ cpc[c] # "idle" /\ q = "idle" /\ copies' >= copies - 1
         \/ cpc[c] = "idle" /\ q # "idle" /\ Cardinality(Busy) < copies /\ copies' = copies
  PROVE  CopyInv'
<1>1. /\ cpc'[c] = q /\ \A d \in Consumers \ {c} : cpc'[d] = cpc[d]
      /\ copies \in Nat /\ IsFiniteSet(Busy) /\ Cardinality(Busy) \in Nat
      /\ Cardinality(Busy) <= copies
  BY BusyFacts, PipelineAssumption DEF TypeOK, CopyInv
<1>2. CASE cpc[c] # "idle" /\ q # "idle"
  <2>1. Busy' = Busy
    BY <1>1, <1>2 DEF Busy
  <2> QED BY <1>1, <1>2, <2>1 DEF CopyInv
<1>3. CASE cpc[c] # "idle" /\ q = "idle"
  <2>1. Busy' = Busy \ {c} /\ c \in Busy
    BY <1>1, <1>3 DEF Busy
  <2>2. Cardinality(Busy') = Cardinality(Busy) - 1
    BY <1>1, <2>1, FS_RemoveElement
  <2> QED BY <1>1, <1>3, <2>2 DEF CopyInv
<1>4. CASE cpc[c] = "idle" /\ q # "idle"
  <2>1. Busy' = Busy \cup {c} /\ c \notin Busy
    BY <1>1, <1>4 DEF Busy
  <2>2. Cardinality(Busy') = Cardinality(Busy) + 1
    BY <1>1, <2>1, FS_AddElement
  <2> QED BY <1>1, <1>4, <2>2 DEF CopyInv
<1> QED BY <1>2, <1>3, <1>4

\* A consumer goes on to a receipt that is true.
LEMMA GoalStep ==
  ASSUME TypeOK, GoalInv, Grows, NEW c \in Consumers, NEW q, NEW v,
         cpc' = [cpc EXCEPT ![c] = q], goal' = [goal EXCEPT ![c] = v],
         UNCHANGED <<rpc, rgoal>>,
         q \in {"final", "final2", "check"} =>
           \/ v \in {"stored", "deleted"} /\ truth' # "none"
              /\ (v = "deleted" => truth' = "deleted")
           \/ q = "check" /\ v = "forwarded" /\ accepted'
  PROVE  GoalInv'
<1>1. /\ cpc'[c] = q /\ \A d \in Consumers \ {c} : cpc'[d] = cpc[d]
      /\ goal'[c] = v /\ \A d \in Consumers \ {c} : goal'[d] = goal[d]
  BY DEF TypeOK
<1>2. ASSUME NEW d \in Consumers
      PROVE  /\ cpc'[d] \in {"final", "final2"} => Projected(goal[d])'
             /\ cpc'[d] = "check" =>
                  Projected(goal[d])' \/ (goal'[d] = "forwarded" /\ accepted')
  <2>1. CASE d = c
    BY <1>1, <2>1 DEF Projected
  <2>2. CASE d # c
    BY <1>1, <2>2 DEF Projected, GoalInv, Grows
  <2> QED BY <2>1, <2>2
<1>3. rpc' \in {"put", "winner"} => Projected(rgoal)'
  BY DEF Projected, GoalInv, Grows
<1> QED BY <1>2, <1>3 DEF GoalInv

\* A step by one who was given the message, in its parts.
LEMMA SharedTogether ==
  ASSUME HeldInv, TypeOK', TerminalReceiptsAreTrue', Grows, GoalInv', CopyInv',
         UNCHANGED <<raw, ingress>>, receipt' \notin Unshared,
         iFresh' => iFresh /\ receipt' = receipt,
         em' = "sent" => em = "sent" \/ accepted'
  PROVE  HeldInv'
<1>1. IngressInv'
  BY DEF HeldInv, IngressInv, Delivered, Grows, ingress
<1>2. SharingInv'
  BY DEF SharingInv, Unshared
<1> QED
  BY <1>1, <1>2
     DEF HeldInv, PipelineInv, RejectionIsFinal, Unshared

\* A consumer only works on a message that was shared.
LEMMA ConsumerShared ==
  ASSUME HeldInv, NEW c \in Consumers, cpc[c] # "idle" \/ copies > 0 \/ dlq > 0
  PROVE  receipt \notin Unshared
BY DEF HeldInv, SharingInv

\* A copy is delivered, and its receipt read.
LEMMA KeepDeliver ==
  ASSUME HeldInv, NEW c \in Consumers, Deliver(c)
  PROVE  HeldInv'
<1>7. TypeOK /\ TerminalReceiptsAreTrue /\ GoalInv /\ CopyInv /\ copies \in Nat
  BY PipelineAssumption DEF HeldInv, PipelineInv, TypeOK
<1> USE DEF HeldInv, PipelineInv, Deliver, To, Seek, Quiet,
            world, rVars, queues, mail, ingress, consumer, sweep
<1>1. /\ cpc' \in [Consumers -> ConsumerPCs] /\ goal' \in [Consumers -> Receipts]
      /\ UNCHANGED <<addressed, broken, mailbox, raw, active, receipt, iFresh, rFresh,
                     em, copies, dlq, truth, dead, accepted, smtp, ipc, ptr, rpc,
                     seen, rgoal, scans>>
  BY DEF TypeOK, ConsumerPCs, Receipts, Terminal
<1>2. TypeOK'
  <2>1. fails' \in 0..MaxFails
    <3>1. fails' = fails \/ (fails < MaxFails /\ fails' = fails + 1)
      BY DEF Fail, NoFail
    <3> QED BY <1>7, <3>1, PipelineAssumption DEF TypeOK
  <2>2. ifails' = ifails
    OBVIOUS
  <2> QED BY <1>1, <1>7, <2>1, <2>2 DEF TypeOK
<1>3. receipt \notin Unshared /\ receipt' \notin Unshared
  <2>1. copies > 0 \/ cpc[c] # "idle"
    BY <1>7, BusyFacts
  <2>2. receipt \notin Unshared
    BY <2>1, ConsumerShared
  <2> QED BY <2>2 DEF Unshared
<1>4. /\ Grows /\ (em' = "sent" => em = "sent" \/ accepted')
      /\ iFresh' => iFresh /\ receipt' = receipt
  BY <1>1 DEF TypeOK, Grows
<1>5. TerminalReceiptsAreTrue'
  BY <1>1, <1>3, <1>4 DEF TerminalReceiptsAreTrue, Grows, Unshared
<1>6. /\ Cardinality(Busy) < copies /\ cpc[c] = "idle" /\ copies' = copies
      /\ \/ To(c, "handoff") /\ Seek(c, "absent")
         \/ receipt \in Terminal /\ To(c, "check") /\ Seek(c, receipt)
         \/ To(c, "mailbox") /\ Seek(c, "absent")
  <2> DEFINE q == CASE receipt \in Terminal -> "check"
                    [] receipt \in {"absent", "pending"} -> "handoff"
                    [] OTHER -> "mailbox"
  <2>1. /\ Cardinality(Busy) < copies /\ cpc[c] = "idle" /\ copies' = copies
        /\ \/ To(c, q) /\ Seek(c, IF receipt \in Terminal THEN receipt ELSE "absent")
           \/ To(c, "handoff") /\ Seek(c, "absent")
    OBVIOUS
  <2>2. receipt \in Terminal => q = "check"
    BY DEF Terminal
  <2>3. receipt \notin Terminal => q \in {"handoff", "mailbox"}
    OBVIOUS
  <2> HIDE DEF q, To, Seek, Deliver
  <2> QED BY <2>1, <2>2, <2>3
<1> HIDE DEF HeldInv, PipelineInv, Deliver, To, Seek, Quiet
<1>8. PICK q \in {"handoff", "check", "mailbox"}, v \in {"absent", receipt} :
        /\ cpc' = [cpc EXCEPT ![c] = q] /\ goal' = [goal EXCEPT ![c] = v]
        /\ q = "check" => v = receipt /\ receipt \in Terminal
  BY <1>6 DEF To, Seek
<1>9. GoalInv'
  <2>1. q = "check" =>
          \/ v \in {"stored", "deleted"} /\ truth' # "none"
             /\ (v = "deleted" => truth' = "deleted")
          \/ v = "forwarded" /\ accepted'
    <3>1. receipt \in Terminal => receipt \in {"stored", "deleted", "forwarded"}
      BY <1>3 DEF Terminal, Unshared
    <3>2. receipt = "forwarded" => accepted'
      BY <1>4, <1>7 DEF TerminalReceiptsAreTrue, Grows
    <3>3. /\ receipt = "stored" => truth' # "none"
          /\ receipt = "deleted" => truth' = "deleted"
      BY <1>4, <1>7 DEF TerminalReceiptsAreTrue, Grows
    <3>4. CASE receipt = "stored"
      BY <1>8, <3>3, <3>4
    <3>5. CASE receipt = "deleted"
      BY <1>8, <3>3, <3>5
    <3>6. CASE receipt = "forwarded"
      BY <1>8, <3>2, <3>6
    <3> QED BY <1>8, <3>1, <3>4, <3>5, <3>6
  <2> QED BY <1>1, <1>4, <1>7, <1>8, <2>1, GoalStep
<1>10. CopyInv'
  BY <1>6, <1>7, <1>8, BusyStep
<1>11. UNCHANGED <<raw, ingress>>
  BY DEF Deliver, Quiet
<1> QED BY <1>2, <1>3, <1>4, <1>5, <1>9, <1>10, <1>11, SharedTogether

\* A terminal receipt ends the delivery, or is doubted.
LEMMA KeepCheckTerminal ==
  ASSUME HeldInv, NEW c \in Consumers, CheckTerminal(c)
  PROVE  HeldInv'
<1>7. TypeOK /\ TerminalReceiptsAreTrue /\ GoalInv /\ CopyInv /\ copies \in Nat
  BY PipelineAssumption DEF HeldInv, PipelineInv, TypeOK
<1> USE DEF HeldInv, PipelineInv, CheckTerminal, Ack, To, Seek, Quiet,
            world, rVars, queues, mail, ingress, consumer, sweep
<1>0. cpc[c] # "idle" /\ copies >= 1 /\ copies - 1 \in 0..MaxCopies
  BY BusyOne DEF TypeOK
<1>1. /\ active' \in BOOLEAN /\ copies' \in 0..MaxCopies
      /\ cpc' \in [Consumers -> ConsumerPCs] /\ goal' \in [Consumers -> Receipts]
      /\ UNCHANGED <<addressed, broken, mailbox, raw, receipt, iFresh, rFresh, em,
                     dlq, truth, dead, accepted, smtp, ipc, ptr, rpc, seen, rgoal,
                     scans>>
  BY <1>0 DEF TypeOK, ConsumerPCs, Receipts, Terminal
<1>2. TypeOK'
  <2>1. fails' \in 0..MaxFails
    <3>1. fails' = fails \/ (fails < MaxFails /\ fails' = fails + 1)
      BY DEF Fail, NoFail
    <3> QED BY <1>7, <3>1, PipelineAssumption DEF TypeOK
  <2>2. ifails' = ifails
    OBVIOUS
  <2> QED BY <1>1, <1>7, <2>1, <2>2 DEF TypeOK
<1>3. receipt \notin Unshared /\ receipt' \notin Unshared
  <2>1. copies > 0 \/ cpc[c] # "idle"
    BY <1>7, BusyFacts
  <2>2. receipt \notin Unshared
    BY <2>1, ConsumerShared
  <2> QED BY <2>2 DEF Unshared
<1>4. /\ Grows /\ (em' = "sent" => em = "sent" \/ accepted')
      /\ iFresh' => iFresh /\ receipt' = receipt
  BY <1>1 DEF TypeOK, Grows
<1>5. TerminalReceiptsAreTrue'
  BY <1>1, <1>3, <1>4 DEF TerminalReceiptsAreTrue, Grows, Unshared
<1>6. \E q \in {"idle", "mailbox"} : \E v :
        /\ cpc' = [cpc EXCEPT ![c] = q] /\ goal' = [goal EXCEPT ![c] = v]
        /\ q = "idle" => copies' = copies - 1
        /\ q # "idle" => copies' = copies
  OBVIOUS
<1> HIDE DEF HeldInv, PipelineInv, CheckTerminal, Ack, To, Seek, Quiet
<1>8. PICK q, v :
        /\ cpc' = [cpc EXCEPT ![c] = q] /\ goal' = [goal EXCEPT ![c] = v]
        /\ q \notin {"final", "final2", "check"}
        /\ q = "idle" => copies' = copies - 1 \/ copies' = copies
        /\ q # "idle" => copies' = copies
  BY <1>1, <1>6
<1>9. GoalInv'
  BY <1>1, <1>4, <1>7, <1>8, GoalStep
<1>10. CopyInv'
  <2>1. copies' \in Nat
    BY <1>2, PipelineAssumption DEF TypeOK
  <2>2. CASE q = "idle"
    <3>1. copies' >= copies - 1
      BY <1>7, <1>8, <2>2
    <3> QED BY <1>0, <1>7, <1>8, <2>1, <2>2, <3>1, BusyStep
  <2>3. CASE q # "idle"
    BY <1>0, <1>7, <1>8, <2>1, <2>3, BusyStep
  <2> QED BY <2>2, <2>3
<1>11. UNCHANGED <<raw, ingress>>
  BY DEF CheckTerminal, Ack, Quiet
<1> QED BY <1>2, <1>3, <1>4, <1>5, <1>9, <1>10, <1>11, SharedTogether

\* The mailbox is checked.
LEMMA KeepCheckMailbox ==
  ASSUME HeldInv, NEW c \in Consumers, CheckMailbox(c)
  PROVE  HeldInv'
<1>7. TypeOK /\ TerminalReceiptsAreTrue /\ GoalInv /\ CopyInv /\ copies \in Nat
  BY PipelineAssumption DEF HeldInv, PipelineInv, TypeOK
<1> USE DEF HeldInv, PipelineInv, CheckMailbox, Goes, To, Seek, Quiet,
            world, rVars, queues, mail, ingress, consumer, sweep
<1>0. cpc[c] # "idle" /\ copies >= 1 /\ copies - 1 \in 0..MaxCopies
  BY BusyOne DEF TypeOK
<1>1. /\ cpc' \in [Consumers -> ConsumerPCs]
      /\ UNCHANGED <<addressed, broken, mailbox, raw, active, receipt, iFresh, rFresh,
                     em, copies, dlq, truth, dead, accepted, smtp, ipc, ptr, goal,
                     rpc, seen, rgoal, scans>>
  BY <1>0 DEF TypeOK, ConsumerPCs, Receipts, Terminal
<1>2. TypeOK'
  <2>1. fails' \in 0..MaxFails
    <3>1. fails' = fails \/ (fails < MaxFails /\ fails' = fails + 1)
      BY DEF Fail, NoFail
    <3> QED BY <1>7, <3>1, PipelineAssumption DEF TypeOK
  <2>2. ifails' = ifails
    OBVIOUS
  <2> QED BY <1>1, <1>7, <2>1, <2>2 DEF TypeOK
<1>3. receipt \notin Unshared /\ receipt' \notin Unshared
  <2>1. copies > 0 \/ cpc[c] # "idle"
    BY <1>7, BusyFacts
  <2>2. receipt \notin Unshared
    BY <2>1, ConsumerShared
  <2> QED BY <2>2 DEF Unshared
<1>4. /\ Grows /\ (em' = "sent" => em = "sent" \/ accepted')
      /\ iFresh' => iFresh /\ receipt' = receipt
  BY <1>1 DEF TypeOK, Grows
<1>5. TerminalReceiptsAreTrue'
  BY <1>1, <1>3, <1>4 DEF TerminalReceiptsAreTrue, Grows, Unshared
<1>6. \E q \in {"truth", "handoff"} : \E v :
        cpc' = [cpc EXCEPT ![c] = q] /\ goal' = [goal EXCEPT ![c] = v]
  <2>1. goal = [goal EXCEPT ![c] = goal[c]]
    BY DEF TypeOK
  <2> QED BY <2>1
<1> HIDE DEF HeldInv, PipelineInv, CheckMailbox, Goes, To, Seek, Quiet
<1>8. PICK q, v :
        /\ cpc' = [cpc EXCEPT ![c] = q] /\ goal' = [goal EXCEPT ![c] = v]
        /\ q \notin {"final", "final2", "check"}
        /\ q = "idle" => copies' = copies - 1 \/ copies' = copies
        /\ q # "idle" => copies' = copies
  BY <1>1, <1>6
<1>9. GoalInv'
  BY <1>1, <1>4, <1>7, <1>8, GoalStep
<1>10. CopyInv'
  <2>1. copies' \in Nat
    BY <1>2, PipelineAssumption DEF TypeOK
  <2>2. CASE q = "idle"
    <3>1. copies' >= copies - 1
      BY <1>7, <1>8, <2>2
    <3> QED BY <1>0, <1>7, <1>8, <2>1, <2>2, <3>1, BusyStep
  <2>3. CASE q # "idle"
    BY <1>0, <1>7, <1>8, <2>1, <2>3, BusyStep
  <2> QED BY <2>2, <2>3
<1>11. UNCHANGED <<raw, ingress>>
  BY DEF CheckMailbox, Goes, Quiet
<1> QED BY <1>2, <1>3, <1>4, <1>5, <1>9, <1>10, <1>11, SharedTogether

\* The mailbox is asked.
LEMMA KeepCheckTruth ==
  ASSUME HeldInv, NEW c \in Consumers, CheckTruth(c)
  PROVE  HeldInv'
<1>7. TypeOK /\ TerminalReceiptsAreTrue /\ GoalInv /\ CopyInv /\ copies \in Nat
  BY PipelineAssumption DEF HeldInv, PipelineInv, TypeOK
<1> USE DEF HeldInv, PipelineInv, CheckTruth, Goes, To, Seek, Quiet,
            world, rVars, queues, mail, ingress, consumer, sweep
<1>0. cpc[c] # "idle" /\ copies >= 1 /\ copies - 1 \in 0..MaxCopies
  BY BusyOne DEF TypeOK
<1>1. /\ cpc' \in [Consumers -> ConsumerPCs] /\ goal' \in [Consumers -> Receipts]
      /\ UNCHANGED <<addressed, broken, mailbox, raw, active, receipt, iFresh, rFresh,
                     em, copies, dlq, truth, dead, accepted, smtp, ipc, ptr, rpc,
                     seen, rgoal, scans>>
  BY <1>0 DEF TypeOK, ConsumerPCs, Receipts, Terminal
<1>2. TypeOK'
  <2>1. fails' \in 0..MaxFails
    <3>1. fails' = fails \/ (fails < MaxFails /\ fails' = fails + 1)
      BY DEF Fail, NoFail
    <3> QED BY <1>7, <3>1, PipelineAssumption DEF TypeOK
  <2>2. ifails' = ifails
    OBVIOUS
  <2> QED BY <1>1, <1>7, <2>1, <2>2 DEF TypeOK
<1>3. receipt \notin Unshared /\ receipt' \notin Unshared
  <2>1. copies > 0 \/ cpc[c] # "idle"
    BY <1>7, BusyFacts
  <2>2. receipt \notin Unshared
    BY <2>1, ConsumerShared
  <2> QED BY <2>2 DEF Unshared
<1>4. /\ Grows /\ (em' = "sent" => em = "sent" \/ accepted')
      /\ iFresh' => iFresh /\ receipt' = receipt
  BY <1>1 DEF TypeOK, Grows
<1>5. TerminalReceiptsAreTrue'
  BY <1>1, <1>3, <1>4 DEF TerminalReceiptsAreTrue, Grows, Unshared
<1>6. \E q \in {"raw", "final", "handoff"}, v \in Receipts \cup {"none"} :
        /\ cpc' = [cpc EXCEPT ![c] = q] /\ goal' = [goal EXCEPT ![c] = v]
        /\ q = "final" => v = truth' /\ truth' # "none"
  <2>1. goal = [goal EXCEPT ![c] = goal[c]] /\ goal[c] \in Receipts
    BY DEF TypeOK
  <2>2. truth' \in {"none", "stored", "deleted"} /\ "absent" \in Receipts
        /\ {"stored", "deleted"} \subseteq Receipts
    BY <1>2 DEF TypeOK, Receipts, Terminal
  <2> QED BY <2>1, <2>2
<1> HIDE DEF HeldInv, PipelineInv, CheckTruth, Goes, To, Seek, Quiet
<1>8. PICK q \in {"raw", "final", "handoff"}, v \in Receipts \cup {"none"} :
        /\ cpc' = [cpc EXCEPT ![c] = q] /\ goal' = [goal EXCEPT ![c] = v]
        /\ q = "final" => v = truth' /\ truth' # "none"
  BY <1>6
<1>9. GoalInv'
  <2>1. truth' \in {"none", "stored", "deleted"}
    BY <1>2 DEF TypeOK
  <2>2. q = "final" => /\ v \in {"stored", "deleted"} /\ truth' # "none"
                      /\ (v = "deleted" => truth' = "deleted")
    BY <1>8, <2>1
  <2> QED BY <1>1, <1>4, <1>7, <1>8, <2>2, GoalStep
<1>10. CopyInv'
  <2>1. copies' = copies
    BY <1>1
  <2> QED BY <1>0, <1>7, <1>8, <2>1, BusyStep
<1>11. UNCHANGED <<raw, ingress>>
  BY DEF CheckTruth, Goes, Quiet
<1> QED BY <1>2, <1>3, <1>4, <1>5, <1>9, <1>10, <1>11, SharedTogether

\* The archive is read.
LEMMA KeepReadRaw ==
  ASSUME HeldInv, NEW c \in Consumers, ReadRaw(c)
  PROVE  HeldInv'
<1>7. TypeOK /\ TerminalReceiptsAreTrue /\ GoalInv /\ CopyInv /\ copies \in Nat
  BY PipelineAssumption DEF HeldInv, PipelineInv, TypeOK
<1> USE DEF HeldInv, PipelineInv, ReadRaw, Goes, To, Seek, Quiet,
            world, rVars, queues, mail, ingress, consumer, sweep
<1>0. cpc[c] # "idle" /\ copies >= 1 /\ copies - 1 \in 0..MaxCopies
  BY BusyOne DEF TypeOK
<1>1. /\ cpc' \in [Consumers -> ConsumerPCs]
      /\ UNCHANGED <<addressed, broken, mailbox, raw, active, receipt, iFresh, rFresh,
                     em, copies, dlq, truth, dead, accepted, smtp, ipc, ptr, goal,
                     rpc, seen, rgoal, scans>>
  BY <1>0 DEF TypeOK, ConsumerPCs, Receipts, Terminal
<1>2. TypeOK'
  <2>1. fails' \in 0..MaxFails
    <3>1. fails' = fails \/ (fails < MaxFails /\ fails' = fails + 1)
      BY DEF Fail, NoFail
    <3> QED BY <1>7, <3>1, PipelineAssumption DEF TypeOK
  <2>2. ifails' = ifails
    OBVIOUS
  <2> QED BY <1>1, <1>7, <2>1, <2>2 DEF TypeOK
<1>3. receipt \notin Unshared /\ receipt' \notin Unshared
  <2>1. copies > 0 \/ cpc[c] # "idle"
    BY <1>7, BusyFacts
  <2>2. receipt \notin Unshared
    BY <2>1, ConsumerShared
  <2> QED BY <2>2 DEF Unshared
<1>4. /\ Grows /\ (em' = "sent" => em = "sent" \/ accepted')
      /\ iFresh' => iFresh /\ receipt' = receipt
  BY <1>1 DEF TypeOK, Grows
<1>5. TerminalReceiptsAreTrue'
  BY <1>1, <1>3, <1>4 DEF TerminalReceiptsAreTrue, Grows, Unshared
<1>6. \E q \in {"project", "handoff"} : \E v :
        cpc' = [cpc EXCEPT ![c] = q] /\ goal' = [goal EXCEPT ![c] = v]
  <2>1. goal = [goal EXCEPT ![c] = goal[c]]
    BY DEF TypeOK
  <2> QED BY <2>1
<1> HIDE DEF HeldInv, PipelineInv, ReadRaw, Goes, To, Seek, Quiet
<1>8. PICK q, v :
        /\ cpc' = [cpc EXCEPT ![c] = q] /\ goal' = [goal EXCEPT ![c] = v]
        /\ q \notin {"final", "final2", "check"}
        /\ q = "idle" => copies' = copies - 1 \/ copies' = copies
        /\ q # "idle" => copies' = copies
  BY <1>1, <1>6
<1>9. GoalInv'
  BY <1>1, <1>4, <1>7, <1>8, GoalStep
<1>10. CopyInv'
  <2>1. copies' \in Nat
    BY <1>2, PipelineAssumption DEF TypeOK
  <2>2. CASE q = "idle"
    <3>1. copies' >= copies - 1
      BY <1>7, <1>8, <2>2
    <3> QED BY <1>0, <1>7, <1>8, <2>1, <2>2, <3>1, BusyStep
  <2>3. CASE q # "idle"
    BY <1>0, <1>7, <1>8, <2>1, <2>3, BusyStep
  <2> QED BY <2>2, <2>3
<1>11. UNCHANGED <<raw, ingress>>
  BY DEF ReadRaw, Goes, Quiet
<1> QED BY <1>2, <1>3, <1>4, <1>5, <1>9, <1>10, <1>11, SharedTogether

\* The mailbox takes the message, or knows what became of it.
LEMMA KeepProject ==
  ASSUME HeldInv, NEW c \in Consumers, Project(c)
  PROVE  HeldInv'
<1>7. TypeOK /\ TerminalReceiptsAreTrue /\ GoalInv /\ CopyInv /\ copies \in Nat
  BY PipelineAssumption DEF HeldInv, PipelineInv, TypeOK
<1> USE DEF HeldInv, PipelineInv, Project, To, Seek, Quiet,
            world, rVars, queues, mail, ingress, consumer, sweep
<1>0. cpc[c] # "idle" /\ copies >= 1 /\ copies - 1 \in 0..MaxCopies
  BY BusyOne DEF TypeOK
<1>1. /\ truth' \in {"none", "stored", "deleted"} /\ dead' \in BOOLEAN
      /\ cpc' \in [Consumers -> ConsumerPCs] /\ goal' \in [Consumers -> Receipts]
      /\ UNCHANGED <<addressed, broken, mailbox, raw, active, receipt, iFresh, rFresh,
                     em, copies, dlq, accepted, smtp, ipc, ptr, rpc, seen, rgoal,
                     scans>>
  BY <1>0 DEF TypeOK, ConsumerPCs, Receipts, Terminal
<1>2. TypeOK'
  <2>1. fails' \in 0..MaxFails
    <3>1. fails' = fails \/ (fails < MaxFails /\ fails' = fails + 1)
      BY DEF Fail, NoFail
    <3> QED BY <1>7, <3>1, PipelineAssumption DEF TypeOK
  <2>2. ifails' = ifails
    OBVIOUS
  <2> QED BY <1>1, <1>7, <2>1, <2>2 DEF TypeOK
<1>3. receipt \notin Unshared /\ receipt' \notin Unshared
  <2>1. copies > 0 \/ cpc[c] # "idle"
    BY <1>7, BusyFacts
  <2>2. receipt \notin Unshared
    BY <2>1, ConsumerShared
  <2> QED BY <2>2 DEF Unshared
<1>4. /\ Grows /\ (em' = "sent" => em = "sent" \/ accepted')
      /\ iFresh' => iFresh /\ receipt' = receipt
  BY <1>1 DEF TypeOK, Grows
<1>5. TerminalReceiptsAreTrue'
  BY <1>1, <1>3, <1>4 DEF TerminalReceiptsAreTrue, Grows, Unshared
<1>6. \E q \in {"raw", "final", "handoff"}, v \in Receipts \cup {"none"} :
        /\ cpc' = [cpc EXCEPT ![c] = q] /\ goal' = [goal EXCEPT ![c] = v]
        /\ q = "final" => v = truth' /\ truth' # "none"
  <2>1. goal = [goal EXCEPT ![c] = goal[c]] /\ goal[c] \in Receipts
    BY DEF TypeOK
  <2>2. truth' \in {"none", "stored", "deleted"} /\ "absent" \in Receipts
        /\ {"stored", "deleted"} \subseteq Receipts
    BY <1>2 DEF TypeOK, Receipts, Terminal
  <2> QED BY <2>1, <2>2
<1> HIDE DEF HeldInv, PipelineInv, Project, To, Seek, Quiet
<1>8. PICK q \in {"raw", "final", "handoff"}, v \in Receipts \cup {"none"} :
        /\ cpc' = [cpc EXCEPT ![c] = q] /\ goal' = [goal EXCEPT ![c] = v]
        /\ q = "final" => v = truth' /\ truth' # "none"
  BY <1>6
<1>9. GoalInv'
  <2>1. truth' \in {"none", "stored", "deleted"}
    BY <1>2 DEF TypeOK
  <2>2. q = "final" => /\ v \in {"stored", "deleted"} /\ truth' # "none"
                      /\ (v = "deleted" => truth' = "deleted")
    BY <1>8, <2>1
  <2> QED BY <1>1, <1>4, <1>7, <1>8, <2>2, GoalStep
<1>10. CopyInv'
  <2>1. copies' = copies
    BY <1>1
  <2> QED BY <1>0, <1>7, <1>8, <2>1, BusyStep
<1>11. UNCHANGED <<raw, ingress>>
  BY DEF Project, Quiet
<1> QED BY <1>2, <1>3, <1>4, <1>5, <1>9, <1>10, <1>11, SharedTogether

\* The projection may have committed.
LEMMA KeepProjectFails ==
  ASSUME HeldInv, NEW c \in Consumers, ProjectFails(c)
  PROVE  HeldInv'
<1>7. TypeOK /\ TerminalReceiptsAreTrue /\ GoalInv /\ CopyInv /\ copies \in Nat
  BY PipelineAssumption DEF HeldInv, PipelineInv, TypeOK
<1> USE DEF HeldInv, PipelineInv, ProjectFails, Fail, To, Seek, Quiet,
            world, rVars, queues, mail, ingress, consumer, sweep
<1>0. cpc[c] # "idle" /\ copies >= 1 /\ copies - 1 \in 0..MaxCopies
  BY BusyOne DEF TypeOK
<1>1. /\ truth' \in {"none", "stored", "deleted"}
      /\ cpc' \in [Consumers -> ConsumerPCs] /\ goal' \in [Consumers -> Receipts]
      /\ UNCHANGED <<addressed, broken, mailbox, raw, active, receipt, iFresh, rFresh,
                     em, copies, dlq, dead, accepted, smtp, ipc, ptr, rpc, seen,
                     rgoal, scans>>
  BY <1>0 DEF TypeOK, ConsumerPCs, Receipts, Terminal
<1>2. TypeOK'
  <2>1. fails' \in 0..MaxFails
    <3>1. fails' = fails \/ (fails < MaxFails /\ fails' = fails + 1)
      BY DEF Fail, NoFail
    <3> QED BY <1>7, <3>1, PipelineAssumption DEF TypeOK
  <2>2. ifails' = ifails
    OBVIOUS
  <2> QED BY <1>1, <1>7, <2>1, <2>2 DEF TypeOK
<1>3. receipt \notin Unshared /\ receipt' \notin Unshared
  <2>1. copies > 0 \/ cpc[c] # "idle"
    BY <1>7, BusyFacts
  <2>2. receipt \notin Unshared
    BY <2>1, ConsumerShared
  <2> QED BY <2>2 DEF Unshared
<1>4. /\ Grows /\ (em' = "sent" => em = "sent" \/ accepted')
      /\ iFresh' => iFresh /\ receipt' = receipt
  BY <1>1 DEF TypeOK, Grows
<1>5. TerminalReceiptsAreTrue'
  BY <1>1, <1>3, <1>4 DEF TerminalReceiptsAreTrue, Grows, Unshared
<1>6. \E q \in {"raw", "final", "handoff"}, v \in Receipts \cup {"none"} :
        /\ cpc' = [cpc EXCEPT ![c] = q] /\ goal' = [goal EXCEPT ![c] = v]
        /\ q = "final" => v = truth' /\ truth' # "none"
  <2>1. goal = [goal EXCEPT ![c] = goal[c]] /\ goal[c] \in Receipts
    BY DEF TypeOK
  <2>2. truth' \in {"none", "stored", "deleted"} /\ "absent" \in Receipts
        /\ {"stored", "deleted"} \subseteq Receipts
    BY <1>2 DEF TypeOK, Receipts, Terminal
  <2> QED BY <2>1, <2>2
<1> HIDE DEF HeldInv, PipelineInv, ProjectFails, Fail, To, Seek, Quiet
<1>8. PICK q \in {"raw", "final", "handoff"}, v \in Receipts \cup {"none"} :
        /\ cpc' = [cpc EXCEPT ![c] = q] /\ goal' = [goal EXCEPT ![c] = v]
        /\ q = "final" => v = truth' /\ truth' # "none"
  BY <1>6
<1>9. GoalInv'
  <2>1. truth' \in {"none", "stored", "deleted"}
    BY <1>2 DEF TypeOK
  <2>2. q = "final" => /\ v \in {"stored", "deleted"} /\ truth' # "none"
                      /\ (v = "deleted" => truth' = "deleted")
    BY <1>8, <2>1
  <2> QED BY <1>1, <1>4, <1>7, <1>8, <2>2, GoalStep
<1>10. CopyInv'
  <2>1. copies' = copies
    BY <1>1
  <2> QED BY <1>0, <1>7, <1>8, <2>1, BusyStep
<1>11. UNCHANGED <<raw, ingress>>
  BY DEF ProjectFails, Quiet
<1> QED BY <1>2, <1>3, <1>4, <1>5, <1>9, <1>10, <1>11, SharedTogether

\* A terminal receipt is put, or the put is lost.
LEMMA KeepWriteReceipt ==
  ASSUME HeldInv, NEW c \in Consumers, WriteReceipt(c)
  PROVE  HeldInv'
<1>7. TypeOK /\ TerminalReceiptsAreTrue /\ GoalInv /\ CopyInv /\ copies \in Nat
  BY PipelineAssumption DEF HeldInv, PipelineInv, TypeOK
<1> USE DEF HeldInv, PipelineInv, WriteReceipt, Write, To, Seek, Quiet,
            world, rVars, queues, mail, ingress, consumer, sweep
<1>0. cpc[c] # "idle" /\ copies >= 1 /\ copies - 1 \in 0..MaxCopies
  BY BusyOne DEF TypeOK
<1>a. Projected(goal[c])
  BY DEF GoalInv
<1>1. /\ receipt' \in Receipts /\ iFresh' \in BOOLEAN /\ rFresh' \in BOOLEAN
      /\ cpc' \in [Consumers -> ConsumerPCs]
      /\ UNCHANGED <<addressed, broken, mailbox, raw, active, em, copies, dlq, truth,
                     dead, accepted, smtp, ipc, ptr, goal, rpc, seen, rgoal, scans>>
  BY <1>0, <1>a DEF TypeOK, ConsumerPCs, Receipts, Terminal, Projected
<1>2. TypeOK'
  <2>1. fails' \in 0..MaxFails
    <3>1. fails' = fails \/ (fails < MaxFails /\ fails' = fails + 1)
      BY DEF Fail, NoFail
    <3> QED BY <1>7, <3>1, PipelineAssumption DEF TypeOK
  <2>2. ifails' = ifails
    OBVIOUS
  <2> QED BY <1>1, <1>7, <2>1, <2>2 DEF TypeOK
<1>3. receipt \notin Unshared /\ receipt' \notin Unshared
  <2>1. copies > 0 \/ cpc[c] # "idle"
    BY <1>7, BusyFacts
  <2>2. receipt \notin Unshared
    BY <2>1, ConsumerShared
  <2> QED BY <1>0, <1>a, <2>2 DEF Unshared, Projected
<1>4. /\ Grows /\ (em' = "sent" => em = "sent" \/ accepted')
      /\ iFresh' => iFresh /\ receipt' = receipt
  BY <1>1 DEF TypeOK, Grows
<1>5. TerminalReceiptsAreTrue'
  BY <1>1, <1>3, <1>4, <1>a DEF TerminalReceiptsAreTrue, Grows, Unshared, Projected
<1>6. /\ cpc' = [cpc EXCEPT ![c] = "final2"] /\ goal' = [goal EXCEPT ![c] = goal[c]]
      /\ Projected(goal[c])
  BY DEF TypeOK, GoalInv
<1> HIDE DEF HeldInv, PipelineInv, WriteReceipt, Write, To, Seek, Quiet
<1>9. GoalInv'
  <2>1. /\ goal[c] \in {"stored", "deleted"} /\ truth' # "none"
        /\ goal[c] = "deleted" => truth' = "deleted"
    BY <1>1, <1>6 DEF Projected
  <2> QED BY <1>1, <1>4, <1>6, <1>7, <2>1, GoalStep
<1>10. CopyInv'
  BY <1>0, <1>1, <1>6, <1>7, BusyStep
<1>11. UNCHANGED <<raw, ingress>>
  BY DEF WriteReceipt, Quiet
<1> QED BY <1>2, <1>3, <1>4, <1>5, <1>9, <1>10, <1>11, SharedTogether

\* The receipt that won ends the delivery.
LEMMA KeepFinalize ==
  ASSUME HeldInv, NEW c \in Consumers, Finalize(c)
  PROVE  HeldInv'
<1>7. TypeOK /\ TerminalReceiptsAreTrue /\ GoalInv /\ CopyInv /\ copies \in Nat
  BY PipelineAssumption DEF HeldInv, PipelineInv, TypeOK
<1> USE DEF HeldInv, PipelineInv, Finalize, Ack, To, Seek, Quiet,
            world, rVars, queues, mail, ingress, consumer, sweep
<1>0. cpc[c] # "idle" /\ copies >= 1 /\ copies - 1 \in 0..MaxCopies
  BY BusyOne DEF TypeOK
<1>1. /\ active' \in BOOLEAN /\ copies' \in 0..MaxCopies
      /\ cpc' \in [Consumers -> ConsumerPCs] /\ goal' \in [Consumers -> Receipts]
      /\ UNCHANGED <<addressed, broken, mailbox, raw, receipt, iFresh, rFresh, em,
                     dlq, truth, dead, accepted, smtp, ipc, ptr, rpc, seen, rgoal,
                     scans>>
  BY <1>0 DEF TypeOK, ConsumerPCs, Receipts, Terminal
<1>2. TypeOK'
  <2>1. fails' \in 0..MaxFails
    <3>1. fails' = fails \/ (fails < MaxFails /\ fails' = fails + 1)
      BY DEF Fail, NoFail
    <3> QED BY <1>7, <3>1, PipelineAssumption DEF TypeOK
  <2>2. ifails' = ifails
    OBVIOUS
  <2> QED BY <1>1, <1>7, <2>1, <2>2 DEF TypeOK
<1>3. receipt \notin Unshared /\ receipt' \notin Unshared
  <2>1. copies > 0 \/ cpc[c] # "idle"
    BY <1>7, BusyFacts
  <2>2. receipt \notin Unshared
    BY <2>1, ConsumerShared
  <2> QED BY <2>2 DEF Unshared
<1>4. /\ Grows /\ (em' = "sent" => em = "sent" \/ accepted')
      /\ iFresh' => iFresh /\ receipt' = receipt
  BY <1>1 DEF TypeOK, Grows
<1>5. TerminalReceiptsAreTrue'
  BY <1>1, <1>3, <1>4 DEF TerminalReceiptsAreTrue, Grows, Unshared
<1>6. \E q \in {"idle", "handoff"} : \E v :
        /\ cpc' = [cpc EXCEPT ![c] = q] /\ goal' = [goal EXCEPT ![c] = v]
        /\ q = "idle" => copies' = copies - 1
        /\ q # "idle" => copies' = copies
  <2>1. goal = [goal EXCEPT ![c] = goal[c]]
    BY DEF TypeOK
  <2> QED BY <2>1
<1> HIDE DEF HeldInv, PipelineInv, Finalize, Ack, To, Seek, Quiet
<1>8. PICK q, v :
        /\ cpc' = [cpc EXCEPT ![c] = q] /\ goal' = [goal EXCEPT ![c] = v]
        /\ q \notin {"final", "final2", "check"}
        /\ q = "idle" => copies' = copies - 1 \/ copies' = copies
        /\ q # "idle" => copies' = copies
  BY <1>1, <1>6
<1>9. GoalInv'
  BY <1>1, <1>4, <1>7, <1>8, GoalStep
<1>10. CopyInv'
  <2>1. copies' \in Nat
    BY <1>2, PipelineAssumption DEF TypeOK
  <2>2. CASE q = "idle"
    <3>1. copies' >= copies - 1
      BY <1>7, <1>8, <2>2
    <3> QED BY <1>0, <1>7, <1>8, <2>1, <2>2, <3>1, BusyStep
  <2>3. CASE q # "idle"
    BY <1>0, <1>7, <1>8, <2>1, <2>3, BusyStep
  <2> QED BY <2>2, <2>3
<1>11. UNCHANGED <<raw, ingress>>
  BY DEF Finalize, Ack, Quiet
<1> QED BY <1>2, <1>3, <1>4, <1>5, <1>9, <1>10, <1>11, SharedTogether

\* The forward is begun, or its failure ledgered.
LEMMA KeepHandOff ==
  ASSUME HeldInv, NEW c \in Consumers, HandOff(c)
  PROVE  HeldInv'
<1>7. TypeOK /\ TerminalReceiptsAreTrue /\ GoalInv /\ CopyInv /\ copies \in Nat
  BY PipelineAssumption DEF HeldInv, PipelineInv, TypeOK
<1> USE DEF HeldInv, PipelineInv, HandOff, Begin, BeginPartly, Ledgered, Write, To, Seek, Quiet,
            world, rVars, queues, mail, ingress, consumer, sweep
<1>0. cpc[c] # "idle" /\ copies >= 1 /\ copies - 1 \in 0..MaxCopies
  BY BusyOne DEF TypeOK
<1>1. /\ receipt' \in Receipts /\ iFresh' \in BOOLEAN /\ rFresh' \in BOOLEAN
      /\ em' \in {"none", "pending", "sent"} /\ dead' \in BOOLEAN
      /\ cpc' \in [Consumers -> ConsumerPCs] /\ goal' \in [Consumers -> Receipts]
      /\ UNCHANGED <<addressed, broken, mailbox, raw, active, copies, dlq, truth,
                     accepted, smtp, ipc, ptr, rpc, seen, rgoal, scans>>
  BY <1>0 DEF TypeOK, ConsumerPCs, Receipts, Terminal
<1>2. TypeOK'
  <2>1. fails' \in 0..MaxFails
    <3>1. fails' = fails \/ (fails < MaxFails /\ fails' = fails + 1)
      BY DEF Fail, NoFail
    <3> QED BY <1>7, <3>1, PipelineAssumption DEF TypeOK
  <2>2. ifails' = ifails
    OBVIOUS
  <2> QED BY <1>1, <1>7, <2>1, <2>2 DEF TypeOK
<1>3. receipt \notin Unshared /\ receipt' \notin Unshared
  <2>1. copies > 0 \/ cpc[c] # "idle"
    BY <1>7, BusyFacts
  <2>2. receipt \notin Unshared
    BY <2>1, ConsumerShared
  <2> QED BY <2>2 DEF Unshared
<1>4. /\ Grows /\ (em' = "sent" => em = "sent" \/ accepted')
      /\ iFresh' => iFresh /\ receipt' = receipt
  BY <1>1 DEF TypeOK, Grows
<1>5. TerminalReceiptsAreTrue'
  BY <1>1, <1>3, <1>4 DEF TerminalReceiptsAreTrue, Grows, Unshared
<1>6. \E q \in {"idle", "handoff"} : \E v :
        cpc' = [cpc EXCEPT ![c] = q] /\ goal' = [goal EXCEPT ![c] = v]
  OBVIOUS
<1> HIDE DEF HeldInv, PipelineInv, HandOff, Begin, BeginPartly, Ledgered, Write, To, Seek, Quiet
<1>8. PICK q, v :
        /\ cpc' = [cpc EXCEPT ![c] = q] /\ goal' = [goal EXCEPT ![c] = v]
        /\ q \notin {"final", "final2", "check"}
        /\ q = "idle" => copies' = copies - 1 \/ copies' = copies
        /\ q # "idle" => copies' = copies
  BY <1>1, <1>6
<1>9. GoalInv'
  BY <1>1, <1>4, <1>7, <1>8, GoalStep
<1>10. CopyInv'
  <2>1. copies' \in Nat
    BY <1>2, PipelineAssumption DEF TypeOK
  <2>2. CASE q = "idle"
    <3>1. copies' >= copies - 1
      BY <1>7, <1>8, <2>2
    <3> QED BY <1>0, <1>7, <1>8, <2>1, <2>2, <3>1, BusyStep
  <2>3. CASE q # "idle"
    BY <1>0, <1>7, <1>8, <2>1, <2>3, BusyStep
  <2> QED BY <2>2, <2>3
<1>11. UNCHANGED <<raw, ingress>>
  BY DEF HandOff, Quiet
<1> QED BY <1>2, <1>3, <1>4, <1>5, <1>9, <1>10, <1>11, SharedTogether

\* The item runs out of time.
LEMMA KeepExpire ==
  ASSUME HeldInv, NEW c \in Consumers, Expire(c)
  PROVE  HeldInv'
<1>7. TypeOK /\ TerminalReceiptsAreTrue /\ GoalInv /\ CopyInv /\ copies \in Nat
  BY PipelineAssumption DEF HeldInv, PipelineInv, TypeOK
<1> USE DEF HeldInv, PipelineInv, Expire, To, Seek, Quiet,
            world, rVars, queues, mail, ingress, consumer, sweep
<1>0. cpc[c] # "idle" /\ copies >= 1 /\ copies - 1 \in 0..MaxCopies
  BY BusyOne DEF TypeOK
<1>1. /\ cpc' \in [Consumers -> ConsumerPCs] /\ goal' \in [Consumers -> Receipts]
      /\ UNCHANGED <<addressed, broken, mailbox, raw, active, receipt, iFresh, rFresh,
                     em, copies, dlq, truth, dead, accepted, smtp, ipc, ptr, rpc,
                     seen, rgoal, scans>>
  BY <1>0 DEF TypeOK, ConsumerPCs, Receipts, Terminal
<1>2. TypeOK'
  <2>1. fails' \in 0..MaxFails
    <3>1. fails' = fails \/ (fails < MaxFails /\ fails' = fails + 1)
      BY DEF Fail, NoFail
    <3> QED BY <1>7, <3>1, PipelineAssumption DEF TypeOK
  <2>2. ifails' = ifails
    OBVIOUS
  <2> QED BY <1>1, <1>7, <2>1, <2>2 DEF TypeOK
<1>3. receipt \notin Unshared /\ receipt' \notin Unshared
  <2>1. copies > 0 \/ cpc[c] # "idle"
    BY <1>7, BusyFacts
  <2>2. receipt \notin Unshared
    BY <2>1, ConsumerShared
  <2> QED BY <2>2 DEF Unshared
<1>4. /\ Grows /\ (em' = "sent" => em = "sent" \/ accepted')
      /\ iFresh' => iFresh /\ receipt' = receipt
  BY <1>1 DEF TypeOK, Grows
<1>5. TerminalReceiptsAreTrue'
  BY <1>1, <1>3, <1>4 DEF TerminalReceiptsAreTrue, Grows, Unshared
<1>6. \E q \in {"idle", "handoff"} : \E v :
        cpc' = [cpc EXCEPT ![c] = q] /\ goal' = [goal EXCEPT ![c] = v]
  OBVIOUS
<1> HIDE DEF HeldInv, PipelineInv, Expire, To, Seek, Quiet
<1>8. PICK q, v :
        /\ cpc' = [cpc EXCEPT ![c] = q] /\ goal' = [goal EXCEPT ![c] = v]
        /\ q \notin {"final", "final2", "check"}
        /\ q = "idle" => copies' = copies - 1 \/ copies' = copies
        /\ q # "idle" => copies' = copies
  BY <1>1, <1>6
<1>9. GoalInv'
  BY <1>1, <1>4, <1>7, <1>8, GoalStep
<1>10. CopyInv'
  <2>1. copies' \in Nat
    BY <1>2, PipelineAssumption DEF TypeOK
  <2>2. CASE q = "idle"
    <3>1. copies' >= copies - 1
      BY <1>7, <1>8, <2>2
    <3> QED BY <1>0, <1>7, <1>8, <2>1, <2>2, <3>1, BusyStep
  <2>3. CASE q # "idle"
    BY <1>0, <1>7, <1>8, <2>1, <2>3, BusyStep
  <2> QED BY <2>2, <2>3
<1>11. UNCHANGED <<raw, ingress>>
  BY DEF Expire, Quiet
<1> QED BY <1>2, <1>3, <1>4, <1>5, <1>9, <1>10, <1>11, SharedTogether

-----------------------------------------------------------------------------
(* The queue by itself, the sweep, the forward, and the rest               *)

\* The queue only holds a message that was shared.
LEMMA QueueShared ==
  ASSUME HeldInv, copies > 0 \/ dlq > 0
  PROVE  receipt \notin Unshared
BY DEF HeldInv, SharingInv

\* A copy whose retries are used up.
LEMMA KeepExhaust ==
  ASSUME HeldInv, Exhaust
  PROVE  HeldInv'
<1>1. /\ TypeOK /\ TerminalReceiptsAreTrue /\ GoalInv
      /\ copies \in 0..MaxCopies /\ dlq \in 0..MaxCopies /\ MaxCopies \in Nat
      /\ Cardinality(Busy) \in Nat /\ Cardinality(Busy) < copies
  BY BusyFacts, PipelineAssumption DEF HeldInv, PipelineInv, TypeOK, Exhaust
<1>2. /\ copies' \in 0..MaxCopies /\ dlq' \in 0..MaxCopies /\ Cardinality(Busy) <= copies'
      /\ UNCHANGED <<world, raw, active, rVars, em, mail, ingress, consumer, sweep, fails>>
  BY <1>1 DEF Exhaust
<1>3. TypeOK' /\ Grows /\ TerminalReceiptsAreTrue'
  BY <1>1, <1>2
     DEF TypeOK, Grows, TerminalReceiptsAreTrue, world, rVars, mail, ingress, consumer, sweep
<1>4. GoalInv'
  BY <1>1, <1>2, <1>3, GoalsKept DEF sweep
<1>5. CopyInv'
  BY <1>2 DEF CopyInv, Busy, consumer
<1>6. receipt \notin Unshared /\ receipt' = receipt /\ iFresh' = iFresh /\ em' = em
  <2>1. copies > 0
    BY <1>1
  <2> QED BY <1>2, <2>1, QueueShared DEF rVars
<1> QED BY <1>2, <1>3, <1>4, <1>5, <1>6, SharedTogether

\* A copy in the dead-letter lanes is handed to the forward, or stays.
LEMMA KeepDeadLetters ==
  ASSUME HeldInv, DeadLetter \/ DeadLetterFails
  PROVE  HeldInv'
<1>1. /\ TypeOK /\ TerminalReceiptsAreTrue /\ GoalInv /\ CopyInv
      /\ dlq \in 0..MaxCopies /\ MaxCopies \in Nat /\ dlq > 0
      /\ fails \in 0..MaxFails /\ MaxFails \in Nat
  BY PipelineAssumption
     DEF HeldInv, PipelineInv, TypeOK, DeadLetter, DeadLetterFails
<1>2. /\ em' \in {"none", "pending", "sent"} /\ receipt' \in {receipt, "pending"}
      /\ em' = "sent" => em = "sent"
      /\ IF receipt' = receipt THEN iFresh' = iFresh /\ rFresh' = rFresh
                               ELSE iFresh' = FALSE /\ rFresh' = FALSE
  BY <1>1 DEF DeadLetter, DeadLetterFails, Begin, BeginPartly, Write, rVars, TypeOK
<1>3. /\ dlq' \in 0..MaxCopies /\ fails' \in 0..MaxFails /\ dead' \in BOOLEAN
      /\ UNCHANGED <<world, raw, active, copies, truth, accepted, ingress, consumer, sweep>>
  <2>1. dlq' \in 0..MaxCopies /\ fails' \in 0..MaxFails
    BY <1>1 DEF DeadLetter, DeadLetterFails, Fail, queues
  <2>2. dead' \in BOOLEAN /\ UNCHANGED <<truth, accepted>>
    BY <1>1 DEF DeadLetter, DeadLetterFails, Ledgered, TypeOK
  <2>3. UNCHANGED <<world, raw, active, copies, ingress, consumer, sweep>>
    BY DEF DeadLetter, DeadLetterFails, queues
  <2> QED BY <2>1, <2>2, <2>3
<1>4. TypeOK'
  <2>1. receipt' \in Receipts /\ iFresh' \in BOOLEAN /\ rFresh' \in BOOLEAN
    BY <1>1, <1>2 DEF TypeOK, Receipts
  <2> QED BY <1>1, <1>2, <1>3, <2>1 DEF TypeOK, world, ingress, consumer, sweep
<1>5. receipt \notin Unshared /\ receipt' \notin Unshared
  BY <1>1, <1>2, QueueShared DEF Unshared
<1>6. Grows /\ TerminalReceiptsAreTrue'
  BY <1>1, <1>2, <1>3, <1>5 DEF Grows, TerminalReceiptsAreTrue, Unshared
<1>7. GoalInv'
  BY <1>1, <1>3, <1>6, GoalsKept DEF sweep
<1>8. CopyInv'
  BY <1>1, <1>3 DEF CopyInv, Busy, consumer
<1>9. iFresh' => iFresh /\ receipt' = receipt
  BY <1>2
<1> QED BY <1>2, <1>3, <1>4, <1>5, <1>6, <1>7, <1>8, <1>9, SharedTogether

\* The receipts about to be put stay true when the sweep goes on to true ones.
LEMMA SweepGoal ==
  ASSUME GoalInv, Grows, UNCHANGED consumer,
         rpc' \in {"put", "winner"} => Projected(rgoal')
  PROVE  GoalInv'
<1>1. rpc' \in {"put", "winner"} => Projected(rgoal)'
  BY DEF Projected, Grows
<1> QED BY <1>1 DEF GoalInv, Projected, Grows, consumer

\* A step by any other actor, in its parts: what was not shared stays as it
\* was, but for a receipt that gives it away.
LEMMA OthersTogether ==
  ASSUME HeldInv, TypeOK', TerminalReceiptsAreTrue', Grows,
         UNCHANGED <<raw, ingress, consumer>>, copies' >= copies,
         rpc' \in {"put", "winner"} => Projected(rgoal'),
         receipt' = receipt \/ receipt' \notin Unshared,
         iFresh' => iFresh /\ receipt' = receipt,
         em' = "sent" => em = "sent" \/ accepted',
         receipt' \in Unshared =>
           /\ copies' = copies /\ dlq' = dlq /\ rpc' \notin Queueing
           /\ truth' # "none" => truth # "none"
           /\ accepted' => accepted
           /\ em' = "sent" => em = "sent",
         receipt' = "rejected" => ~rFresh'
  PROVE  HeldInv'
<1>1. TypeOK /\ IngressInv /\ SharingInv /\ GoalInv /\ CopyInv
  BY DEF HeldInv, PipelineInv
<1>2. IngressInv'
  BY <1>1 DEF IngressInv, Delivered, Grows, ingress
<1>3. SharingInv'
  <2>1. receipt' \in Unshared => receipt' = receipt
    OBVIOUS
  <2> QED BY <1>1, <2>1 DEF SharingInv, Undelivered, Delivered, Unshared, consumer, ingress
<1>4. GoalInv'
  BY <1>1, SweepGoal
<1>5. CopyInv'
  <2>1. copies' \in Nat
    BY PipelineAssumption DEF TypeOK
  <2> QED BY <1>1, <2>1, CopiesKept DEF consumer
<1>6. RejectionIsFinal'
  BY <1>3 DEF SharingInv, RejectionIsFinal, Unshared, Undelivered
<1> QED BY <1>2, <1>3, <1>4, <1>5, <1>6 DEF HeldInv, PipelineInv

\* The sweep decides what it does next, and writes nothing.
LEMMA KeepDecide ==
  ASSUME HeldInv, NEW p, NEW q \in SweepPCs, NEW v \in Receipts, Decide(p, q, v),
         q \in Queueing => p \in Queueing,
         q \in {"put", "winner"} => Projected(v)
  PROVE  HeldInv'
<1>1. TypeOK /\ TerminalReceiptsAreTrue /\ SharingInv /\ copies \in Nat
  BY PipelineAssumption DEF HeldInv, PipelineInv, TypeOK
<1>2. /\ rpc = p /\ rpc' = q /\ rgoal' = v /\ seen' \in BOOLEAN
      /\ UNCHANGED <<world, raw, active, receipt, iFresh, em, copies, dlq, mail, ingress,
                     consumer, scans, fails>>
  BY <1>1 DEF Decide, Rest, Unwritten, queues, TypeOK
<1>3. rFresh' = (rFresh /\ seen')
  BY DEF Decide, Unwritten
<1>4. TypeOK'
  BY <1>1, <1>2, <1>3 DEF TypeOK, world, mail, ingress, consumer
<1>5. Grows /\ TerminalReceiptsAreTrue' /\ copies' >= copies
  BY <1>1, <1>2 DEF Grows, TerminalReceiptsAreTrue, mail, ingress
<1>6. receipt \in Unshared => rpc' \notin Queueing
  BY <1>1, <1>2 DEF SharingInv
<1>7. receipt' = "rejected" => ~rFresh'
  BY <1>1, <1>2, <1>3 DEF SharingInv
<1>8. UNCHANGED <<receipt, iFresh, em, copies, dlq, truth, accepted, raw, ingress, consumer>>
  BY <1>2 DEF mail
<1> QED BY <1>2, <1>4, <1>5, <1>6, <1>7, <1>8, OthersTogether

\* An archive without a receipt.
LEMMA KeepSweepMissing == HeldInv /\ SweepMissing => HeldInv'
<1>1. HeldInv => TypeOK
  BY DEF HeldInv, PipelineInv
<1> QED
  BY <1>1, TruthFacts, KeepDecide
     DEF SweepMissing, SweepPCs, Receipts, Terminal, Queueing

\* A pending forward whose message may be in the mailbox.
LEMMA KeepSweepRepair == HeldInv /\ SweepRepair => HeldInv'
<1>1. HeldInv => TypeOK
  BY DEF HeldInv, PipelineInv
<1> QED
  BY <1>1, TruthFacts, KeepDecide
     DEF SweepRepair, SweepPCs, Receipts, Terminal, Queueing

\* A stored receipt is compared with the mailbox.
LEMMA KeepSweepStored == HeldInv /\ SweepStored => HeldInv'
<1> SUFFICES ASSUME HeldInv, SweepStored PROVE HeldInv'
  OBVIOUS
<1>1. Truth # "none" => Projected(Truth)
  BY TruthFacts DEF HeldInv, PipelineInv
<1>2. CASE Truth = "deleted" /\ Decide("stored", "put", "deleted")
  BY <1>1, <1>2, KeepDecide DEF SweepPCs, Receipts, Terminal, Queueing
<1>3. CASE Decide("stored", "tidy", "absent") \/ Decide("stored", "begin", "absent")
  BY <1>3, KeepDecide DEF SweepPCs, Receipts, Queueing
<1> QED BY <1>2, <1>3 DEF SweepStored

\* A deleted receipt is compared with the mailbox.
LEMMA KeepSweepDeleted == HeldInv /\ SweepDeleted => HeldInv'
BY KeepDecide DEF SweepDeleted, SweepPCs, Receipts, Queueing

\* An admission that is in doubt.
LEMMA KeepSweepDoubts == HeldInv /\ SweepDoubts => HeldInv'
BY KeepDecide DEF SweepDoubts, SweepPCs, Receipts, Queueing

\* The ledger of terminal failures is consulted.
LEMMA KeepSweepLedger == HeldInv /\ SweepLedger => HeldInv'
<1> SUFFICES ASSUME HeldInv, SweepLedger PROVE HeldInv'
  OBVIOUS
<1>1. Truth # "none" => Projected(Truth)
  BY TruthFacts DEF HeldInv, PipelineInv
<1>2. CASE Decide("ledger", "begin", "absent") \/ Decide("ledger", "enqueue", "absent")
  BY <1>2, KeepDecide DEF SweepPCs, Receipts, Queueing
<1>3. CASE Truth = "deleted" /\ Decide("ledger", "put", "deleted")
  BY <1>1, <1>3, KeepDecide DEF SweepPCs, Receipts, Terminal, Queueing
<1> QED BY <1>2, <1>3 DEF SweepLedger

\* Another receipt won.
LEMMA KeepSweepWinner == HeldInv /\ SweepWinner => HeldInv'
BY KeepDecide DEF SweepWinner, SweepPCs, Receipts, Queueing

\* The failures of the others stay within their bound.
LEMMA OtherFailures ==
  ASSUME TypeOK, Fail \/ UNCHANGED fails
  PROVE  fails' \in 0..MaxFails
BY PipelineAssumption DEF TypeOK, Fail

\* A recent archive is marked active.
LEMMA KeepRecentScan == HeldInv /\ RecentScan => HeldInv'
<1> SUFFICES ASSUME HeldInv, RecentScan PROVE HeldInv'
  OBVIOUS
<1>0. /\ TypeOK /\ TerminalReceiptsAreTrue /\ IngressInv /\ SharingInv /\ GoalInv
      /\ copies \in Nat
  BY PipelineAssumption DEF HeldInv, PipelineInv, TypeOK
<1> USE DEF RecentScan, Rest,
            world, rVars, queues, mail, ingress, consumer, sweep
<1>1. /\ active' \in BOOLEAN /\ scans' \in 0..MaxScans
      /\ UNCHANGED <<addressed, broken, mailbox, raw, receipt, iFresh, rFresh, em,
                     copies, dlq, truth, dead, accepted, smtp, ipc, ptr, cpc, goal,
                     rpc, seen, rgoal>>
  BY <1>0, PipelineAssumption DEF TypeOK, SweepPCs, Receipts, Terminal
<1>2. TypeOK'
  <2>1. Fail \/ UNCHANGED fails
    BY DEF NoFail
  <2>2. fails' \in 0..MaxFails
    BY <1>0, <2>1, OtherFailures
  <2>3. ifails' = ifails
    OBVIOUS
  <2> QED BY <1>0, <1>1, <2>2, <2>3 DEF TypeOK
<1>3. /\ Grows /\ copies' >= copies
      /\ receipt' = receipt \/ receipt' \notin Unshared
  BY <1>0, <1>1, PipelineAssumption DEF Grows, Unshared, TypeOK
<1>4. /\ iFresh' => iFresh /\ receipt' = receipt
      /\ em' = "sent" => em = "sent" \/ accepted'
      /\ receipt' = "rejected" => ~rFresh'
  BY <1>0, <1>1, PipelineAssumption DEF SharingInv, TypeOK
<1>5. receipt' \in Unshared =>
        /\ copies' = copies /\ dlq' = dlq /\ rpc' \notin Queueing
        /\ truth' # "none" => truth # "none"
        /\ accepted' => accepted
        /\ em' = "sent" => em = "sent"
  BY <1>0, <1>1, <1>3 DEF SharingInv, Unshared, Queueing
<1>6. TerminalReceiptsAreTrue'
  BY <1>0, <1>1, PipelineAssumption DEF TerminalReceiptsAreTrue, IngressInv
<1>7. rpc' \in {"put", "winner"} => Projected(rgoal')
  BY <1>0, <1>1, PipelineAssumption DEF GoalInv
<1>8. UNCHANGED <<raw, ingress, consumer>>
  BY <1>1
<1> HIDE DEF RecentScan, Rest,
             world, rVars, queues, mail, ingress, consumer, sweep
<1> QED BY <1>2, <1>3, <1>4, <1>5, <1>6, <1>7, <1>8, OthersTogether

\* The sweep reads the receipt, or cannot.
LEMMA KeepSweepReads == HeldInv /\ SweepReads => HeldInv'
<1> SUFFICES ASSUME HeldInv, SweepReads PROVE HeldInv'
  OBVIOUS
<1>0. /\ TypeOK /\ TerminalReceiptsAreTrue /\ IngressInv /\ SharingInv /\ GoalInv
      /\ copies \in Nat
  BY PipelineAssumption DEF HeldInv, PipelineInv, TypeOK
<1> USE DEF SweepReads, Rest,
            world, rVars, queues, mail, ingress, consumer, sweep
<1>1. /\ rFresh' \in BOOLEAN /\ rpc' \in SweepPCs /\ seen' \in BOOLEAN
      /\ UNCHANGED <<addressed, broken, mailbox, raw, active, receipt, iFresh, em,
                     copies, dlq, truth, dead, accepted, smtp, ipc, ptr, cpc, goal,
                     rgoal, scans>>
  BY <1>0 DEF TypeOK, SweepPCs, Receipts, Terminal
<1>2. TypeOK'
  <2>1. Fail \/ UNCHANGED fails
    BY DEF NoFail
  <2>2. fails' \in 0..MaxFails
    BY <1>0, <2>1, OtherFailures
  <2>3. ifails' = ifails
    OBVIOUS
  <2> QED BY <1>0, <1>1, <2>2, <2>3 DEF TypeOK
<1>3. /\ Grows /\ copies' >= copies
      /\ receipt' = receipt \/ receipt' \notin Unshared
  BY <1>0, <1>1 DEF Grows, Unshared, TypeOK
<1>4. /\ iFresh' => iFresh /\ receipt' = receipt
      /\ em' = "sent" => em = "sent" \/ accepted'
      /\ receipt' = "rejected" => ~rFresh'
  BY <1>0, <1>1 DEF SharingInv, TypeOK
<1>5. receipt' \in Unshared =>
        /\ copies' = copies /\ dlq' = dlq /\ rpc' \notin Queueing
        /\ truth' # "none" => truth # "none"
        /\ accepted' => accepted
        /\ em' = "sent" => em = "sent"
  BY <1>0, <1>1, <1>3 DEF SharingInv, Unshared, Queueing
<1>6. TerminalReceiptsAreTrue'
  BY <1>0, <1>1 DEF TerminalReceiptsAreTrue, IngressInv
<1>7. rpc' \in {"put", "winner"} => Projected(rgoal')
  BY <1>0, <1>1 DEF GoalInv
<1>8. UNCHANGED <<raw, ingress, consumer>>
  BY <1>1
<1> HIDE DEF SweepReads, Rest,
             world, rVars, queues, mail, ingress, consumer, sweep
<1> QED BY <1>2, <1>3, <1>4, <1>5, <1>6, <1>7, <1>8, OthersTogether

\* An enqueued receipt is not stale yet.
LEMMA KeepSweepTooEarly == HeldInv /\ SweepTooEarly => HeldInv'
<1> SUFFICES ASSUME HeldInv, SweepTooEarly PROVE HeldInv'
  OBVIOUS
<1>0. /\ TypeOK /\ TerminalReceiptsAreTrue /\ IngressInv /\ SharingInv /\ GoalInv
      /\ copies \in Nat
  BY PipelineAssumption DEF HeldInv, PipelineInv, TypeOK
<1> USE DEF SweepTooEarly, Rest,
            world, rVars, queues, mail, ingress, consumer, sweep
<1>1. /\ rpc' \in SweepPCs
      /\ UNCHANGED <<addressed, broken, mailbox, raw, active, receipt, iFresh, rFresh,
                     em, copies, dlq, truth, dead, accepted, smtp, ipc, ptr, cpc,
                     goal, seen, rgoal, scans>>
  BY <1>0 DEF TypeOK, SweepPCs, Receipts, Terminal
<1>2. TypeOK'
  <2>1. Fail \/ UNCHANGED fails
    BY DEF NoFail
  <2>2. fails' \in 0..MaxFails
    BY <1>0, <2>1, OtherFailures
  <2>3. ifails' = ifails
    OBVIOUS
  <2> QED BY <1>0, <1>1, <2>2, <2>3 DEF TypeOK
<1>3. /\ Grows /\ copies' >= copies
      /\ receipt' = receipt \/ receipt' \notin Unshared
  BY <1>0, <1>1 DEF Grows, Unshared, TypeOK
<1>4. /\ iFresh' => iFresh /\ receipt' = receipt
      /\ em' = "sent" => em = "sent" \/ accepted'
      /\ receipt' = "rejected" => ~rFresh'
  BY <1>0, <1>1 DEF SharingInv, TypeOK
<1>5. receipt' \in Unshared =>
        /\ copies' = copies /\ dlq' = dlq /\ rpc' \notin Queueing
        /\ truth' # "none" => truth # "none"
        /\ accepted' => accepted
        /\ em' = "sent" => em = "sent"
  BY <1>0, <1>1, <1>3 DEF SharingInv, Unshared, Queueing
<1>6. TerminalReceiptsAreTrue'
  BY <1>0, <1>1 DEF TerminalReceiptsAreTrue, IngressInv
<1>7. rpc' \in {"put", "winner"} => Projected(rgoal')
  BY <1>0, <1>1 DEF GoalInv
<1>8. UNCHANGED <<raw, ingress, consumer>>
  BY <1>1
<1> HIDE DEF SweepTooEarly, Rest,
             world, rVars, queues, mail, ingress, consumer, sweep
<1> QED BY <1>2, <1>3, <1>4, <1>5, <1>6, <1>7, <1>8, OthersTogether

\* The sweep admits an archived message.
LEMMA KeepSweepAdmits == HeldInv /\ SweepAdmits => HeldInv'
<1> SUFFICES ASSUME HeldInv, SweepAdmits PROVE HeldInv'
  OBVIOUS
<1>0. /\ TypeOK /\ TerminalReceiptsAreTrue /\ IngressInv /\ SharingInv /\ GoalInv
      /\ copies \in Nat
  BY PipelineAssumption DEF HeldInv, PipelineInv, TypeOK
<1> USE DEF SweepAdmits, Turn, Rest,
            world, rVars, queues, mail, ingress, consumer, sweep
<1>1. /\ receipt' \in Receipts /\ iFresh' \in BOOLEAN /\ rFresh' \in BOOLEAN
      /\ rpc' \in SweepPCs /\ seen' \in BOOLEAN /\ rgoal' \in Receipts
      /\ UNCHANGED <<addressed, broken, mailbox, raw, active, em, copies, dlq, truth,
                     dead, accepted, smtp, ipc, ptr, cpc, goal, scans>>
  BY <1>0 DEF TypeOK, SweepPCs, Receipts, Terminal
<1>2. TypeOK'
  <2>1. Fail \/ UNCHANGED fails
    BY DEF NoFail
  <2>2. fails' \in 0..MaxFails
    BY <1>0, <2>1, OtherFailures
  <2>3. ifails' = ifails
    OBVIOUS
  <2> QED BY <1>0, <1>1, <2>2, <2>3 DEF TypeOK
<1>3. /\ Grows /\ copies' >= copies
      /\ receipt' = receipt \/ receipt' \notin Unshared
  BY <1>0, <1>1 DEF Grows, Unshared, TypeOK
<1>4. /\ iFresh' => iFresh /\ receipt' = receipt
      /\ em' = "sent" => em = "sent" \/ accepted'
      /\ receipt' = "rejected" => ~rFresh'
  BY <1>0, <1>1 DEF SharingInv, TypeOK
<1>5. receipt' \in Unshared =>
        /\ copies' = copies /\ dlq' = dlq /\ rpc' \notin Queueing
        /\ truth' # "none" => truth # "none"
        /\ accepted' => accepted
        /\ em' = "sent" => em = "sent"
  BY <1>0, <1>1, <1>3 DEF SharingInv, Unshared, Queueing
<1>6. TerminalReceiptsAreTrue'
  BY <1>0, <1>1 DEF TerminalReceiptsAreTrue, IngressInv
<1>7. rpc' \in {"put", "winner"} => Projected(rgoal')
  BY <1>0, <1>1 DEF GoalInv
<1>8. UNCHANGED <<raw, ingress, consumer>>
  BY <1>1
<1> HIDE DEF SweepAdmits, Turn, Rest,
             world, rVars, queues, mail, ingress, consumer, sweep
<1> QED BY <1>2, <1>3, <1>4, <1>5, <1>6, <1>7, <1>8, OthersTogether

\* The sweep puts what the mailbox says.
LEMMA KeepSweepPuts == HeldInv /\ SweepPuts => HeldInv'
<1> SUFFICES ASSUME HeldInv, SweepPuts PROVE HeldInv'
  OBVIOUS
<1>0. /\ TypeOK /\ TerminalReceiptsAreTrue /\ IngressInv /\ SharingInv /\ GoalInv
      /\ copies \in Nat
  BY PipelineAssumption DEF HeldInv, PipelineInv, TypeOK
<1>a. Projected(rgoal)
  BY <1>0 DEF GoalInv, SweepPuts, Turn
<1> USE DEF SweepPuts, Turn, Unwritten, Write, Matches, Rest,
            world, rVars, queues, mail, ingress, consumer, sweep
<1>1. /\ receipt' \in Receipts /\ iFresh' \in BOOLEAN /\ rFresh' \in BOOLEAN
      /\ rpc' \in SweepPCs /\ seen' \in BOOLEAN /\ rgoal' \in Receipts
      /\ UNCHANGED <<addressed, broken, mailbox, raw, active, em, copies, dlq, truth,
                     dead, accepted, smtp, ipc, ptr, cpc, goal, scans>>
  BY <1>0, <1>a DEF TypeOK, SweepPCs, Receipts, Terminal, Projected
<1>2. TypeOK'
  <2>1. Fail \/ UNCHANGED fails
    BY DEF NoFail
  <2>2. fails' \in 0..MaxFails
    BY <1>0, <2>1, OtherFailures
  <2>3. ifails' = ifails
    OBVIOUS
  <2> QED BY <1>0, <1>1, <2>2, <2>3 DEF TypeOK
<1>3. /\ Grows /\ copies' >= copies
      /\ receipt' = receipt \/ receipt' \notin Unshared
  BY <1>0, <1>1, <1>a DEF Grows, Unshared, TypeOK, Projected
<1>4. /\ iFresh' => iFresh /\ receipt' = receipt
      /\ em' = "sent" => em = "sent" \/ accepted'
      /\ receipt' = "rejected" => ~rFresh'
  BY <1>0, <1>1, <1>a DEF SharingInv, TypeOK, Projected
<1>5. receipt' \in Unshared =>
        /\ copies' = copies /\ dlq' = dlq /\ rpc' \notin Queueing
        /\ truth' # "none" => truth # "none"
        /\ accepted' => accepted
        /\ em' = "sent" => em = "sent"
  BY <1>0, <1>1, <1>3 DEF SharingInv, Unshared, Queueing
<1>6. TerminalReceiptsAreTrue'
  BY <1>0, <1>1, <1>a DEF TerminalReceiptsAreTrue, IngressInv, Projected
<1>7. rpc' \in {"put", "winner"} => Projected(rgoal')
  BY <1>0, <1>1, <1>a DEF GoalInv, Projected
<1>8. UNCHANGED <<raw, ingress, consumer>>
  BY <1>1
<1> HIDE DEF SweepPuts, Turn, Unwritten, Write, Matches, Rest,
             world, rVars, queues, mail, ingress, consumer, sweep
<1> QED BY <1>2, <1>3, <1>4, <1>5, <1>6, <1>7, <1>8, OthersTogether

\* The sweep queues the message.
LEMMA KeepSweepEnqueues == HeldInv /\ SweepEnqueues => HeldInv'
<1> SUFFICES ASSUME HeldInv, SweepEnqueues PROVE HeldInv'
  OBVIOUS
<1>0. /\ TypeOK /\ TerminalReceiptsAreTrue /\ IngressInv /\ SharingInv /\ GoalInv
      /\ copies \in Nat
  BY PipelineAssumption DEF HeldInv, PipelineInv, TypeOK
<1> USE DEF SweepEnqueues, Turn, Unwritten, Rest,
            world, rVars, queues, mail, ingress, consumer, sweep
<1>1. /\ rFresh' \in BOOLEAN /\ copies' \in 0..MaxCopies /\ rpc' \in SweepPCs
      /\ seen' \in BOOLEAN /\ rgoal' \in Receipts
      /\ UNCHANGED <<addressed, broken, mailbox, raw, active, receipt, iFresh, em,
                     dlq, truth, dead, accepted, smtp, ipc, ptr, cpc, goal, scans>>
  BY <1>0, MoreFacts DEF TypeOK, SweepPCs, Receipts, Terminal
<1>2. TypeOK'
  <2>1. Fail \/ UNCHANGED fails
    BY DEF NoFail
  <2>2. fails' \in 0..MaxFails
    BY <1>0, <2>1, OtherFailures
  <2>3. ifails' = ifails
    OBVIOUS
  <2> QED BY <1>0, <1>1, <2>2, <2>3 DEF TypeOK
<1>3. /\ Grows /\ copies' >= copies
      /\ receipt' = receipt \/ receipt' \notin Unshared
  BY <1>0, <1>1, MoreFacts DEF Grows, Unshared, TypeOK
<1>4. /\ iFresh' => iFresh /\ receipt' = receipt
      /\ em' = "sent" => em = "sent" \/ accepted'
      /\ receipt' = "rejected" => ~rFresh'
  BY <1>0, <1>1, MoreFacts DEF SharingInv, TypeOK
<1>5. receipt' \in Unshared =>
        /\ copies' = copies /\ dlq' = dlq /\ rpc' \notin Queueing
        /\ truth' # "none" => truth # "none"
        /\ accepted' => accepted
        /\ em' = "sent" => em = "sent"
  BY <1>0, <1>1, <1>3 DEF SharingInv, Unshared, Queueing
<1>6. TerminalReceiptsAreTrue'
  BY <1>0, <1>1, MoreFacts DEF TerminalReceiptsAreTrue, IngressInv
<1>7. rpc' \in {"put", "winner"} => Projected(rgoal')
  BY <1>0, <1>1, MoreFacts DEF GoalInv
<1>8. UNCHANGED <<raw, ingress, consumer>>
  BY <1>1
<1> HIDE DEF SweepEnqueues, Turn, Unwritten, Rest,
             world, rVars, queues, mail, ingress, consumer, sweep
<1> QED BY <1>2, <1>3, <1>4, <1>5, <1>6, <1>7, <1>8, OthersTogether

\* The receipt of a queued message.
LEMMA KeepSweepAdvances == HeldInv /\ SweepAdvances => HeldInv'
<1> SUFFICES ASSUME HeldInv, SweepAdvances PROVE HeldInv'
  OBVIOUS
<1>0. /\ TypeOK /\ TerminalReceiptsAreTrue /\ IngressInv /\ SharingInv /\ GoalInv
      /\ copies \in Nat
  BY PipelineAssumption DEF HeldInv, PipelineInv, TypeOK
<1> USE DEF SweepAdvances, Turn, Unwritten, Write, Rest,
            world, rVars, queues, mail, ingress, consumer, sweep
<1>1. /\ receipt' \in Receipts /\ iFresh' \in BOOLEAN /\ rFresh' \in BOOLEAN
      /\ rpc' \in SweepPCs /\ seen' \in BOOLEAN /\ rgoal' \in Receipts
      /\ UNCHANGED <<addressed, broken, mailbox, raw, active, em, copies, dlq, truth,
                     dead, accepted, smtp, ipc, ptr, cpc, goal, scans>>
  BY <1>0 DEF TypeOK, SweepPCs, Receipts, Terminal
<1>2. TypeOK'
  <2>1. Fail \/ UNCHANGED fails
    BY DEF NoFail
  <2>2. fails' \in 0..MaxFails
    BY <1>0, <2>1, OtherFailures
  <2>3. ifails' = ifails
    OBVIOUS
  <2> QED BY <1>0, <1>1, <2>2, <2>3 DEF TypeOK
<1>3. /\ Grows /\ copies' >= copies
      /\ receipt' = receipt \/ receipt' \notin Unshared
  BY <1>0, <1>1 DEF Grows, Unshared, TypeOK
<1>4. /\ iFresh' => iFresh /\ receipt' = receipt
      /\ em' = "sent" => em = "sent" \/ accepted'
      /\ receipt' = "rejected" => ~rFresh'
  BY <1>0, <1>1 DEF SharingInv, TypeOK
<1>5. receipt' \in Unshared =>
        /\ copies' = copies /\ dlq' = dlq /\ rpc' \notin Queueing
        /\ truth' # "none" => truth # "none"
        /\ accepted' => accepted
        /\ em' = "sent" => em = "sent"
  BY <1>0, <1>1, <1>3 DEF SharingInv, Unshared, Queueing
<1>6. TerminalReceiptsAreTrue'
  BY <1>0, <1>1 DEF TerminalReceiptsAreTrue, IngressInv
<1>7. rpc' \in {"put", "winner"} => Projected(rgoal')
  BY <1>0, <1>1 DEF GoalInv
<1>8. UNCHANGED <<raw, ingress, consumer>>
  BY <1>1
<1> HIDE DEF SweepAdvances, Turn, Unwritten, Write, Rest,
             world, rVars, queues, mail, ingress, consumer, sweep
<1> QED BY <1>2, <1>3, <1>4, <1>5, <1>6, <1>7, <1>8, OthersTogether

\* The sweep begins a forward.
LEMMA KeepSweepBegins == HeldInv /\ SweepBegins => HeldInv'
<1> SUFFICES ASSUME HeldInv, SweepBegins PROVE HeldInv'
  OBVIOUS
<1>0. /\ TypeOK /\ TerminalReceiptsAreTrue /\ IngressInv /\ SharingInv /\ GoalInv
      /\ copies \in Nat
  BY PipelineAssumption DEF HeldInv, PipelineInv, TypeOK
<1> USE DEF SweepBegins, Turn, Begin, BeginPartly, Write, Rest,
            world, rVars, queues, mail, ingress, consumer, sweep
<1>1. /\ receipt' \in Receipts /\ iFresh' \in BOOLEAN /\ rFresh' \in BOOLEAN
      /\ em' \in {"none", "pending", "sent"} /\ rpc' \in SweepPCs
      /\ seen' \in BOOLEAN /\ rgoal' \in Receipts
      /\ UNCHANGED <<addressed, broken, mailbox, raw, active, copies, dlq, truth,
                     dead, accepted, smtp, ipc, ptr, cpc, goal, scans>>
  BY <1>0 DEF TypeOK, SweepPCs, Receipts, Terminal
<1>2. TypeOK'
  <2>1. Fail \/ UNCHANGED fails
    BY DEF NoFail
  <2>2. fails' \in 0..MaxFails
    BY <1>0, <2>1, OtherFailures
  <2>3. ifails' = ifails
    OBVIOUS
  <2> QED BY <1>0, <1>1, <2>2, <2>3 DEF TypeOK
<1>3. /\ Grows /\ copies' >= copies
      /\ receipt' = receipt \/ receipt' \notin Unshared
  BY <1>0, <1>1 DEF Grows, Unshared, TypeOK
<1>4. /\ iFresh' => iFresh /\ receipt' = receipt
      /\ em' = "sent" => em = "sent" \/ accepted'
      /\ receipt' = "rejected" => ~rFresh'
  BY <1>0, <1>1 DEF SharingInv, TypeOK
<1>5. receipt' \in Unshared =>
        /\ copies' = copies /\ dlq' = dlq /\ rpc' \notin Queueing
        /\ truth' # "none" => truth # "none"
        /\ accepted' => accepted
        /\ em' = "sent" => em = "sent"
  BY <1>0, <1>1, <1>3 DEF SharingInv, Unshared, Queueing
<1>6. TerminalReceiptsAreTrue'
  BY <1>0, <1>1 DEF TerminalReceiptsAreTrue, IngressInv
<1>7. rpc' \in {"put", "winner"} => Projected(rgoal')
  BY <1>0, <1>1 DEF GoalInv
<1>8. UNCHANGED <<raw, ingress, consumer>>
  BY <1>1
<1> HIDE DEF SweepBegins, Turn, Begin, BeginPartly, Write, Rest,
             world, rVars, queues, mail, ingress, consumer, sweep
<1> QED BY <1>2, <1>3, <1>4, <1>5, <1>6, <1>7, <1>8, OthersTogether

\* The active marker of a finished message.
LEMMA KeepClearMarker == HeldInv /\ ClearMarker => HeldInv'
<1> SUFFICES ASSUME HeldInv, ClearMarker PROVE HeldInv'
  OBVIOUS
<1>0. /\ TypeOK /\ TerminalReceiptsAreTrue /\ IngressInv /\ SharingInv /\ GoalInv
      /\ copies \in Nat
  BY PipelineAssumption DEF HeldInv, PipelineInv, TypeOK
<1> USE DEF ClearMarker, Turn, Rest,
            world, rVars, queues, mail, ingress, consumer, sweep
<1>1. /\ active' \in BOOLEAN /\ rpc' \in SweepPCs /\ seen' \in BOOLEAN
      /\ rgoal' \in Receipts
      /\ UNCHANGED <<addressed, broken, mailbox, raw, receipt, iFresh, rFresh, em,
                     copies, dlq, truth, dead, accepted, smtp, ipc, ptr, cpc, goal,
                     scans>>
  BY <1>0 DEF TypeOK, SweepPCs, Receipts, Terminal
<1>2. TypeOK'
  <2>1. Fail \/ UNCHANGED fails
    BY DEF NoFail
  <2>2. fails' \in 0..MaxFails
    BY <1>0, <2>1, OtherFailures
  <2>3. ifails' = ifails
    OBVIOUS
  <2> QED BY <1>0, <1>1, <2>2, <2>3 DEF TypeOK
<1>3. /\ Grows /\ copies' >= copies
      /\ receipt' = receipt \/ receipt' \notin Unshared
  BY <1>0, <1>1 DEF Grows, Unshared, TypeOK
<1>4. /\ iFresh' => iFresh /\ receipt' = receipt
      /\ em' = "sent" => em = "sent" \/ accepted'
      /\ receipt' = "rejected" => ~rFresh'
  BY <1>0, <1>1 DEF SharingInv, TypeOK
<1>5. receipt' \in Unshared =>
        /\ copies' = copies /\ dlq' = dlq /\ rpc' \notin Queueing
        /\ truth' # "none" => truth # "none"
        /\ accepted' => accepted
        /\ em' = "sent" => em = "sent"
  BY <1>0, <1>1, <1>3 DEF SharingInv, Unshared, Queueing
<1>6. TerminalReceiptsAreTrue'
  BY <1>0, <1>1 DEF TerminalReceiptsAreTrue, IngressInv
<1>7. rpc' \in {"put", "winner"} => Projected(rgoal')
  BY <1>0, <1>1 DEF GoalInv
<1>8. UNCHANGED <<raw, ingress, consumer>>
  BY <1>1
<1> HIDE DEF ClearMarker, Turn, Rest,
             world, rVars, queues, mail, ingress, consumer, sweep
<1> QED BY <1>2, <1>3, <1>4, <1>5, <1>6, <1>7, <1>8, OthersTogether

\* An awaited call of the sweep fails.
LEMMA KeepSweepFails == HeldInv /\ SweepFails => HeldInv'
<1> SUFFICES ASSUME HeldInv, SweepFails PROVE HeldInv'
  OBVIOUS
<1>0. /\ TypeOK /\ TerminalReceiptsAreTrue /\ IngressInv /\ SharingInv /\ GoalInv
      /\ copies \in Nat
  BY PipelineAssumption DEF HeldInv, PipelineInv, TypeOK
<1> USE DEF SweepFails, Turn, Unwritten, Rest,
            world, rVars, queues, mail, ingress, consumer, sweep
<1>1. /\ rFresh' \in BOOLEAN /\ copies' \in 0..MaxCopies /\ rpc' \in SweepPCs
      /\ seen' \in BOOLEAN /\ rgoal' \in Receipts
      /\ UNCHANGED <<addressed, broken, mailbox, raw, active, receipt, iFresh, em,
                     dlq, truth, dead, accepted, smtp, ipc, ptr, cpc, goal, scans>>
  BY <1>0, MoreFacts DEF TypeOK, SweepPCs, Receipts, Terminal
<1>2. TypeOK'
  <2>1. Fail \/ UNCHANGED fails
    BY DEF NoFail
  <2>2. fails' \in 0..MaxFails
    BY <1>0, <2>1, OtherFailures
  <2>3. ifails' = ifails
    OBVIOUS
  <2> QED BY <1>0, <1>1, <2>2, <2>3 DEF TypeOK
<1>3. /\ Grows /\ copies' >= copies
      /\ receipt' = receipt \/ receipt' \notin Unshared
  BY <1>0, <1>1, MoreFacts DEF Grows, Unshared, TypeOK
<1>4. /\ iFresh' => iFresh /\ receipt' = receipt
      /\ em' = "sent" => em = "sent" \/ accepted'
      /\ receipt' = "rejected" => ~rFresh'
  BY <1>0, <1>1, MoreFacts DEF SharingInv, TypeOK
<1>5. receipt' \in Unshared =>
        /\ copies' = copies /\ dlq' = dlq /\ rpc' \notin Queueing
        /\ truth' # "none" => truth # "none"
        /\ accepted' => accepted
        /\ em' = "sent" => em = "sent"
  BY <1>0, <1>1, <1>3 DEF SharingInv, Unshared, Queueing
<1>6. TerminalReceiptsAreTrue'
  BY <1>0, <1>1, MoreFacts DEF TerminalReceiptsAreTrue, IngressInv
<1>7. rpc' \in {"put", "winner"} => Projected(rgoal')
  BY <1>0, <1>1, MoreFacts DEF GoalInv
<1>8. UNCHANGED <<raw, ingress, consumer>>
  BY <1>1
<1> HIDE DEF SweepFails, Turn, Unwritten, Rest,
             world, rVars, queues, mail, ingress, consumer, sweep
<1> QED BY <1>2, <1>3, <1>4, <1>5, <1>6, <1>7, <1>8, OthersTogether

\* A forward is not needed.
LEMMA KeepEmergencySettles == HeldInv /\ EmergencySettles => HeldInv'
<1> SUFFICES ASSUME HeldInv, EmergencySettles PROVE HeldInv'
  OBVIOUS
<1>0. /\ TypeOK /\ TerminalReceiptsAreTrue /\ IngressInv /\ SharingInv /\ GoalInv
      /\ copies \in Nat
  BY PipelineAssumption DEF HeldInv, PipelineInv, TypeOK
<1>a. Truth # "none" => Projected(Truth)
  BY <1>0, TruthFacts
<1> USE DEF EmergencySettles, Elsewhere, Write, Rest,
            world, rVars, queues, mail, ingress, consumer, sweep
<1>1. /\ receipt' \in Receipts /\ iFresh' \in BOOLEAN /\ rFresh' \in BOOLEAN
      /\ em' \in {"none", "pending", "sent"}
      /\ UNCHANGED <<addressed, broken, mailbox, raw, active, copies, dlq, truth,
                     dead, accepted, smtp, ipc, ptr, cpc, goal, rpc, seen, rgoal,
                     scans>>
  BY <1>0, <1>a DEF TypeOK, SweepPCs, Receipts, Terminal, Projected
<1>2. TypeOK'
  <2>1. Fail \/ UNCHANGED fails
    BY DEF NoFail
  <2>2. fails' \in 0..MaxFails
    BY <1>0, <2>1, OtherFailures
  <2>3. ifails' = ifails
    OBVIOUS
  <2> QED BY <1>0, <1>1, <2>2, <2>3 DEF TypeOK
<1>3. /\ Grows /\ copies' >= copies
      /\ receipt' = receipt \/ receipt' \notin Unshared
  BY <1>0, <1>1, <1>a DEF Grows, Unshared, TypeOK, Projected
<1>4. /\ iFresh' => iFresh /\ receipt' = receipt
      /\ em' = "sent" => em = "sent" \/ accepted'
      /\ receipt' = "rejected" => ~rFresh'
  BY <1>0, <1>1, <1>a DEF SharingInv, TypeOK, Projected
<1>5. receipt' \in Unshared =>
        /\ copies' = copies /\ dlq' = dlq /\ rpc' \notin Queueing
        /\ truth' # "none" => truth # "none"
        /\ accepted' => accepted
        /\ em' = "sent" => em = "sent"
  BY <1>0, <1>1, <1>3 DEF SharingInv, Unshared, Queueing
<1>6. TerminalReceiptsAreTrue'
  BY <1>0, <1>1, <1>a DEF TerminalReceiptsAreTrue, IngressInv, Projected
<1>7. rpc' \in {"put", "winner"} => Projected(rgoal')
  BY <1>0, <1>1, <1>a DEF GoalInv, Projected
<1>8. UNCHANGED <<raw, ingress, consumer>>
  BY <1>1
<1> HIDE DEF EmergencySettles, Elsewhere, Write, Rest,
             world, rVars, queues, mail, ingress, consumer, sweep
<1> QED BY <1>2, <1>3, <1>4, <1>5, <1>6, <1>7, <1>8, OthersTogether

\* The receipt of a forward is put again.
LEMMA KeepEmergencyRepairs == HeldInv /\ EmergencyRepairs => HeldInv'
<1> SUFFICES ASSUME HeldInv, EmergencyRepairs PROVE HeldInv'
  OBVIOUS
<1>0. /\ TypeOK /\ TerminalReceiptsAreTrue /\ IngressInv /\ SharingInv /\ GoalInv
      /\ copies \in Nat
  BY PipelineAssumption DEF HeldInv, PipelineInv, TypeOK
<1> USE DEF EmergencyRepairs, Elsewhere, Write, Rest,
            world, rVars, queues, mail, ingress, consumer, sweep
<1>1. /\ receipt' \in Receipts /\ iFresh' \in BOOLEAN /\ rFresh' \in BOOLEAN
      /\ UNCHANGED <<addressed, broken, mailbox, raw, active, em, copies, dlq, truth,
                     dead, accepted, smtp, ipc, ptr, cpc, goal, rpc, seen, rgoal,
                     scans>>
  BY <1>0 DEF TypeOK, SweepPCs, Receipts, Terminal
<1>2. TypeOK'
  <2>1. Fail \/ UNCHANGED fails
    BY DEF NoFail
  <2>2. fails' \in 0..MaxFails
    BY <1>0, <2>1, OtherFailures
  <2>3. ifails' = ifails
    OBVIOUS
  <2> QED BY <1>0, <1>1, <2>2, <2>3 DEF TypeOK
<1>3. /\ Grows /\ copies' >= copies
      /\ receipt' = receipt \/ receipt' \notin Unshared
  BY <1>0, <1>1 DEF Grows, Unshared, TypeOK
<1>4. /\ iFresh' => iFresh /\ receipt' = receipt
      /\ em' = "sent" => em = "sent" \/ accepted'
      /\ receipt' = "rejected" => ~rFresh'
  BY <1>0, <1>1 DEF SharingInv, TypeOK
<1>5. receipt' \in Unshared =>
        /\ copies' = copies /\ dlq' = dlq /\ rpc' \notin Queueing
        /\ truth' # "none" => truth # "none"
        /\ accepted' => accepted
        /\ em' = "sent" => em = "sent"
  BY <1>0, <1>1, <1>3 DEF SharingInv, Unshared, Queueing
<1>6. TerminalReceiptsAreTrue'
  BY <1>0, <1>1 DEF TerminalReceiptsAreTrue, IngressInv
<1>7. rpc' \in {"put", "winner"} => Projected(rgoal')
  BY <1>0, <1>1 DEF GoalInv
<1>8. UNCHANGED <<raw, ingress, consumer>>
  BY <1>1
<1> HIDE DEF EmergencyRepairs, Elsewhere, Write, Rest,
             world, rVars, queues, mail, ingress, consumer, sweep
<1> QED BY <1>2, <1>3, <1>4, <1>5, <1>6, <1>7, <1>8, OthersTogether

\* The provider accepts a forward.
LEMMA KeepEmergencySends == HeldInv /\ EmergencySends => HeldInv'
<1> SUFFICES ASSUME HeldInv, EmergencySends PROVE HeldInv'
  OBVIOUS
<1>0. /\ TypeOK /\ TerminalReceiptsAreTrue /\ IngressInv /\ SharingInv /\ GoalInv
      /\ copies \in Nat
  BY PipelineAssumption DEF HeldInv, PipelineInv, TypeOK
<1> USE DEF EmergencySends, Elsewhere, Rest,
            world, rVars, queues, mail, ingress, consumer, sweep
<1>1. /\ em' \in {"none", "pending", "sent"} /\ accepted' \in BOOLEAN
      /\ UNCHANGED <<addressed, broken, mailbox, raw, active, receipt, iFresh, rFresh,
                     copies, dlq, truth, dead, smtp, ipc, ptr, cpc, goal, rpc, seen,
                     rgoal, scans>>
  BY <1>0 DEF TypeOK, SweepPCs, Receipts, Terminal
<1>2. TypeOK'
  <2>1. Fail \/ UNCHANGED fails
    BY DEF NoFail
  <2>2. fails' \in 0..MaxFails
    BY <1>0, <2>1, OtherFailures
  <2>3. ifails' = ifails
    OBVIOUS
  <2> QED BY <1>0, <1>1, <2>2, <2>3 DEF TypeOK
<1>3. /\ Grows /\ copies' >= copies
      /\ receipt' = receipt \/ receipt' \notin Unshared
  BY <1>0, <1>1 DEF Grows, Unshared, TypeOK
<1>4. /\ iFresh' => iFresh /\ receipt' = receipt
      /\ em' = "sent" => em = "sent" \/ accepted'
      /\ receipt' = "rejected" => ~rFresh'
  BY <1>0, <1>1 DEF SharingInv, TypeOK
<1>5. receipt' \in Unshared =>
        /\ copies' = copies /\ dlq' = dlq /\ rpc' \notin Queueing
        /\ truth' # "none" => truth # "none"
        /\ accepted' => accepted
        /\ em' = "sent" => em = "sent"
  BY <1>0, <1>1, <1>3 DEF SharingInv, Unshared, Queueing
<1>6. TerminalReceiptsAreTrue'
  BY <1>0, <1>1 DEF TerminalReceiptsAreTrue, IngressInv
<1>7. rpc' \in {"put", "winner"} => Projected(rgoal')
  BY <1>0, <1>1 DEF GoalInv
<1>8. UNCHANGED <<raw, ingress, consumer>>
  BY <1>1
<1> HIDE DEF EmergencySends, Elsewhere, Rest,
             world, rVars, queues, mail, ingress, consumer, sweep
<1> QED BY <1>2, <1>3, <1>4, <1>5, <1>6, <1>7, <1>8, OthersTogether

\* The acceptance is recorded.
LEMMA KeepEmergencyCommits == HeldInv /\ EmergencyCommits => HeldInv'
<1> SUFFICES ASSUME HeldInv, EmergencyCommits PROVE HeldInv'
  OBVIOUS
<1>0. /\ TypeOK /\ TerminalReceiptsAreTrue /\ IngressInv /\ SharingInv /\ GoalInv
      /\ copies \in Nat
  BY PipelineAssumption DEF HeldInv, PipelineInv, TypeOK
<1> USE DEF EmergencyCommits, Elsewhere, Write, Rest,
            world, rVars, queues, mail, ingress, consumer, sweep
<1>1. /\ receipt' \in Receipts /\ iFresh' \in BOOLEAN /\ rFresh' \in BOOLEAN
      /\ em' \in {"none", "pending", "sent"}
      /\ UNCHANGED <<addressed, broken, mailbox, raw, active, copies, dlq, truth,
                     dead, accepted, smtp, ipc, ptr, cpc, goal, rpc, seen, rgoal,
                     scans>>
  BY <1>0 DEF TypeOK, SweepPCs, Receipts, Terminal
<1>2. TypeOK'
  <2>1. Fail \/ UNCHANGED fails
    BY DEF NoFail
  <2>2. fails' \in 0..MaxFails
    BY <1>0, <2>1, OtherFailures
  <2>3. ifails' = ifails
    OBVIOUS
  <2> QED BY <1>0, <1>1, <2>2, <2>3 DEF TypeOK
<1>3. /\ Grows /\ copies' >= copies
      /\ receipt' = receipt \/ receipt' \notin Unshared
  BY <1>0, <1>1 DEF Grows, Unshared, TypeOK
<1>4. /\ iFresh' => iFresh /\ receipt' = receipt
      /\ em' = "sent" => em = "sent" \/ accepted'
      /\ receipt' = "rejected" => ~rFresh'
  BY <1>0, <1>1 DEF SharingInv, TypeOK
<1>5. receipt' \in Unshared =>
        /\ copies' = copies /\ dlq' = dlq /\ rpc' \notin Queueing
        /\ truth' # "none" => truth # "none"
        /\ accepted' => accepted
        /\ em' = "sent" => em = "sent"
  BY <1>0, <1>1, <1>3 DEF SharingInv, Unshared, Queueing
<1>6. TerminalReceiptsAreTrue'
  BY <1>0, <1>1 DEF TerminalReceiptsAreTrue, IngressInv
<1>7. rpc' \in {"put", "winner"} => Projected(rgoal')
  BY <1>0, <1>1 DEF GoalInv
<1>8. UNCHANGED <<raw, ingress, consumer>>
  BY <1>1
<1> HIDE DEF EmergencyCommits, Elsewhere, Write, Rest,
             world, rVars, queues, mail, ingress, consumer, sweep
<1> QED BY <1>2, <1>3, <1>4, <1>5, <1>6, <1>7, <1>8, OthersTogether

\* The owner deletes the message.
LEMMA KeepOwnerDeletes == HeldInv /\ OwnerDeletes => HeldInv'
<1> SUFFICES ASSUME HeldInv, OwnerDeletes PROVE HeldInv'
  OBVIOUS
<1>0. /\ TypeOK /\ TerminalReceiptsAreTrue /\ IngressInv /\ SharingInv /\ GoalInv
      /\ copies \in Nat
  BY PipelineAssumption DEF HeldInv, PipelineInv, TypeOK
<1> USE DEF OwnerDeletes, Elsewhere, Rest,
            world, rVars, queues, mail, ingress, consumer, sweep
<1>1. /\ truth' \in {"none", "stored", "deleted"}
      /\ UNCHANGED <<addressed, broken, mailbox, raw, active, receipt, iFresh, rFresh,
                     em, copies, dlq, dead, accepted, smtp, ipc, ptr, cpc, goal, rpc,
                     seen, rgoal, scans>>
  BY <1>0 DEF TypeOK, SweepPCs, Receipts, Terminal
<1>2. TypeOK'
  <2>1. Fail \/ UNCHANGED fails
    BY DEF NoFail
  <2>2. fails' \in 0..MaxFails
    BY <1>0, <2>1, OtherFailures
  <2>3. ifails' = ifails
    OBVIOUS
  <2> QED BY <1>0, <1>1, <2>2, <2>3 DEF TypeOK
<1>3. /\ Grows /\ copies' >= copies
      /\ receipt' = receipt \/ receipt' \notin Unshared
  BY <1>0, <1>1 DEF Grows, Unshared, TypeOK
<1>4. /\ iFresh' => iFresh /\ receipt' = receipt
      /\ em' = "sent" => em = "sent" \/ accepted'
      /\ receipt' = "rejected" => ~rFresh'
  BY <1>0, <1>1 DEF SharingInv, TypeOK
<1>5. receipt' \in Unshared =>
        /\ copies' = copies /\ dlq' = dlq /\ rpc' \notin Queueing
        /\ truth' # "none" => truth # "none"
        /\ accepted' => accepted
        /\ em' = "sent" => em = "sent"
  BY <1>0, <1>1, <1>3 DEF SharingInv, Unshared, Queueing
<1>6. TerminalReceiptsAreTrue'
  BY <1>0, <1>1 DEF TerminalReceiptsAreTrue, IngressInv
<1>7. rpc' \in {"put", "winner"} => Projected(rgoal')
  BY <1>0, <1>1 DEF GoalInv
<1>8. UNCHANGED <<raw, ingress, consumer>>
  BY <1>1
<1> HIDE DEF OwnerDeletes, Elsewhere, Rest,
             world, rVars, queues, mail, ingress, consumer, sweep
<1> QED BY <1>2, <1>3, <1>4, <1>5, <1>6, <1>7, <1>8, OthersTogether

\* The mailbox opens or closes.
LEMMA KeepMailboxChanges == HeldInv /\ MailboxChanges => HeldInv'
<1> SUFFICES ASSUME HeldInv, MailboxChanges PROVE HeldInv'
  OBVIOUS
<1>0. /\ TypeOK /\ TerminalReceiptsAreTrue /\ IngressInv /\ SharingInv /\ GoalInv
      /\ copies \in Nat
  BY PipelineAssumption DEF HeldInv, PipelineInv, TypeOK
<1> USE DEF MailboxChanges, Rest,
            world, rVars, queues, mail, ingress, consumer, sweep
<1>1. /\ mailbox' \in {"active", "closed"}
      /\ UNCHANGED <<addressed, broken, raw, active, receipt, iFresh, rFresh, em,
                     copies, dlq, truth, dead, accepted, smtp, ipc, ptr, cpc, goal,
                     rpc, seen, rgoal, scans>>
  BY <1>0 DEF TypeOK, SweepPCs, Receipts, Terminal
<1>2. TypeOK'
  <2>1. Fail \/ UNCHANGED fails
    BY DEF NoFail
  <2>2. fails' \in 0..MaxFails
    BY <1>0, <2>1, OtherFailures
  <2>3. ifails' = ifails
    OBVIOUS
  <2> QED BY <1>0, <1>1, <2>2, <2>3 DEF TypeOK
<1>3. /\ Grows /\ copies' >= copies
      /\ receipt' = receipt \/ receipt' \notin Unshared
  BY <1>0, <1>1 DEF Grows, Unshared, TypeOK
<1>4. /\ iFresh' => iFresh /\ receipt' = receipt
      /\ em' = "sent" => em = "sent" \/ accepted'
      /\ receipt' = "rejected" => ~rFresh'
  BY <1>0, <1>1 DEF SharingInv, TypeOK
<1>5. receipt' \in Unshared =>
        /\ copies' = copies /\ dlq' = dlq /\ rpc' \notin Queueing
        /\ truth' # "none" => truth # "none"
        /\ accepted' => accepted
        /\ em' = "sent" => em = "sent"
  BY <1>0, <1>1, <1>3 DEF SharingInv, Unshared, Queueing
<1>6. TerminalReceiptsAreTrue'
  BY <1>0, <1>1 DEF TerminalReceiptsAreTrue, IngressInv
<1>7. rpc' \in {"put", "winner"} => Projected(rgoal')
  BY <1>0, <1>1 DEF GoalInv
<1>8. UNCHANGED <<raw, ingress, consumer>>
  BY <1>1
<1> HIDE DEF MailboxChanges, Rest,
             world, rVars, queues, mail, ingress, consumer, sweep
<1> QED BY <1>2, <1>3, <1>4, <1>5, <1>6, <1>7, <1>8, OthersTogether

-----------------------------------------------------------------------------
(* The theorems                                                            *)

\* Before anything happens.
LEMMA InitHeld == Init => HeldInv
<1> SUFFICES ASSUME Init PROVE HeldInv
  OBVIOUS
<1>1. TypeOK
  <2>1. /\ cpc \in [Consumers -> ConsumerPCs] /\ goal \in [Consumers -> Receipts]
        /\ receipt \in Receipts /\ ipc \in IngressPCs /\ rpc \in SweepPCs
        /\ rgoal \in Receipts
    BY DEF Init, Receipts, IngressPCs, ConsumerPCs, SweepPCs
  <2>2. /\ copies \in 0..MaxCopies /\ dlq \in 0..MaxCopies /\ scans \in 0..MaxScans
        /\ ifails \in 0..MaxIngressFails /\ fails \in 0..MaxFails
    BY PipelineAssumption DEF Init
  <2> QED BY <2>1, <2>2 DEF Init, TypeOK
<1>2. IngressInv /\ SharingInv
  BY DEF Init, IngressInv, SharingInv, HoldsPointer, Unshared, Queueing, Deciding,
         Undelivered, Delivered
<1>3. TerminalReceiptsAreTrue /\ RejectionIsFinal /\ GoalInv
  BY DEF Init, TerminalReceiptsAreTrue, RejectionIsFinal, GoalInv
<1>4. CopyInv
  BY BusyFacts DEF Init, CopyInv
<1> QED BY <1>1, <1>2, <1>3, <1>4 DEF HeldInv, PipelineInv

\* Ingress keeps the invariant.
LEMMA IngressKeeps == HeldInv /\ (IngressStep \/ IngressCrash) => HeldInv'
BY KeepReadStream, KeepReadStreamFails, KeepArchive, KeepArchiveFails, KeepDigestFails,
   KeepMarkActive, KeepRecordArchived, KeepAdmit, KeepRecordAdmitted, KeepSendPointer,
   KeepRecordEnqueued, KeepRecordRejected, KeepReadBackRejection,
   KeepEstablishAfterRejection, KeepClearAfterRejection, KeepStoreDirectly,
   KeepStoreDirectlyFails, KeepEstablish, KeepForward, KeepCommitForward,
   KeepEstablishOrReject, KeepIngressCrash
   DEF IngressStep

\* Consumers and the queue keep the invariant.
LEMMA ConsumersKeep ==
  ASSUME HeldInv,
         \/ \E c \in Consumers : Deliver(c) \/ ConsumerStep(c) \/ Expire(c)
         \/ Exhaust \/ DeadLetter \/ DeadLetterFails
  PROVE  HeldInv'
<1>1. ASSUME NEW c \in Consumers, Deliver(c) \/ ConsumerStep(c) \/ Expire(c)
      PROVE  HeldInv'
  BY <1>1, KeepDeliver, KeepCheckTerminal, KeepCheckMailbox, KeepCheckTruth, KeepReadRaw,
     KeepProject, KeepProjectFails, KeepWriteReceipt, KeepFinalize, KeepHandOff, KeepExpire
     DEF ConsumerStep
<1> QED BY <1>1, KeepExhaust, KeepDeadLetters

\* The sweep keeps the invariant.
LEMMA SweepKeeps ==
  ASSUME HeldInv, RecentScan \/ SweepReads \/ SweepTooEarly \/ SweepStep \/ SweepFails
  PROVE  HeldInv'
BY KeepRecentScan, KeepSweepReads, KeepSweepTooEarly, KeepSweepMissing, KeepSweepRepair,
   KeepSweepStored, KeepSweepDeleted, KeepSweepAdmits, KeepSweepDoubts, KeepSweepLedger,
   KeepSweepPuts, KeepSweepWinner, KeepSweepEnqueues, KeepSweepAdvances, KeepSweepBegins,
   KeepClearMarker, KeepSweepFails
   DEF SweepStep

\* Every step keeps the invariant.
LEMMA HeldKept == HeldInv /\ [Next]_vars => HeldInv'
<1> SUFFICES ASSUME HeldInv, [Next]_vars PROVE HeldInv'
  OBVIOUS
<1>1. CASE Emergency \/ OwnerDeletes \/ MailboxChanges
  BY <1>1, KeepEmergencySettles, KeepEmergencyRepairs, KeepEmergencySends,
     KeepEmergencyCommits, KeepOwnerDeletes, KeepMailboxChanges DEF Emergency
<1>2. CASE UNCHANGED vars
  BY <1>2
     DEF vars, world, rVars, queues, mail, ingress, consumer, sweep, HeldInv, PipelineInv,
         TypeOK, TerminalReceiptsAreTrue, RejectionIsFinal, IngressInv, SharingInv,
         GoalInv, CopyInv, Undelivered, Delivered, Projected, Busy
<1> QED BY <1>1, <1>2, IngressKeeps, ConsumersKeep, SweepKeeps DEF Next

\* The inductive invariant of the pipeline holds in every reachable state.
THEOREM HeldInvariant == Spec => []HeldInv
<1> QED BY InitHeld, HeldKept, PTL DEF Spec

\* Terminal receipts, on which every actor stops, are true, and a rejection is
\* final, whatever the interleaving of receiveEmail, processInboundMessage and
\* reconcileInboundArchives and wherever their calls fail.
THEOREM ReceiptsAreTrue == Spec => []PipelineInv
<1>1. HeldInv => PipelineInv
  BY DEF HeldInv
<1> QED BY <1>1, HeldInvariant, PTL

\* A message that SMTP accepted is delivered, or archived under a receipt that
\* the sweep (reconcileArchive) does not leave alone.
THEOREM AcceptedMessagesAreHeld == Spec => []AcceptedIsHeld
<1>1. HeldInv => AcceptedIsHeld
  BY DEF HeldInv, PipelineInv, TerminalReceiptsAreTrue, IngressInv, AcceptedIsHeld,
         Delivered
<1> QED BY <1>1, HeldInvariant, PTL

\* Only a terminal receipt, a finished projection or a dead letter takes a copy
\* out of the queues.
LEMMA CopiesLeaveBy ==
  ASSUME HeldInv, [Next]_vars, copies' + dlq' < copies + dlq
  PROVE  DeadLetter \/ \E c \in Consumers : cpc[c] \in {"check", "final2"}
<1>1. TypeOK /\ copies \in Nat /\ dlq \in Nat /\ copies \in 0..MaxCopies
  BY PipelineAssumption DEF HeldInv, PipelineInv, TypeOK
<1>2. ~UNCHANGED queues
  BY <1>1 DEF queues
<1>3. ASSUME IngressStep \/ IngressCrash
      PROVE  FALSE
  <2>1. SendPointer
    BY <1>2, <1>3
       DEF IngressStep, ReadStream, ReadStreamFails, Archive, ArchiveFails, DigestFails,
           MarkActive, RecordArchived, IngressPuts, Admit, RecordAdmitted, RecordEnqueued,
           RecordRejected, ReadBackRejection, EstablishAfterRejection,
           ClearAfterRejection, StoreDirectly, StoreDirectlyFails, Establish, Forward,
           CommitForward, EstablishOrReject, IngressCrash
  <2> QED BY <1>1, <2>1, MoreFacts DEF SendPointer
<1>4. ASSUME NEW c \in Consumers, Deliver(c) \/ ConsumerStep(c) \/ Expire(c)
      PROVE  cpc[c] \in {"check", "final2"}
  BY <1>2, <1>4
     DEF Deliver, ConsumerStep, Expire, CheckTerminal, CheckMailbox, CheckTruth, ReadRaw,
         Project, ProjectFails, WriteReceipt, Finalize, HandOff, Goes, Quiet, queues
<1>5. ~Exhaust /\ ~DeadLetterFails
  BY <1>1, <1>2 DEF Exhaust, DeadLetterFails
<1>6. ASSUME RecentScan \/ SweepReads \/ SweepTooEarly \/ SweepStep \/ SweepFails
      PROVE  FALSE
  <2>1. SweepEnqueues \/ SweepFails
    BY <1>2, <1>6
       DEF RecentScan, SweepReads, SweepTooEarly, SweepStep, SweepMissing, SweepRepair,
           SweepStored, SweepDeleted, SweepAdmits, SweepDoubts, SweepLedger, SweepPuts,
           SweepWinner, SweepAdvances, SweepBegins, ClearMarker, Decide
  <2> QED BY <1>1, <2>1, MoreFacts DEF SweepEnqueues, SweepFails
<1>7. ~(Emergency \/ OwnerDeletes \/ MailboxChanges) /\ ~UNCHANGED vars
  BY <1>2
     DEF Emergency, EmergencySettles, EmergencyRepairs, EmergencySends, EmergencyCommits,
         OwnerDeletes, MailboxChanges, Elsewhere, vars
<1> QED BY <1>3, <1>4, <1>5, <1>6, <1>7 DEF Next

\* A copy leaves the queue and the dead-letter lanes only when the message is
\* delivered, a forward has taken over, or the sender was told: Ack and
\* processInboundDeadLetterItem come after the fact they rely on.
THEOREM CopiesLeaveOnlySafely == Spec => CopiesLeaveSafely
<1>1. ASSUME HeldInv, [Next]_vars, copies' + dlq' < copies + dlq
      PROVE  Delivered \/ em' # "none" \/ receipt = "rejected"
  <2>1. CASE DeadLetter
    BY <1>1, <2>1
       DEF HeldInv, PipelineInv, TerminalReceiptsAreTrue, DeadLetter, Begin, Delivered
  <2>2. ASSUME NEW c \in Consumers, cpc[c] \in {"check", "final2"}
        PROVE  Delivered
    BY <1>1, <2>2 DEF HeldInv, GoalInv, Projected, Delivered
  <2> QED BY <1>1, <2>1, <2>2, CopiesLeaveBy
<1>2. HeldInv /\ [Next]_vars
        => [copies' + dlq' < copies + dlq
              => Delivered \/ em' # "none" \/ receipt = "rejected"]_vars
  BY <1>1
<1> QED BY <1>2, HeldInvariant, PTL DEF Spec, CopiesLeaveSafely

=============================================================================
