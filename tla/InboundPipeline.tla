--------------------------- MODULE InboundPipeline ---------------------------
(***************************************************************************)
(* One inbound message from SMTP to its mailbox.                           *)
(*                                                                         *)
(* Ingress archives the raw message in R2 before it answers the sender,    *)
(* marks it active, moves a receipt through archived, admitted and         *)
(* enqueued, and hands a pointer to the inbound queue; when a step fails   *)
(* it stores the message directly, forwards it, or rejects it.  Consumers  *)
(* of the queue project the message into the mailbox and finalize the      *)
(* receipt; whatever they cannot do becomes an emergency forward, and the  *)
(* copy stays in the queue.  A sweep reconciles archive, receipt, mailbox  *)
(* and active marker.  The receipt is one R2 object that all of them write *)
(* under etag conditions: a writer that read it before somebody else's put *)
(* loses.  Any awaited call may fail, and may have taken effect all the    *)
(* same.                                                                   *)
(*                                                                         *)
(*   workers/inbound-email.ts            receiveEmail and its fallbacks    *)
(*   workers/inbound-queue.ts            the queue and its dead letters    *)
(*   workers/inbound-reconciliation.ts   the sweep                         *)
(*                                                                         *)
(* The emergency forward is reduced to what EmergencyForward shows of it.  *)
(***************************************************************************)
EXTENDS Naturals, FiniteSets

CONSTANTS
  Consumers,   \* consumers of the inbound queue
  MaxCopies,   \* bound on the copies kept in each queue
  MaxScans,    \* lanes of the recent-archive scan that still pass the message
  MaxIngressFails,  \* bound on the failed calls of ingress, and its crash
  MaxFails     \* bound on the failed calls of the others

ASSUME PipelineAssumption ==
  /\ IsFiniteSet(Consumers)
  /\ MaxCopies \in Nat /\ MaxScans \in Nat
  /\ MaxIngressFails \in Nat /\ MaxFails \in Nat

VARIABLES
  addressed,   \* recipient and size pass the envelope checks
  broken,      \* the MIME parser gives the message up for good
  mailbox,     \* the recipient: "active", or "closed" (not provisioned, inactive)
  raw,         \* the archived message; "plain" has no SHA-256
  active,      \* its marker in the active recovery index
  receipt, iFresh, rFresh,  \* the receipt; whose etag is still current
  em,          \* the emergency forward: none, pending, sent (accepted)
  copies, dlq, \* copies of the pointer in the queue and its dead-letter lanes
  truth,       \* what the mailbox holds: none, stored, deleted
  dead,        \* the mailbox's terminal-failure ledger names the message
  accepted,    \* a forward was accepted by its provider
  smtp,        \* the answer to the sender
  ipc, ptr,    \* ingress; does it hold a pointer to the archive?
  cpc, goal,   \* consumers; the terminal receipt each is after
  rpc, seen, rgoal,  \* the sweep, did it see a receipt, the one it writes
  scans, ifails, fails

Terminal == {"stored", "deleted", "forwarded", "rejected"}
Receipts == Terminal \cup {"absent", "archived", "admitted", "enqueued", "pending"}

world == <<addressed, broken, mailbox>>
rVars == <<receipt, iFresh, rFresh>>
queues == <<copies, dlq>>
mail == <<truth, dead, accepted>>
ingress == <<smtp, ipc, ptr, ifails>>
consumer == <<cpc, goal>>
sweep == <<rpc, seen, rgoal, scans>>
vars == <<world, raw, active, rVars, em, queues, mail, ingress, consumer, sweep, fails>>

IngressPCs == {"read", "archive", "mark", "receipt", "admit", "admitted", "send",
               "enqueued", "reject", "readback", "establishRejected", "clear",
               "direct", "establish", "forward", "commit", "establishLast", "done"}
ConsumerPCs == {"idle", "check", "mailbox", "truth", "raw", "project", "final",
                "final2", "handoff"}
SweepPCs == {"idle", "missing", "admission", "repair", "ledger", "stored",
             "deleted", "put", "winner", "enqueue", "advance", "begin", "tidy"}

TypeOK ==
  /\ addressed \in BOOLEAN /\ broken \in BOOLEAN
  /\ mailbox \in {"active", "closed"}
  /\ raw \in {"none", "plain", "intact"} /\ active \in BOOLEAN
  /\ receipt \in Receipts /\ iFresh \in BOOLEAN /\ rFresh \in BOOLEAN
  /\ em \in {"none", "pending", "sent"}
  /\ copies \in 0..MaxCopies /\ dlq \in 0..MaxCopies
  /\ truth \in {"none", "stored", "deleted"}
  /\ dead \in BOOLEAN /\ accepted \in BOOLEAN
  /\ smtp \in {"open", "accepted", "rejected", "failed"}
  /\ ipc \in IngressPCs /\ ptr \in BOOLEAN
  /\ cpc \in [Consumers -> ConsumerPCs] /\ goal \in [Consumers -> Receipts]
  /\ rpc \in SweepPCs /\ seen \in BOOLEAN /\ rgoal \in Receipts
  /\ scans \in 0..MaxScans
  /\ ifails \in 0..MaxIngressFails /\ fails \in 0..MaxFails

Init ==
  /\ addressed \in BOOLEAN /\ broken \in BOOLEAN
  /\ mailbox \in {"active", "closed"}
  /\ raw = "none" /\ active = FALSE
  /\ receipt = "absent" /\ iFresh = FALSE /\ rFresh = FALSE
  /\ em = "none" /\ copies = 0 /\ dlq = 0
  /\ truth = "none" /\ dead = FALSE /\ accepted = FALSE
  /\ smtp = "open" /\ ipc = "read" /\ ptr = FALSE
  /\ cpc = [c \in Consumers |-> "idle"] /\ goal = [c \in Consumers |-> "absent"]
  /\ rpc = "idle" /\ seen = FALSE /\ rgoal = "absent"
  /\ scans = MaxScans /\ ifails = 0 /\ fails = 0

-----------------------------------------------------------------------------
(* What the actors share                                                   *)

Fail == fails < MaxFails /\ fails' = fails + 1
NoFail == UNCHANGED fails

\* A put of the receipt gives it a new etag.
Write(v) == receipt' = v /\ iFresh' = FALSE /\ rFresh' = FALSE

\* At least once: a bound, not a limit of the queue.
More(n) == IF n < MaxCopies THEN n + 1 ELSE n

\* getInboundDeletionAuthority needs the SHA-256 of the archive; the live
\* row does not.
Truth == IF truth = "deleted" /\ raw # "intact" THEN "none" ELSE truth

\* exactTerminalReceiptIsAuthoritative
Authoritative(v) ==
  \/ v \in {"forwarded", "rejected"}
  \/ v \in {"stored", "deleted"} /\ Truth = v

\* beginEmergencyForward: only an accepted forward and a rejected message are
\* left as they are.
Begin ==
  IF receipt \in {"forwarded", "rejected"}
  THEN em' = "none" /\ UNCHANGED rVars
  ELSE /\ em' = IF em = "none" THEN "pending" ELSE em
       /\ IF receipt = "pending" THEN UNCHANGED rVars ELSE Write("pending")

\* ... which may fail after its marker, or after everything.
BeginPartly ==
  \/ UNCHANGED <<em, rVars>>
  \/ em' = (IF em = "none" THEN "pending" ELSE em) /\ UNCHANGED rVars
  \/ Begin

\* recordInboundTerminalFailure, at best effort.
Ledgered == dead' \in {dead, truth = "none"} /\ UNCHANGED <<truth, accepted>>

-----------------------------------------------------------------------------
(* receiveEmail                                                            *)

At(p, q) == ipc = p /\ ipc' = q
Answer(v) == smtp' = v /\ UNCHANGED ptr
NoAnswer == UNCHANGED <<smtp, ptr>>

\* Its failures are counted until it has answered.
Fails ==
  /\ ifails < MaxIngressFails
  /\ ifails' = (IF ipc' = "done" THEN 0 ELSE ifails + 1) /\ UNCHANGED fails
Works == ifails' = (IF ipc' = "done" THEN 0 ELSE ifails) /\ UNCHANGED fails

\* The raw stream is read; the recipient of one that cannot be read is
\* checked as well as possible.
ReadStream ==
  /\ At("read", "archive") /\ NoAnswer /\ Works
  /\ UNCHANGED <<world, raw, active, rVars, em, queues, mail, consumer, sweep>>

ReadStreamFails ==
  /\ ipc = "read"
  /\ \/ (~addressed \/ mailbox # "active") /\ ipc' = "done" /\ Answer("rejected")
     \/ addressed /\ ipc' = "forward" /\ NoAnswer   \* active, or not verified
  /\ Fails
  /\ UNCHANGED <<world, raw, active, rVars, em, queues, mail, consumer, sweep>>

\* persistRawWithRetry: create-only, and the winner is verified.
Archive ==
  /\ At("archive", "mark") /\ raw' = "intact" /\ ptr' = TRUE /\ Works
  /\ UNCHANGED <<world, active, rVars, em, queues, mail, smtp, consumer, sweep>>

ArchiveFails ==
  /\ At("archive", "direct") /\ Fails /\ raw' \in {"none", "intact"} /\ NoAnswer
  /\ UNCHANGED <<world, active, rVars, em, queues, mail, consumer, sweep>>

\* The digest fails: the archive carries the provider's checksum, and its
\* own only if a second digest and the upgrade succeed.
DigestFails ==
  /\ ipc = "archive"
  /\ \/ ipc' = "mark" /\ raw' = "intact" /\ ptr' = TRUE /\ UNCHANGED smtp
     \/ ipc' = "direct" /\ raw' \in {"none", "plain", "intact"} /\ NoAnswer
     \/ ipc' = "forward" /\ raw' = "plain" /\ NoAnswer
     \/ /\ raw' \in {"none", "plain"}   \* neither archive nor digest
        /\ IF addressed THEN ipc' = "forward" /\ NoAnswer
                        ELSE ipc' = "done" /\ Answer("rejected")
  /\ Fails
  /\ UNCHANGED <<world, active, rVars, em, queues, mail, consumer, sweep>>

\* recordActiveMarkerWithRetry
MarkActive ==
  /\ \/ At("mark", "receipt") /\ active' = TRUE /\ Works
     \/ At("mark", "direct") /\ active' \in BOOLEAN /\ Fails
  /\ NoAnswer
  /\ UNCHANGED <<world, raw, rVars, em, queues, mail, consumer, sweep>>

\* recordReceiptState: a put that was superseded, or that timed out and
\* finds its own effect when it is retried, returns null.
IngressPuts(p, q, v, matches) ==
  /\ \/ /\ matches /\ At(p, q) /\ Works
        /\ receipt' = v /\ iFresh' = TRUE /\ rFresh' = FALSE
     \/ ~matches /\ At(p, "direct") /\ Works /\ UNCHANGED rVars
     \/ /\ At(p, "direct") /\ Fails
        /\ UNCHANGED rVars \/ (matches /\ Write(v))
  /\ NoAnswer /\ UNCHANGED <<world, raw, active, em, queues, mail, consumer, sweep>>

RecordArchived == IngressPuts("receipt", "admit", "archived", receipt = "absent")

Admit ==
  /\ \/ At("admit", IF addressed /\ mailbox = "active" THEN "admitted" ELSE "reject")
        /\ Works
     \/ addressed /\ At("admit", "direct") /\ Fails
  /\ NoAnswer
  /\ UNCHANGED <<world, raw, active, rVars, em, queues, mail, consumer, sweep>>

RecordAdmitted == IngressPuts("admitted", "send", "admitted", iFresh)

SendPointer ==
  /\ \/ At("send", "enqueued") /\ copies' = More(copies) /\ Works
     \/ At("send", "direct") /\ copies' \in {copies, More(copies)} /\ Fails
  /\ NoAnswer
  /\ UNCHANGED <<world, raw, active, rVars, em, dlq, mail, consumer, sweep>>

\* The last receipt is evidence only; the handler returns, and SMTP accepts.
RecordEnqueued ==
  /\ At("enqueued", "done") /\ Answer("accepted")
  /\ \/ iFresh /\ Write("enqueued") /\ Works
     \/ ~iFresh /\ UNCHANGED rVars /\ Works
     \/ UNCHANGED rVars /\ Fails
  /\ UNCHANGED <<world, raw, active, em, queues, mail, consumer, sweep>>

-----------------------------------------------------------------------------
(* rejectOnlyWithDurableAuthority                                          *)

\* Slip: the rejection is put over whatever receipt is there.
RecordRejectedAnyway ==
  /\ At("reject", "readback") /\ Answer("rejected")
  /\ \/ Write("rejected") /\ Works
     \/ UNCHANGED rVars /\ Fails
  /\ UNCHANGED <<world, raw, active, em, queues, mail, consumer, sweep>>

\* The sender is told first; the receipt is put on the archived one.
RecordRejected ==
  /\ At("reject", "readback") /\ Answer("rejected")
  /\ \/ iFresh /\ Write("rejected") /\ Works
     \/ ~iFresh /\ UNCHANGED rVars /\ Works
     \/ UNCHANGED rVars /\ Fails
  /\ UNCHANGED <<world, raw, active, em, queues, mail, consumer, sweep>>

ReadBackRejection ==
  /\ \/ At("readback", IF receipt = "rejected" THEN "clear" ELSE "establishRejected")
        /\ Works
     \/ At("readback", "establishRejected") /\ Fails
  /\ NoAnswer
  /\ UNCHANGED <<world, raw, active, rVars, em, queues, mail, consumer, sweep>>

EstablishAfterRejection ==
  /\ At("establishRejected", "done") /\ NoAnswer
  /\ (Begin /\ Works) \/ (BeginPartly /\ Fails)
  /\ UNCHANGED <<world, raw, active, queues, mail, consumer, sweep>>

ClearAfterRejection ==
  /\ At("clear", "done") /\ NoAnswer
  /\ \/ active' = FALSE /\ Works
     \/ active' \in {active, FALSE} /\ Fails
  /\ UNCHANGED <<world, raw, rVars, em, queues, mail, consumer, sweep>>

-----------------------------------------------------------------------------
(* recoverWithDirectMailboxOrSmtpAction                                    *)

\* storeDirectlyInMailbox, with the authority of the archive or, without a
\* pointer, of its own.  A ledgered message is refused to an archive.
StoreDirectly ==
  /\ ipc = "direct"
  /\ \/ /\ addressed /\ mailbox = "active" /\ (truth # "none" \/ ~(broken \/ (dead /\ ptr)))
        /\ truth' = IF truth = "none" THEN "stored" ELSE truth
        /\ ipc' = "done" /\ Answer("accepted") /\ UNCHANGED dead
     \/ /\ addressed /\ mailbox = "active" /\ truth = "none" /\ (broken \/ (dead /\ ptr))
        /\ ipc' = "forward" /\ NoAnswer /\ UNCHANGED <<truth, dead>>
     \/ /\ addressed /\ mailbox # "active" /\ UNCHANGED <<truth, dead>>
        /\ CASE truth = "deleted" -> ipc' = "done" /\ Answer("accepted")
             [] truth # "deleted" /\ ptr -> ipc' = "establish" /\ NoAnswer
             [] OTHER -> ipc' = "forward" /\ NoAnswer
     \/ /\ ~addressed /\ UNCHANGED <<truth, dead>>
        /\ IF ptr THEN ipc' = "establish" /\ NoAnswer
                  ELSE ipc' = "done" /\ Answer("rejected")
  /\ Works
  /\ UNCHANGED <<world, raw, active, rVars, em, queues, accepted, consumer, sweep>>

\* A check or the projection fails, committed or not; a commit that can be
\* verified counts.
StoreDirectlyFails ==
  /\ ipc = "direct" /\ addressed
  /\ truth' \in IF truth = "none" /\ mailbox = "active" /\ ~broken /\ ~(dead /\ ptr)
                THEN {"none", "stored"} ELSE {truth}
  /\ \/ truth' # "none" /\ ipc' = "done" /\ Answer("accepted")
     \/ ipc' = "forward" /\ NoAnswer
  /\ Fails
  /\ UNCHANGED <<world, raw, active, rVars, em, queues, dead, accepted, consumer, sweep>>

\* establishPostArchiveEmergencyAuthority: before the provider is asked ...
Establish ==
  /\ \/ At("establish", "done") /\ Answer("accepted") /\ Begin /\ Works
     \/ At("establish", "forward") /\ NoAnswer /\ (BeginPartly /\ Fails)
  /\ UNCHANGED <<world, raw, active, queues, mail, consumer, sweep>>

\* Slip: a forward that failed is answered like one that was accepted.
ForwardSwallows ==
  /\ \/ /\ accepted' = TRUE
        /\ IF ptr THEN At("forward", "commit") /\ NoAnswer
                  ELSE At("forward", "done") /\ Answer("accepted")
        /\ Works
     \/ /\ accepted' \in {accepted, TRUE}
        /\ At("forward", "done") /\ Answer("accepted") /\ Fails
  /\ UNCHANGED <<world, raw, active, rVars, em, queues, truth, dead, consumer, sweep>>

\* forwardEmergencyOrReject: SMTP's own forward.
Forward ==
  /\ \/ /\ accepted' = TRUE
        /\ IF ptr THEN At("forward", "commit") /\ NoAnswer
                  ELSE At("forward", "done") /\ Answer("accepted")
        /\ Works
     \/ /\ accepted' \in {accepted, TRUE}
        /\ IF ptr THEN At("forward", "establishLast") /\ NoAnswer
                  ELSE At("forward", "done") /\ Answer("rejected")
        /\ Fails
  /\ UNCHANGED <<world, raw, active, rVars, em, queues, truth, dead, consumer, sweep>>

\* commitIngressForwardAcceptance
CommitForward ==
  /\ At("commit", "done") /\ Answer("accepted")
  /\ \/ Write("forwarded") /\ em' = "none" /\ active' \in {active, FALSE} /\ Works
     \/ /\ Fails /\ UNCHANGED active
        /\ UNCHANGED <<em, rVars>> \/ (em' = "sent" /\ UNCHANGED rVars)
  /\ UNCHANGED <<world, raw, queues, mail, consumer, sweep>>

\* ... and after it failed; then the sender is told.
EstablishOrReject ==
  /\ \/ At("establishLast", "done") /\ Answer("accepted") /\ Begin /\ Works
     \/ At("establishLast", "done") /\ Answer("rejected") /\ (BeginPartly /\ Fails)
  /\ UNCHANGED <<world, raw, active, queues, mail, consumer, sweep>>

\* The worker is gone: the sender keeps the message unless it was told.
IngressCrash ==
  /\ ipc # "done" /\ ipc' = "done" /\ Fails
  /\ Answer(IF smtp = "open" THEN "failed" ELSE smtp)
  /\ UNCHANGED <<world, raw, active, rVars, em, queues, mail, consumer, sweep>>

IngressStep ==
  \/ ReadStream \/ ReadStreamFails \/ Archive \/ ArchiveFails \/ DigestFails
  \/ MarkActive \/ RecordArchived \/ Admit \/ RecordAdmitted \/ SendPointer
  \/ RecordEnqueued \/ RecordRejected \/ ReadBackRejection
  \/ EstablishAfterRejection \/ ClearAfterRejection \/ StoreDirectly
  \/ StoreDirectlyFails \/ Establish \/ Forward \/ CommitForward
  \/ EstablishOrReject

-----------------------------------------------------------------------------
(* processInboundMessage                                                   *)

To(c, q) == cpc' = [cpc EXCEPT ![c] = q]
Seek(c, v) == goal' = [goal EXCEPT ![c] = v]
Quiet == UNCHANGED <<world, raw, em, dlq, accepted, ingress, sweep>>

Busy == {c \in Consumers : cpc[c] # "idle"}

\* A copy is delivered, and the receipt is read; one that cannot be read is
\* handled as an absent one.
Deliver(c) ==
  /\ cpc[c] = "idle" /\ Cardinality(Busy) < copies
  /\ \/ /\ To(c, CASE receipt \in Terminal -> "check"
                    [] receipt \in {"absent", "pending"} -> "handoff"
                    [] OTHER -> "mailbox")
        /\ Seek(c, IF receipt \in Terminal THEN receipt ELSE "absent") /\ NoFail
     \/ To(c, "handoff") /\ Seek(c, "absent") /\ Fail
  /\ Quiet /\ UNCHANGED <<active, rVars, copies, truth, dead>>

\* The copy is acknowledged, the active marker deleted at best effort.
Ack(c) ==
  /\ To(c, "idle") /\ Seek(c, "absent") /\ copies' = copies - 1
  /\ active' \in {active, FALSE}
  /\ Quiet /\ UNCHANGED <<rVars, truth, dead, fails>>

\* A terminal receipt ends the delivery when the mailbox confirms it.
CheckTerminal(c) ==
  /\ cpc[c] = "check"
  /\ \/ Authoritative(goal[c]) /\ Ack(c)
     \/ /\ \/ ~Authoritative(goal[c]) /\ NoFail
           \/ goal[c] \in {"stored", "deleted"} /\ Fail
        /\ To(c, "mailbox") /\ Seek(c, "absent")
        /\ Quiet /\ UNCHANGED <<active, rVars, copies, truth, dead>>

\* The steps up to the projection only choose what comes next.
Goes(c, p, q) ==
  /\ cpc[c] = p /\ To(c, q)
  /\ Quiet /\ UNCHANGED <<active, rVars, copies, truth, dead, fails>>

CheckMailbox(c) ==
  /\ Goes(c, "mailbox", IF mailbox = "active" THEN "truth" ELSE "handoff")
  /\ UNCHANGED goal

\* exactMailboxProjectionTruth
CheckTruth(c) ==
  /\ Goes(c, "truth", IF truth = "none" THEN "raw" ELSE "final")
  /\ Seek(c, IF truth = "none" THEN "absent" ELSE truth)

ReadRaw(c) ==
  /\ Goes(c, "raw", IF mailbox = "active" THEN "project" ELSE "handoff")
  /\ UNCHANGED goal

\* createInboundEmail, one transaction of the mailbox: a tombstone and a
\* ledgered failure win over the projection.
Project(c) ==
  /\ cpc[c] = "project"
  /\ IF truth = "none" /\ (broken \/ dead)
     THEN To(c, "handoff") /\ UNCHANGED <<goal, truth, dead>>
     ELSE /\ truth' = IF truth = "none" THEN "stored" ELSE truth
          /\ To(c, "final") /\ Seek(c, truth')
          /\ dead' = (dead /\ truth # "stored")
  /\ Quiet /\ UNCHANGED <<active, rVars, copies, fails>>

\* Slip: an ambiguous projection is presumed to have committed.
ProjectPresumed(c) ==
  /\ cpc[c] = "project" /\ Fail
  /\ truth' \in IF truth = "none" /\ ~broken /\ ~dead THEN {"none", "stored"}
                                                     ELSE {truth}
  /\ To(c, "final") /\ Seek(c, "stored")
  /\ Quiet /\ UNCHANGED <<active, rVars, copies, dead>>

\* An ambiguous projection is looked up; one that cannot be found is retried.
ProjectFails(c) ==
  /\ cpc[c] = "project" /\ Fail
  /\ truth' \in IF truth = "none" /\ ~broken /\ ~dead THEN {"none", "stored"}
                                                     ELSE {truth}
  /\ \/ truth' # "none" /\ To(c, "final") /\ Seek(c, truth')
     \/ To(c, "handoff") /\ UNCHANGED goal
  /\ Quiet /\ UNCHANGED <<active, rVars, copies, dead>>

\* writeReceipt: a terminal receipt stays, but that stored may become
\* deleted; otherwise the put succeeds, or is lost to another.
WriteReceipt(c) ==
  /\ cpc[c] = "final" /\ To(c, "final2")
  /\ \/ /\ receipt \notin Terminal \/ receipt = goal[c]
           \/ (receipt = "stored" /\ goal[c] = "deleted")
        /\ Write(goal[c])
     \/ UNCHANGED rVars
  /\ Quiet /\ UNCHANGED <<active, copies, truth, dead, goal, fails>>

\* finalizeExactTerminalReceipt: the winner decides.
Finalize(c) ==
  /\ cpc[c] = "final2"
  /\ \/ receipt \in Terminal /\ Authoritative(receipt) /\ Ack(c)
     \/ /\ ~(receipt \in Terminal /\ Authoritative(receipt)) /\ To(c, "handoff")
        /\ Quiet /\ UNCHANGED <<active, rVars, copies, truth, dead, goal, fails>>

\* Slip: the copy is acknowledged whether or not the forward was begun.
HandOffAndAck(c) ==
  /\ cpc[c] = "handoff" /\ To(c, "idle") /\ Seek(c, "absent")
  /\ \/ Begin /\ NoFail /\ UNCHANGED mail
     \/ (BeginPartly /\ Fail) /\ Ledgered
  /\ copies' = copies - 1
  /\ UNCHANGED <<world, raw, active, dlq, ingress, sweep>>

\* handOffToEmergencyForward: the forward is begun, or the failure ledgered;
\* the copy stays in either case.
HandOff(c) ==
  /\ cpc[c] = "handoff" /\ To(c, "idle") /\ Seek(c, "absent")
  /\ \/ Begin /\ NoFail /\ UNCHANGED mail
     \/ (BeginPartly /\ Fail) /\ Ledgered
  /\ UNCHANGED <<world, raw, active, queues, ingress, sweep>>

\* The item's deadline, a failed read, or a lost worker.
Expire(c) ==
  /\ cpc[c] \notin {"idle", "handoff"} /\ Fail /\ To(c, "handoff")
  /\ Seek(c, "absent")
  /\ Quiet /\ UNCHANGED <<active, rVars, copies, truth, dead>>

\* The retries of a copy are used up: it moves to the dead-letter lanes.
Exhaust ==
  /\ Cardinality(Busy) < copies /\ dlq < MaxCopies
  /\ copies' = copies - 1 /\ dlq' = dlq + 1
  /\ UNCHANGED <<world, raw, active, rVars, em, mail, ingress, consumer, sweep, fails>>

\* processInboundDeadLetterItem: the forward is begun before the copy goes.
DeadLetter ==
  /\ dlq > 0 /\ dlq' = dlq - 1 /\ Begin /\ Ledgered
  /\ UNCHANGED <<world, raw, active, copies, ingress, consumer, sweep, fails>>

DeadLetterFails ==
  /\ dlq > 0 /\ (BeginPartly /\ Fail) /\ Ledgered
  /\ UNCHANGED <<world, raw, active, queues, ingress, consumer, sweep>>

ConsumerStep(c) ==
  \/ CheckTerminal(c) \/ CheckMailbox(c) \/ CheckTruth(c) \/ ReadRaw(c)
  \/ Project(c) \/ ProjectFails(c) \/ WriteReceipt(c) \/ Finalize(c)
  \/ HandOff(c)

-----------------------------------------------------------------------------
(* reconcileInboundArchives, over this message                             *)

Rest == UNCHANGED <<world, raw, mail, ingress, consumer, scans>>
\* The steps that still use the receipt as it was read.
UsesReceipt == {"admission", "repair", "ledger", "stored", "put", "enqueue", "advance"}

Turn(p, q) ==
  /\ rpc = p /\ rpc' = q
  /\ seen' = (seen /\ q \in UsesReceipt)
  /\ rgoal' = IF q \in {"put", "winner"} THEN rgoal ELSE "absent"

Unwritten == UNCHANGED <<receipt, iFresh>> /\ rFresh' = (rFresh /\ seen')

\* discoverRecentRawArchives: each lane passes a raw key once, and marks it
\* active whatever its receipt says.
RecentScan ==
  /\ raw # "none" /\ scans > 0 /\ scans' = scans - 1 /\ active' = TRUE
  /\ UNCHANGED <<world, raw, rVars, em, queues, mail, ingress, consumer, rpc, seen,
                 rgoal, fails>>

\* reconcileArchive begins with the receipt; "enqueued" is left alone until
\* it is stale.
SweepReads ==
  /\ raw # "none" /\ rpc = "idle" /\ rgoal' = rgoal
  /\ \/ /\ rpc' = CASE receipt = "absent" -> "missing"
                    [] receipt = "archived" -> "admission"
                    [] receipt = "pending" -> "repair"
                    [] receipt \in {"admitted", "enqueued"} -> "ledger"
                    [] receipt \in {"stored", "deleted"} -> receipt
                    [] OTHER -> "tidy"
        /\ seen' = (receipt # "absent" /\ rpc' # "tidy")
        /\ rFresh' = seen' /\ NoFail
     \/ rpc' = "begin" /\ UNCHANGED <<seen, rFresh>> /\ Fail
  /\ Rest /\ UNCHANGED <<active, receipt, iFresh, em, queues>>

SweepTooEarly ==
  /\ raw # "none" /\ receipt = "enqueued" /\ rpc = "idle" /\ rpc' = "tidy"
  /\ Rest /\ UNCHANGED <<active, rVars, em, queues, seen, rgoal, fails>>

\* What the sweep does next, with nothing written.
Decide(p, q, v) ==
  /\ rpc = p /\ rpc' = q /\ rgoal' = v /\ seen' = (seen /\ q \in UsesReceipt)
  /\ Rest /\ Unwritten /\ UNCHANGED <<active, em, queues, fails>>

\* Slip: an archive without a receipt is left to ingress.
SweepSkipsMissing == Decide("missing", "tidy", "absent")

SweepMissing ==
  IF Truth = "none" THEN Decide("missing", "begin", "absent")
                    ELSE Decide("missing", "put", Truth)

SweepRepair ==
  IF Truth = "none" THEN Decide("repair", "begin", "absent")
                    ELSE Decide("repair", "put", Truth)

SweepStored ==
  CASE Truth = "deleted" -> Decide("stored", "put", "deleted")
    [] Truth = "stored" -> Decide("stored", "tidy", "absent")
    [] OTHER -> Decide("stored", "begin", "absent")

SweepDeleted ==
  Decide("deleted", IF Truth = "deleted" THEN "tidy" ELSE "begin", "absent")

\* archivedAdmission: policy and mailbox as they are now; uncertainty is
\* forwarded, never rejected.
SweepAdmits ==
  /\ addressed /\ mailbox = "active" /\ NoFail
  /\ \/ /\ rFresh /\ Turn("admission", "ledger")
        /\ receipt' = "admitted" /\ iFresh' = FALSE /\ UNCHANGED rFresh
     \/ /\ ~rFresh /\ UNCHANGED <<receipt, iFresh>>
        /\ Turn("admission", CASE receipt \in {"absent", "archived"} -> "begin"
                               [] receipt = "admitted" -> "ledger"
                               [] OTHER -> "tidy")
        /\ rFresh' = (receipt = "admitted")
  /\ Rest /\ UNCHANGED <<active, em, queues>>

SweepDoubts ==
  /\ ~addressed \/ mailbox # "active"
  /\ Decide("admission", "begin", "absent")

\* A ledgered failure is forwarded, a deletion recorded, the rest enqueued.
SweepLedger ==
  CASE dead -> Decide("ledger", "begin", "absent")
    [] ~dead /\ Truth = "deleted" -> Decide("ledger", "put", "deleted")
    [] OTHER -> Decide("ledger", "enqueue", "absent")

\* The put matches the receipt that was read (none: create-only).
Matches == IF seen THEN rFresh ELSE receipt = "absent"

SweepPuts ==
  /\ \/ Matches /\ Turn("put", "tidy") /\ Write(rgoal)
     \/ ~Matches /\ Turn("put", "winner") /\ Unwritten
  /\ NoFail /\ Rest /\ UNCHANGED <<active, em, queues>>

\* preserveExactConcurrentReceiptWinner
SweepWinner ==
  Decide("winner", IF receipt = rgoal THEN "tidy" ELSE "begin", "absent")

SweepEnqueues ==
  /\ Turn("enqueue", "advance") /\ copies' = More(copies) /\ NoFail
  /\ Rest /\ Unwritten /\ UNCHANGED <<active, em, dlq>>

SweepAdvances ==
  /\ Turn("advance", "tidy") /\ NoFail
  /\ IF Matches THEN Write("enqueued") ELSE Unwritten
  /\ Rest /\ UNCHANGED <<active, em, queues>>

SweepBegins ==
  /\ Turn("begin", "idle") /\ ((Begin /\ NoFail) \/ (BeginPartly /\ Fail))
  /\ Rest /\ UNCHANGED <<active, queues>>

\* clearTerminalActiveMarker, for a message found through its marker.
ClearMarker ==
  /\ Turn("tidy", "idle") /\ NoFail
  /\ active' = (active /\ ~(receipt \in Terminal /\ Authoritative(receipt)))
  /\ Rest /\ UNCHANGED <<rVars, em, queues>>

\* An await fails: the failure is ledgered and the next sweep comes back;
\* an enqueueing send may have succeeded, an unreadable truth is forwarded.
SweepFails ==
  /\ rpc \notin {"idle", "begin"} /\ Fail
  /\ copies' \in IF rpc = "enqueue" THEN {copies, More(copies)} ELSE {copies}
  /\ Turn(rpc, IF rpc \in {"missing", "admission", "deleted", "stored"}
               THEN "begin" ELSE "idle")
  /\ Rest /\ Unwritten /\ UNCHANGED <<active, em, dlq>>

SweepStep ==
  \/ SweepMissing \/ SweepRepair \/ SweepStored \/ SweepDeleted \/ SweepAdmits
  \/ SweepDoubts \/ SweepLedger \/ SweepPuts \/ SweepWinner \/ SweepEnqueues
  \/ SweepAdvances \/ SweepBegins \/ ClearMarker

-----------------------------------------------------------------------------
(* The emergency forward, the mailbox and its owner                        *)

Elsewhere == UNCHANGED <<world, raw, active, queues, ingress, consumer, sweep>>

\* A forward the mailbox makes needless is suppressed; one that is accepted,
\* or whose message was rejected, is cleared away.
EmergencySettles ==
  /\ em = "pending" /\ NoFail /\ em' = "none" /\ UNCHANGED mail
  /\ \/ receipt \in {"forwarded", "rejected"} /\ UNCHANGED rVars
     \/ receipt \notin {"forwarded", "rejected"} /\ Truth # "none" /\ Write(Truth)
  /\ Elsewhere

EmergencyRepairs ==
  /\ em = "pending" /\ receipt \notin {"pending", "forwarded", "rejected"}
  /\ Truth = "none" /\ Write("pending") /\ NoFail
  /\ UNCHANGED <<em, mail>> /\ Elsewhere

\* The message is sent when the mailbox does not have it, or does not answer;
\* the acceptance may go unrecorded.
EmergencySends ==
  /\ em = "pending" /\ receipt = "pending" /\ raw # "none"
  /\ \/ Truth = "none" /\ em' = "sent" /\ NoFail
     \/ em' \in {"pending", "sent"} /\ Fail
  /\ accepted' = TRUE /\ UNCHANGED <<truth, dead, rVars>> /\ Elsewhere

EmergencyCommits ==
  /\ em = "sent" /\ Write("forwarded") /\ em' = "none" /\ NoFail
  /\ UNCHANGED mail /\ Elsewhere

OwnerDeletes ==
  /\ truth = "stored" /\ truth' = "deleted"
  /\ UNCHANGED <<dead, accepted, rVars, em, fails>> /\ Elsewhere

MailboxChanges ==
  /\ mailbox' = IF mailbox = "active" THEN "closed" ELSE "active"
  /\ UNCHANGED <<addressed, broken, raw, active, rVars, em, queues, mail, ingress,
                 consumer, sweep, fails>>

Emergency == EmergencySettles \/ EmergencyRepairs \/ EmergencySends \/ EmergencyCommits

Next ==
  \/ IngressStep \/ IngressCrash
  \/ \E c \in Consumers : Deliver(c) \/ ConsumerStep(c) \/ Expire(c)
  \/ Exhaust \/ DeadLetter \/ DeadLetterFails
  \/ RecentScan \/ SweepReads \/ SweepTooEarly \/ SweepStep \/ SweepFails
  \/ Emergency \/ OwnerDeletes \/ MailboxChanges

Spec == Init /\ [][Next]_vars

\* Work under way goes on, because awaits are bounded by deadlines; the queue
\* delivers what it keeps, for a bounded number of retries; the sweep is a
\* cron job, and an enqueued receipt does become stale.
FairSpec ==
  /\ Spec
  /\ WF_vars(IngressStep) /\ WF_vars(SweepStep) /\ SF_vars(SweepReads)
  /\ \A c \in Consumers : WF_vars(Deliver(c) \/ ConsumerStep(c))
  /\ SF_vars(Exhaust) /\ WF_vars(DeadLetter) /\ WF_vars(Emergency)

-----------------------------------------------------------------------------
(* Properties                                                              *)

\* The mailbox holds (or held) the message, or a provider took it.
Delivered == truth # "none" \/ accepted

\* A message that SMTP accepted is delivered, or its archive is there with a
\* receipt that keeps the sweep at it: no order of failures, crashes and
\* lost races between ingress, queue and sweep gives it up.
AcceptedIsHeld ==
  smtp = "accepted" =>
    Delivered \/ (raw # "none" /\ receipt \notin {"forwarded", "rejected"})

\* A terminal receipt, on which every actor stops, is true: forwarded was
\* accepted, stored and deleted were projected, rejected was told to the
\* sender.
TerminalReceiptsAreTrue ==
  /\ receipt = "forwarded" => accepted
  /\ receipt = "stored" => truth # "none"
  /\ receipt = "deleted" => truth = "deleted"
  /\ receipt = "rejected" => smtp = "rejected"

\* A rejection that became durable is final: the message is in no mailbox,
\* no queue and no forward, although the sweep admits archived messages of
\* its own while ingress is still deciding.
RejectionIsFinal ==
  receipt = "rejected" => ~Delivered /\ copies = 0 /\ dlq = 0 /\ em # "sent"

\* The types, what an actor that finds a terminal receipt relies on, and the
\* finality of a rejection.
PipelineInv == TypeOK /\ TerminalReceiptsAreTrue /\ RejectionIsFinal

\* A copy leaves the queues only when the message is delivered, when an
\* emergency forward has taken over, or when the sender was told.
CopiesLeaveSafely ==
  [][copies' + dlq' < copies + dlq
       => Delivered \/ em' # "none" \/ receipt = "rejected"]_vars

\* The pipeline comes to rest: a message that SMTP accepted is delivered,
\* queues, forward and active index are empty, and an archived message is
\* under a terminal receipt.
PipelineRests ==
  <>[](/\ smtp = "accepted" => Delivered
       /\ copies = 0 /\ dlq = 0 /\ em = "none" /\ ~active
       /\ raw # "none" => receipt \in Terminal)

-----------------------------------------------------------------------------
(* The inductive strengthening of AcceptedIsHeld and PipelineInv           *)

\* Receipts under which nobody but ingress has been given the message, and
\* the steps of the sweep that put it into the queue.
Unshared == {"absent", "archived", "rejected"}
Queueing == {"ledger", "enqueue", "advance"}

\* The steps of ingress behind which there is an archive, those before it
\* may deliver by itself, and those after it told the sender of a rejection.
HoldsPointer == {"mark", "receipt", "admit", "admitted", "send", "enqueued", "reject",
                 "readback", "establishRejected", "clear", "establish", "commit",
                 "establishLast"}
Deciding == {"read", "archive", "mark", "receipt", "admit", "admitted", "reject"}
Told == {"readback", "establishRejected", "clear", "done"}

Undelivered == ~Delivered /\ em # "sent"

IngressInv ==
  /\ smtp = "accepted" => Delivered \/ raw # "none"
  /\ ptr => raw # "none"
  /\ ipc \in HoldsPointer => ptr
  /\ ipc \in {"read", "archive"} => ~ptr /\ smtp # "accepted"
  /\ ipc = "commit" \/ em = "sent" => accepted
  /\ ipc \in {"send", "enqueued"} => receipt \notin Unshared
  /\ iFresh => receipt \in {"archived", "admitted"}
  /\ iFresh /\ ipc \in {"admit", "admitted", "reject"} => receipt = "archived"

\* What nobody else has been given, nobody else works at.
SharingInv ==
  /\ receipt \in Unshared =>
       /\ copies = 0 /\ dlq = 0 /\ rpc \notin Queueing
       /\ \A c \in Consumers : cpc[c] = "idle"
  /\ receipt \in {"absent", "archived"} /\ ipc \in Deciding => Undelivered
  /\ receipt = "rejected" => ipc \in Told /\ Undelivered /\ ~rFresh

\* What v says of the mailbox is so.
Projected(v) ==
  v \in {"stored", "deleted"} /\ truth # "none" /\ (v = "deleted" => truth = "deleted")

\* The receipts that a consumer and the sweep are about to put are true.
GoalInv ==
  /\ \A c \in Consumers :
       /\ cpc[c] \in {"final", "final2"} => Projected(goal[c])
       /\ cpc[c] = "check" =>
            Projected(goal[c]) \/ (goal[c] = "forwarded" /\ accepted)
  /\ rpc \in {"put", "winner"} => Projected(rgoal)

\* Every consumer at work has a copy of its own.
CopyInv == Cardinality(Busy) <= copies

HeldInv == PipelineInv /\ IngressInv /\ SharingInv /\ GoalInv /\ CopyInv

=============================================================================
