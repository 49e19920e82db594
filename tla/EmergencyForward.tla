-------------------------- MODULE EmergencyForward --------------------------
(***************************************************************************)
(* The emergency forward of one inbound message that could not be stored.  *)
(*                                                                         *)
(* Its authority is two R2 objects, a receipt and an active marker (with a *)
(* generation, a lease and the provider's acceptance), and the copies of   *)
(* an envelope in the emergency queue and its parking lane.  Callers begin *)
(* a forward, consumers carry it out, the five-minute sweep revives it,    *)
(* ingress records a forward of its own.  Every await is a step: a read    *)
(* takes a snapshot, a conditional put succeeds when the object is the one *)
(* that was read, deletes are unconditional.  (A read whose only use is    *)
(* the put that follows at once takes effect where the put does, or the    *)
(* put is lost to a write in between.)  The queue delivers a copy at least *)
(* once, so a copy is gone only when it was acknowledged and is the last.  *)
(*                                                                         *)
(*   workers/lib/emergency-forward.ts   the whole protocol                 *)
(***************************************************************************)
EXTENDS Naturals, FiniteSets

CONSTANTS
  Consumers,   \* consumers of the primary and of the parking lane
  Callers,     \* calls of beginEmergencyForward
  Sweepers,    \* passes of reconcileEmergencyForwardMarkers
  Ingress,     \* calls of commitIngressForwardAcceptance
  FirstReceipts,  \* receipts a forward may begin with
  RawStates,   \* how the archived message may be found
  Truths,      \* what may become of the message in the mailbox
  MaxGen,      \* bound on the generations claimed
  MaxTries,    \* puts of an acceptance before a call gives up (4)
  MaxFails,    \* bound on the crashes, time-outs and refused calls
  Timely       \* does an attempt always end within its 180 s lease?

ASSUME ForwardAssumption ==
  /\ Consumers \cap (Callers \cup Sweepers \cup Ingress) = {}
  /\ Callers \cap (Sweepers \cup Ingress) = {}
  /\ Sweepers \cap Ingress = {}
  /\ FirstReceipts \subseteq {"absent", "ingress", "quarantined", "unavailable"}
  /\ RawStates \subseteq {"intact", "mismatch", "missing"}
  /\ Truths \subseteq {"stored", "deleted"}
  /\ MaxGen \in Nat \ {0} /\ MaxTries \in Nat \ {0} /\ MaxFails \in Nat
  /\ Timely \in BOOLEAN

Actors == Consumers \cup Callers \cup Sweepers \cup Ingress

VARIABLES
  marker,     \* the object under system/emergency-forward/active/
  receipt,    \* the state of receipts/<ingress id>.json
  raw,        \* the archived message, as the integrity check finds it
  truth,      \* what the mailbox holds of the message
  refused,    \* SMTP told the sender that the message was rejected
  accepted,   \* the provider has accepted a forward
  envelopes,  \* generations with a copy in a queue
  top,        \* the highest generation ever claimed
  pc,         \* where each actor is
  m, mFresh,  \* the marker each actor read; whose copy is still current
  r, rFresh,  \* the receipt each actor read; whose copy is still current
  g,          \* the generation a consumer or an ingress call works for
  goal,       \* the terminal receipt an actor wants to write
  tries,      \* failed attempts to record an acceptance
  fails       \* crashes, time-outs and refused calls so far

\* "ingress" stands for the states of reception and of the inbound queue,
\* which readEmergencyReceipt finds invalid; "quarantined" for an error that
\* may be forwarded, "unavailable" for MAILBOX_UNAVAILABLE.
Receipts == {"absent", "ingress", "pending", "forwarded", "rejected", "stored",
             "deleted", "mismatch", "quarantined", "unavailable"}
Unread == {"absent", "ingress"}

\* receiptNeedsMailboxTruth
NeedsTruth == {"stored", "deleted", "mismatch", "unavailable"}

Marker == [here : BOOLEAN, gen : 0..MaxGen, att : BOOLEAN, live : BOOLEAN,
           acc : BOOLEAN]

NewMarker(n, att, live) ==
  [here |-> TRUE, gen |-> n, att |-> att, live |-> live, acc |-> FALSE]
NoMarker ==
  [here |-> FALSE, gen |-> 0, att |-> FALSE, live |-> FALSE, acc |-> FALSE]

mVars == <<marker, m, mFresh>>
rVars == <<receipt, r, rFresh>>
world == <<raw, truth, refused>>
local == <<g, goal>>
vars == <<mVars, rVars, world, accepted, envelopes, top, pc, local, fails, tries>>

\* The steps of an attempt that its lease is meant to cover.
Covered == {"beat2", "truth", "restore", "restore2", "truth2", "mail",
            "accept", "accept2", "commit", "commit2", "enrich", "enrich2",
            "sup", "sup2", "delete"}
PCs == Covered \cup
  {"idle", "marker", "remark", "remark2", "repair", "repair2", "beat", "lost",
   "ack", "create", "marker2", "receipt",
   "pending2", "claim", "send", "unclaim", "winner", "resend", "done"}

\* The steps from which a snapshot of the marker or receipt is still used.
UsesMarker == {"repair", "repair2", "beat", "truth", "restore", "restore2",
               "truth2", "mail", "accept", "receipt", "claim"}
UsesReceipt == {"marker", "remark", "remark2", "repair", "beat", "beat2",
                "truth", "restore", "truth2", "mail", "accept", "accept2",
                "commit"}

TypeOK ==
  /\ marker \in Marker /\ m \in [Actors -> Marker] /\ mFresh \subseteq Actors
  /\ receipt \in Receipts /\ r \in [Actors -> Receipts] /\ rFresh \subseteq Actors
  /\ raw \in {"intact", "mismatch", "missing"}
  /\ truth \in {"none", "stored", "deleted"}
  /\ refused \in BOOLEAN /\ accepted \in BOOLEAN
  /\ envelopes \subseteq 1..MaxGen /\ top \in 0..MaxGen
  /\ pc \in [Actors -> PCs]
  /\ g \in [Actors -> 0..MaxGen] /\ goal \in [Actors -> Receipts]
  /\ tries \in [Actors -> 0..(MaxTries - 1)] /\ fails \in 0..MaxFails

Init ==
  /\ marker = NoMarker /\ m = [a \in Actors |-> NoMarker] /\ mFresh = {}
  /\ receipt \in FirstReceipts
  /\ r = [a \in Actors |-> "absent"] /\ rFresh = {}
  /\ raw \in RawStates
  /\ truth = "none" /\ refused = FALSE /\ accepted = FALSE
  /\ envelopes = {} /\ top = 0
  /\ pc = [a \in Actors |-> "idle"]
  /\ g = [a \in Actors |-> 0] /\ goal = [a \in Actors |-> "absent"]
  /\ tries = [a \in Actors |-> 0] /\ fails = 0

-----------------------------------------------------------------------------
(* R2: reads, conditional puts and deletes                                 *)

Step(a, p, q) == pc[a] = p /\ pc' = [pc EXCEPT ![a] = q]

\* Where a message to retry, a call that throws or a sweep that moves on ends.
Out(a) == IF a \in Ingress THEN "done" ELSE "idle"

ReadMarker(a) ==
  LET keep == marker.here /\ pc'[a] \in UsesMarker
  IN  /\ m' = [m EXCEPT ![a] = IF keep THEN marker ELSE NoMarker]
      /\ mFresh' = IF keep THEN mFresh \cup {a} ELSE mFresh \ {a}
      /\ UNCHANGED marker

HoldMarker(a) ==
  LET keep == pc'[a] \in UsesMarker
  IN  /\ m' = [m EXCEPT ![a] = IF keep THEN @ ELSE NoMarker]
      /\ mFresh' = IF keep THEN mFresh ELSE mFresh \ {a}
      /\ UNCHANGED marker

ReadReceipt(a) ==
  LET keep == receipt # "absent" /\ pc'[a] \in UsesReceipt
  IN  /\ r' = [r EXCEPT ![a] = IF keep THEN receipt ELSE "absent"]
      /\ rFresh' = IF keep THEN rFresh \cup {a} ELSE rFresh \ {a}
      /\ UNCHANGED receipt

HoldReceipt(a) ==
  LET keep == pc'[a] \in UsesReceipt
  IN  /\ r' = [r EXCEPT ![a] = IF keep THEN @ ELSE "absent"]
      /\ rFresh' = IF keep THEN rFresh ELSE rFresh \ {a}
      /\ UNCHANGED receipt

\* onlyIf: the etag that was read, or etagDoesNotMatch "*" when none was.
MarkerMatches(a) == IF m[a].here THEN a \in mFresh ELSE ~marker.here
ReceiptMatches(a) ==
  IF r[a] # "absent" THEN a \in rFresh ELSE receipt = "absent"

\* A write spoils every snapshot; its own writer reads again if it goes on.
WriteMarker(a, v) ==
  marker' = v /\ mFresh' = {} /\ m' = [m EXCEPT ![a] = NoMarker]
WriteReceipt(a, v) ==
  receipt' = v /\ rFresh' = {} /\ r' = [r EXCEPT ![a] = "absent"]

PutMarker(a, v) ==
  \/ MarkerMatches(a) /\ WriteMarker(a, v)
  \/ ~MarkerMatches(a) /\ HoldMarker(a)
PutReceipt(a, v) ==
  \/ ReceiptMatches(a) /\ WriteReceipt(a, v)
  \/ ~ReceiptMatches(a) /\ HoldReceipt(a)

\* A step changes the rest of its actor's state only by ending.
Quiet(a) ==
  /\ g' = [g EXCEPT ![a] = IF pc'[a] \in {"idle", "done"} THEN 0 ELSE @]
  /\ goal' = [goal EXCEPT ![a] = IF pc'[a] \in {"idle", "done"} THEN "absent" ELSE @]
  /\ UNCHANGED <<world, accepted, envelopes, top, fails, tries>>
Still(a) == Quiet(a) /\ HoldMarker(a) /\ HoldReceipt(a)

\* markerLeaseIsLive, and of the marker that was read, at the time of asking.
LiveLease(mk) == mk.gen > 0 /\ mk.live
LeaseIsLive(a) == LiveLease(m[a]) /\ (a \in mFresh => marker.live)

-----------------------------------------------------------------------------
(* What several of the operations share                                    *)

\* commitForwardedReceipt: the put, and the read that decides.
Commit(a) ==
  /\ Step(a, "commit", "commit2") /\ PutReceipt(a, "forwarded")
  /\ Quiet(a) /\ HoldMarker(a)

\* Slip: the put is not read back.
CommittedUnread(a) ==
  /\ Step(a, "commit2", IF goal[a] = "forwarded" THEN "enrich" ELSE "delete")
  /\ Still(a)

Committed(a) ==
  /\ Step(a, "commit2",
       CASE receipt = "forwarded" /\ goal[a] = "forwarded" -> "enrich"
         [] receipt = "forwarded" /\ goal[a] # "forwarded" -> "delete"
         [] receipt # "forwarded" /\ a \in Ingress -> "enrich"
         [] OTHER -> "idle")
  /\ goal' = [goal EXCEPT ![a] = IF receipt = "forwarded" THEN @ ELSE "absent"]
  /\ g' = [g EXCEPT ![a] = IF pc'[a] = "idle" THEN 0 ELSE @]
  /\ HoldMarker(a) /\ HoldReceipt(a)
  /\ UNCHANGED <<world, accepted, envelopes, top, fails, tries>>

\* Whoever sent the message adds the provider's reference, at best effort,
\* to the accepted marker and to the receipt; either put may be lost.  The
\* marker of a receipt that could not be committed is kept.
Enriched(a) == IF goal[a] = "forwarded" THEN "delete" ELSE "ack"

EnrichMarker(a) ==
  /\ Step(a, "enrich", "enrich2")
  /\ mFresh' \in IF marker.acc THEN {mFresh, {}} ELSE {mFresh}
  /\ Quiet(a) /\ HoldReceipt(a) /\ UNCHANGED <<marker, m>>

EnrichReceipt(a) ==
  /\ Step(a, "enrich2", Enriched(a)) /\ WriteReceipt(a, "forwarded")
  /\ Quiet(a) /\ HoldMarker(a)

EnrichGivenUp(a) ==
  /\ pc[a] \in {"enrich", "enrich2"} /\ pc' = [pc EXCEPT ![a] = Enriched(a)]
  /\ Still(a)

\* The marker is deleted whatever it has become.
DeleteMarker(a) ==
  /\ Step(a, "delete", IF a \in Sweepers THEN "idle" ELSE "ack")
  /\ WriteMarker(a, NoMarker) /\ Quiet(a) /\ HoldReceipt(a)

\* For a caller and for ingress the deletion is best effort.
KeepMarker(a) ==
  a \in Callers \cup Ingress /\ Step(a, "delete", "ack") /\ Still(a)

\* suppressForward: the receipt says why nothing is forwarded any more (it
\* is written again when it says so with another error code).
Suppress(a) ==
  \/ Step(a, "sup", IF receipt = goal[a] THEN "delete" ELSE "sup2") /\ Still(a)
  \/ /\ Step(a, "sup", "sup2")
     /\ WriteReceipt(a, goal[a]) /\ Quiet(a) /\ HoldMarker(a)

Suppressed(a) ==
  /\ Step(a, "sup2",
          IF receipt \in {goal[a], "forwarded"} THEN "delete" ELSE "idle")
  /\ Still(a)

\* finalMailboxTruth: deletion authority and row are two reads and each may
\* fail, so an attempt may go on whatever the mailbox holds.
MailboxHasIt(a, p) ==
  /\ truth # "none" /\ Step(a, p, "sup")
  /\ goal' = [goal EXCEPT ![a] = truth]
  /\ HoldMarker(a) /\ HoldReceipt(a)
  /\ UNCHANGED <<world, accepted, envelopes, top, g, fails, tries>>

MailboxIsSilent(a, p, q) == Step(a, p, q) /\ Still(a)

\* repairReceiptFromMarker
RepairReceipt(a, p, q) ==
  /\ Step(a, p, IF raw = "intact" THEN q ELSE "idle")
  /\ IF raw = "intact" THEN PutReceipt(a, "pending") ELSE HoldReceipt(a)
  /\ Quiet(a) /\ HoldMarker(a)

\* claimAndEnqueue takes the next generation (bound: MaxGen) ...
TakeGeneration(a, mk) ==
  /\ mk.gen < MaxGen /\ Step(a, "claim", "send")
  /\ WriteMarker(a, [mk EXCEPT !.gen = @ + 1, !.att = FALSE, !.live = TRUE])
  /\ g' = [g EXCEPT ![a] = mk.gen + 1]
  /\ top' = IF mk.gen + 1 > top THEN mk.gen + 1 ELSE top
  /\ HoldReceipt(a) /\ UNCHANGED <<world, accepted, envelopes, goal, fails, tries>>

\* Slip: the marker is given up once the queue has the envelope.
SendAndForget(a) ==
  /\ Step(a, "send", IF a \in Callers THEN "ack" ELSE "idle")
  /\ envelopes' = envelopes \cup {g[a]} /\ g' = [g EXCEPT ![a] = 0]
  /\ WriteMarker(a, NoMarker) /\ HoldReceipt(a)
  /\ UNCHANGED <<world, accepted, top, goal, fails, tries>>

\* ... sends its envelope ...
SendEnvelope(a) ==
  /\ Step(a, "send", IF a \in Callers THEN "ack" ELSE "idle")
  /\ envelopes' = envelopes \cup {g[a]}
  /\ g' = [g EXCEPT ![a] = 0]
  /\ HoldMarker(a) /\ HoldReceipt(a) /\ UNCHANGED <<world, accepted, top, goal, fails, tries>>

\* ... and gives the lease up when that fails, enqueued or not.
SendFails(a) ==
  /\ g[a] < MaxGen
  /\ fails < MaxFails /\ fails' = fails + 1 /\ Step(a, "send", "unclaim")
  /\ envelopes' \in {envelopes, envelopes \cup {g[a]}}
  /\ HoldMarker(a) /\ HoldReceipt(a) /\ UNCHANGED <<world, accepted, top, local, tries>>

Unclaim(a) ==
  /\ Step(a, "unclaim", "idle") /\ Quiet(a) /\ HoldReceipt(a)
  /\ \/ HoldMarker(a)
     \/ /\ marker.here /\ marker.gen = g[a]
        /\ WriteMarker(a, [marker EXCEPT !.live = FALSE])

\* An actor's run is over, and what it knew is gone.
Ends(a) ==
  /\ pc' = [pc EXCEPT ![a] = Out(a)] /\ tries' = [tries EXCEPT ![a] = 0]
  /\ g' = [g EXCEPT ![a] = 0] /\ goal' = [goal EXCEPT ![a] = "absent"]
  /\ HoldMarker(a) /\ HoldReceipt(a)

\* commitProviderAcceptanceMarker: a few puts, over whatever is there.
RecordAccepted(a) ==
  /\ Step(a, "accept", "accept2")
  /\ PutMarker(a, [(IF m[a].here THEN m[a] ELSE NewMarker(g[a], TRUE, TRUE))
                     EXCEPT !.acc = TRUE, !.live = TRUE])
  /\ Quiet(a) /\ HoldReceipt(a)

\* Slip: a consumer that has recorded the acceptance skips the receipt.
RecordedAndDone(a) ==
  /\ marker.acc
  /\ Step(a, "accept2", IF a \in Consumers THEN "delete" ELSE "receipt")
  /\ tries' = [tries EXCEPT ![a] = 0]
  /\ ReadMarker(a) /\ HoldReceipt(a)
  /\ UNCHANGED <<world, accepted, envelopes, top, local, fails>>

RecordedAccepted(a) ==
  /\ marker.acc
  /\ Step(a, "accept2", IF a \in Consumers THEN "commit" ELSE "receipt")
  /\ tries' = [tries EXCEPT ![a] = 0]
  /\ ReadMarker(a) /\ HoldReceipt(a)
  /\ UNCHANGED <<world, accepted, envelopes, top, local, fails>>

RecordsAgain(a) ==
  /\ ~marker.acc /\ tries[a] + 1 < MaxTries /\ Step(a, "accept2", "accept")
  /\ tries' = [tries EXCEPT ![a] = @ + 1]
  /\ ReadMarker(a) /\ HoldReceipt(a)
  /\ UNCHANGED <<world, accepted, envelopes, top, local, fails>>

RecordsNoMore(a) ==
  /\ pc[a] = "accept2" /\ ~marker.acc /\ tries[a] + 1 >= MaxTries
  /\ Ends(a) /\ UNCHANGED <<world, accepted, envelopes, top, fails>>

-----------------------------------------------------------------------------
(* processEmergencyForwardMessage                                          *)

\* A copy is delivered, and the receipt is read.
Deliver(c, e) ==
  /\ e \in envelopes /\ Step(c, "idle", "marker")
  /\ g' = [g EXCEPT ![c] = e] /\ ReadReceipt(c)
  /\ HoldMarker(c) /\ UNCHANGED <<world, accepted, envelopes, top, goal, fails, tries>>

\* Where an attempt goes once it holds a marker mk and a receipt rc.
WithAuthority(c, mk, rc, live) ==
  CASE ~mk.here \/ rc \notin NeedsTruth \cup {"pending"} -> "idle"
    [] mk.here /\ rc \in NeedsTruth \cup {"pending"} /\ mk.gen # g[c] -> "ack"
    [] mk.here /\ mk.gen = g[c] /\ mk.att /\ live -> "idle"
    [] OTHER -> "beat"

ConsumerReadsMarker(c) ==
  /\ Step(c, "marker",
       IF marker.acc THEN "commit"
       ELSE CASE r[c] \in {"forwarded", "rejected"} -> "delete"
              [] ~marker.here /\ r[c] \in {"pending", "quarantined"} -> "remark"
              [] marker.here /\ r[c] \in Unread \cup {"quarantined"} -> "repair"
              [] OTHER -> WithAuthority(c, marker, r[c], marker.live))
  /\ ReadMarker(c) /\ Quiet(c) /\ HoldReceipt(c)

\* repairMarkerFromPendingReceipt
RecreateMarker(c) ==
  /\ Step(c, "remark", IF raw = "intact" THEN "remark2" ELSE "idle")
  /\ IF raw = "intact" THEN PutMarker(c, NewMarker(g[c], FALSE, TRUE))
                       ELSE HoldMarker(c)
  /\ Quiet(c) /\ HoldReceipt(c)

RecreatedMarker(c) ==
  /\ Step(c, "remark2", IF marker.here /\ r[c] = "quarantined" THEN "repair"
                         ELSE WithAuthority(c, marker, r[c], marker.live))
  /\ ReadMarker(c) /\ Quiet(c) /\ HoldReceipt(c)

ConsumerRepaired(c) ==
  /\ Step(c, "repair2", IF receipt = "pending"
                         THEN WithAuthority(c, m[c], receipt, LeaseIsLive(c))
                         ELSE "idle")
  /\ ReadReceipt(c) /\ Quiet(c) /\ HoldMarker(c)

\* heartbeatEmergencyMarker
Heartbeat(c) ==
  /\ Step(c, "beat", IF MarkerMatches(c) THEN "beat2" ELSE "lost")
  /\ PutMarker(c, [m[c] EXCEPT !.att = TRUE, !.live = TRUE])
  /\ Quiet(c) /\ HoldReceipt(c)

\* The heartbeat is read back; the archived message is checked.
HeartbeatHeld(c) ==
  /\ Step(c, "beat2",
       IF ~marker.here \/ marker.gen # g[c] THEN "lost"
       ELSE CASE marker.acc -> "commit"
              [] ~marker.acc /\ raw = "missing" -> "idle"
              [] ~marker.acc /\ raw = "mismatch" -> "sup"
              [] ~marker.acc /\ raw = "intact" /\ r[c] \in NeedsTruth -> "truth"
              [] OTHER -> "truth2")
  /\ goal' = [goal EXCEPT ![c] = IF pc'[c] = "sup" THEN "mismatch" ELSE @]
  /\ g' = [g EXCEPT ![c] = IF pc'[c] = "idle" THEN 0 ELSE @]
  /\ ReadMarker(c) /\ HoldReceipt(c)
  /\ UNCHANGED <<world, accepted, envelopes, top, fails, tries>>

HeartbeatLost(c) ==
  /\ Step(c, "lost", IF marker.here /\ marker.gen # g[c] THEN "ack" ELSE "idle")
  /\ Still(c)

\* A terminal receipt the mailbox does not confirm went back to pending.
Restored(c) ==
  /\ Step(c, "restore2", IF receipt = "pending" THEN "truth2" ELSE "idle")
  /\ ReadReceipt(c) /\ Quiet(c) /\ HoldMarker(c)

\* EMERGENCY_EMAIL.send: accepted, refused, or no answer in time.
MailAccepted(c) ==
  /\ Step(c, "mail", "accept") /\ accepted' = TRUE
  /\ goal' = [goal EXCEPT ![c] = "forwarded"]
  /\ HoldMarker(c) /\ HoldReceipt(c) /\ UNCHANGED <<world, envelopes, top, g, fails, tries>>

\* Slip: no answer in time is taken for an acceptance.
MailAssumed(c) ==
  /\ fails < MaxFails /\ fails' = fails + 1 /\ Step(c, "mail", "accept")
  /\ goal' = [goal EXCEPT ![c] = "forwarded"]
  /\ HoldMarker(c) /\ HoldReceipt(c)
  /\ UNCHANGED <<world, accepted, envelopes, top, g, tries>>

MailUnanswered(c) ==
  /\ fails < MaxFails /\ fails' = fails + 1 /\ Step(c, "mail", "idle")
  /\ accepted' \in {accepted, TRUE}
  /\ g' = [g EXCEPT ![c] = 0]
  /\ HoldMarker(c) /\ HoldReceipt(c) /\ UNCHANGED <<world, envelopes, top, goal, tries>>

-----------------------------------------------------------------------------
(* beginEmergencyForward                                                   *)

Call(b) ==
  /\ Step(b, "idle", IF marker.here THEN "receipt" ELSE "create")
  /\ ReadMarker(b) /\ Quiet(b) /\ HoldReceipt(b)

CreateMarker(b) ==
  /\ Step(b, "create", "marker2") /\ PutMarker(b, NewMarker(0, FALSE, FALSE))
  /\ Quiet(b) /\ HoldReceipt(b)

CreatedMarker(b) ==
  /\ Step(b, "marker2", IF marker.here THEN "receipt" ELSE "idle")
  /\ ReadMarker(b) /\ Quiet(b) /\ HoldReceipt(b)

\* Only an accepted forward and a rejected message are left as they are.
CallerReadsReceipt(b) ==
  /\ Step(b, "receipt", IF m[b].acc THEN "commit"
       ELSE CASE receipt \in {"forwarded", "rejected"} -> "delete"
              [] receipt = "pending" -> "claim"
              [] OTHER -> "pending2")
  /\ ReadReceipt(b) /\ Quiet(b) /\ HoldMarker(b)

MakePending(b) ==
  /\ Step(b, "receipt", "claim")
  /\ ~m[b].acc /\ receipt \notin {"forwarded", "rejected", "pending"}
  /\ WriteReceipt(b, "pending") /\ Quiet(b) /\ HoldMarker(b)

PendingByOther(b) ==
  /\ Step(b, "pending2", IF receipt = "pending" THEN "claim" ELSE "idle")
  /\ Still(b)

CallerClaims(b) == marker.here /\ ~LiveLease(marker) /\ TakeGeneration(b, marker)

CallerLoses(b) ==
  Step(b, "claim", IF marker.here THEN "winner" ELSE "idle") /\ Still(b)

\* The generation that holds the lease is enqueued again.
ReadWinner(b) ==
  /\ Step(b, "winner", IF marker.here /\ marker.gen > 0 THEN "resend" ELSE "idle")
  /\ g' = [g EXCEPT ![b] = IF marker.here THEN marker.gen ELSE 0]
  /\ HoldMarker(b) /\ HoldReceipt(b)
  /\ UNCHANGED <<world, accepted, envelopes, top, goal, fails, tries>>

Resend(b) ==
  /\ Step(b, "resend", "ack") /\ envelopes' = envelopes \cup {g[b]}
  /\ g' = [g EXCEPT ![b] = 0]
  /\ HoldMarker(b) /\ HoldReceipt(b) /\ UNCHANGED <<world, accepted, top, goal, fails, tries>>

-----------------------------------------------------------------------------
(* reconcileOneEmergencyForwardMarker                                      *)

Sweep(k) ==
  /\ marker.here /\ Step(k, "idle", "receipt")
  /\ ReadMarker(k) /\ Quiet(k) /\ HoldReceipt(k)

\* Slip: the marker of a forwarded message is passed over.
SweepPassesOver(k) ==
  /\ Step(k, "receipt", IF m[k].acc THEN "commit"
       ELSE CASE receipt \in {"forwarded", "rejected"} -> "idle"
              [] receipt = "pending" -> "claim"
              [] OTHER -> "truth")
  /\ ReadReceipt(k) /\ Quiet(k) /\ HoldMarker(k)

SweepReadsReceipt(k) ==
  /\ Step(k, "receipt", IF m[k].acc THEN "commit"
       ELSE CASE receipt \in {"forwarded", "rejected"} -> "delete"
              [] receipt = "pending" -> "claim"
              [] OTHER -> "truth")
  /\ ReadReceipt(k) /\ Quiet(k) /\ HoldMarker(k)

SweepRepaired(k) ==
  /\ Step(k, "repair2", IF receipt = "pending" THEN "claim" ELSE "idle")
  /\ ReadReceipt(k) /\ Quiet(k) /\ HoldMarker(k)

\* Slip: only a marker that was never claimed is enqueued.
SweepClaimsNew(k) == m[k].gen = 0 /\ k \in mFresh /\ TakeGeneration(k, m[k])

\* A live lease is left alone.
SweepClaims(k) == ~LeaseIsLive(k) /\ k \in mFresh /\ TakeGeneration(k, m[k])

SweepLeaves(k) ==
  /\ LeaseIsLive(k) \/ k \notin mFresh \/ m[k].gen = MaxGen
  /\ Step(k, "claim", "idle") /\ Still(k)

-----------------------------------------------------------------------------
(* commitIngressForwardAcceptance: SMTP's own forward was accepted         *)

IngressForwards(i) ==
  /\ raw = "intact" /\ Step(i, "idle", "marker") /\ accepted' = TRUE
  /\ goal' = [goal EXCEPT ![i] = "forwarded"]
  /\ HoldMarker(i) /\ HoldReceipt(i) /\ UNCHANGED <<world, envelopes, top, g, fails, tries>>

IngressReadsMarker(i, p, q) ==
  /\ Step(i, p, CASE ~marker.here -> q
                  [] marker.here /\ marker.acc -> "receipt"
                  [] OTHER -> "accept")
  /\ g' = [g EXCEPT ![i] = CASE pc'[i] = "done" -> 0
                             [] pc'[i] = "create" -> 1
                             [] OTHER -> marker.gen]
  /\ goal' = [goal EXCEPT ![i] = IF pc'[i] = "done" THEN "absent" ELSE @]
  /\ ReadMarker(i) /\ HoldReceipt(i)
  /\ UNCHANGED <<world, accepted, envelopes, top, fails, tries>>

IngressCreates(i) ==
  /\ Step(i, "create", "marker2") /\ PutMarker(i, NewMarker(1, TRUE, TRUE))
  /\ Quiet(i) /\ HoldReceipt(i)

IngressReadsReceipt(i) ==
  /\ Step(i, "receipt", "commit") /\ ReadReceipt(i) /\ Quiet(i) /\ HoldMarker(i)

-----------------------------------------------------------------------------
(* Ends, failures, and the rest of the system                              *)

\* The message is acknowledged (another copy may remain), the call returns.
Return(a) ==
  /\ Step(a, "ack", IF a \in Consumers THEN "idle" ELSE "done")
  /\ envelopes' \in IF a \in Consumers THEN {envelopes, envelopes \ {g[a]}}
                                        ELSE {envelopes}
  /\ g' = [g EXCEPT ![a] = 0] /\ goal' = [goal EXCEPT ![a] = "absent"]
  /\ HoldMarker(a) /\ HoldReceipt(a) /\ UNCHANGED <<world, accepted, top, fails, tries>>

\* Any await may fail, and a worker may be gone after any of them.
Crash(a) ==
  /\ pc[a] \notin {"idle", "done", "ack"}
  /\ pc[a] = "send" => g[a] < MaxGen
  /\ fails < MaxFails /\ fails' = fails + 1
  /\ Ends(a) /\ UNCHANGED <<world, accepted, envelopes, top>>

\* The retries of the parking lane are used up.
DropEnvelope(e) ==
  /\ e \in envelopes /\ e < MaxGen /\ envelopes' = envelopes \ {e}
  /\ UNCHANGED <<mVars, rVars, world, accepted, top, pc, local, fails, tries>>

LeaseExpires ==
  /\ marker.live /\ (Timely => \A c \in Consumers : pc[c] \notin Covered)
  /\ marker' = [marker EXCEPT !.live = FALSE]
  /\ UNCHANGED <<m, mFresh, rVars, world, accepted, envelopes, top, pc, local, fails, tries>>

\* createEmail of the inbound queue stores the message after all; deleteEmail
\* leaves a tombstone of it.
MailboxChanges ==
  /\ \/ truth = "none" /\ truth' = "stored"
     \/ truth = "stored" /\ truth' = "deleted"
  /\ truth' \in Truths
  /\ UNCHANGED <<mVars, rVars, raw, refused, accepted, envelopes, top, pc, local, fails, tries>>

\* writeReceipt of the inbound queue: terminal receipts are left alone, but
\* that a stored one may become deleted.
QueueFinalizes(v) ==
  /\ \/ v = "stored" /\ truth # "none"
     \/ v = "deleted" /\ truth = "deleted"
     \/ v = "mismatch" /\ raw = "mismatch"
  /\ \/ receipt \notin {"stored", "deleted", "rejected", "forwarded"}
     \/ receipt = "stored" /\ v = "deleted"
  /\ receipt' = v /\ rFresh' = {}
  /\ UNCHANGED <<mVars, r, world, accepted, envelopes, top, pc, local, fails, tries>>

\* recordDurableRejection, over the receipt reception wrote.
RejectionLands ==
  /\ receipt = "ingress" /\ receipt' = "rejected" /\ refused' = TRUE
  /\ rFresh' = {}
  /\ UNCHANGED <<mVars, r, raw, truth, accepted, envelopes, top, pc, local, fails, tries>>

-----------------------------------------------------------------------------
Shared(a) ==
  \/ Commit(a) \/ Committed(a) \/ EnrichMarker(a) \/ EnrichReceipt(a)
  \/ DeleteMarker(a) \/ Suppress(a) \/ Suppressed(a)
  \/ SendEnvelope(a) \/ Unclaim(a)
  \/ RecordAccepted(a) \/ RecordedAccepted(a) \/ RecordsAgain(a)
  \/ RecordsNoMore(a) \/ Return(a)

ConsumerStep(c) ==
  \/ ConsumerReadsMarker(c) \/ RecreateMarker(c) \/ RecreatedMarker(c)
  \/ RepairReceipt(c, "repair", "repair2") \/ ConsumerRepaired(c)
  \/ Heartbeat(c) \/ HeartbeatHeld(c) \/ HeartbeatLost(c)
  \/ MailboxHasIt(c, "truth") \/ MailboxIsSilent(c, "truth", "restore")
  \/ RepairReceipt(c, "restore", "restore2") \/ Restored(c)
  \/ MailboxHasIt(c, "truth2") \/ MailboxIsSilent(c, "truth2", "mail")
  \/ MailAccepted(c)

CallerStep(b) ==
  \/ CreateMarker(b) \/ CreatedMarker(b)
  \/ CallerReadsReceipt(b) \/ MakePending(b) \/ PendingByOther(b)
  \/ CallerClaims(b) \/ CallerLoses(b) \/ ReadWinner(b) \/ Resend(b)

SweepStep(k) ==
  \/ SweepReadsReceipt(k) \/ SweepClaims(k) \/ SweepLeaves(k)
  \/ MailboxHasIt(k, "truth") \/ MailboxIsSilent(k, "truth", "repair")
  \/ RepairReceipt(k, "repair", "repair2") \/ SweepRepaired(k)

IngressStep(i) ==
  \/ IngressReadsMarker(i, "marker", "create") \/ IngressCreates(i)
  \/ IngressReadsMarker(i, "marker2", "done") \/ IngressReadsReceipt(i)

Advance(a) ==
  \/ Shared(a)
  \/ a \in Consumers /\ ConsumerStep(a)
  \/ a \in Callers /\ CallerStep(a)
  \/ a \in Sweepers /\ SweepStep(a)
  \/ a \in Ingress /\ IngressStep(a)

Next ==
  \/ \E a \in Actors :
       Advance(a) \/ EnrichGivenUp(a) \/ KeepMarker(a) \/ SendFails(a) \/ Crash(a)
  \/ \E c \in Consumers : MailUnanswered(c) \/ \E e \in 1..MaxGen : Deliver(c, e)
  \/ \E b \in Callers : Call(b)
  \/ \E k \in Sweepers : Sweep(k)
  \/ \E i \in Ingress : IngressForwards(i)
  \/ \E e \in 1..MaxGen : DropEnvelope(e)
  \/ LeaseExpires \/ MailboxChanges \/ RejectionLands
  \/ \E v \in {"stored", "deleted", "mismatch"} : QueueFinalizes(v)

Spec == Init /\ [][Next]_vars

\* Work under way goes on (awaits are bounded by deadlines), leases run out,
\* the sweep is a cron job, and the queue delivers every copy it keeps.
Fairness ==
  /\ \A a \in Actors : WF_vars(Advance(a))
  /\ \A k \in Sweepers : WF_vars(Sweep(k))
  /\ \A c \in Consumers, e \in 1..MaxGen : SF_vars(Deliver(c, e))
  /\ WF_vars(LeaseExpires)

FairSpec == Spec /\ Fairness

-----------------------------------------------------------------------------
(* Properties                                                              *)

\* What may end a forward: the provider has it, the mailbox has (or had) it,
\* the sender was told, or there is nothing intact left to forward.
Settled == accepted \/ truth # "none" \/ refused \/ raw = "mismatch"

\* What receipt v says has happened.
Vouched(v) ==
  /\ v = "forwarded" => accepted
  /\ v = "stored" => truth # "none"
  /\ v = "deleted" => truth = "deleted"
  /\ v = "rejected" => refused
  /\ v = "mismatch" => raw = "mismatch"

\* The message is settled without the marker's record of an acceptance.
Recorded ==
  receipt = "forwarded" \/ truth # "none" \/ refused \/ raw = "mismatch"

\* Receipts and accepted markers say what happened, and never more: a
\* forwarded receipt or an accepted marker means the provider took the
\* message, a stored or deleted one that the mailbox held it.
ReceiptIsTrue == Vouched(receipt) /\ (marker.acc => accepted)

\* beginEmergencyForward returned, and its caller may acknowledge: until the
\* message is settled the marker the sweep looks for is there, although
\* every actor deletes it without a condition.
NothingIsStranded ==
  \A b \in Callers : pc[b] = "done" => Settled \/ marker.here

\* The record of an acceptance is given up only once the receipt says
\* forwarded, or when the mailbox itself settles the message.
AcceptanceIsKept == [][marker.acc /\ ~marker'.acc => Recorded]_vars

\* The comment at claimAndEnqueue: the durable generation "fences every
\* older copy before Email Service is called".
OldCopiesAreFenced ==
  \A c \in Consumers : pc[c] = "mail" => g[c] >= top

\* A forward that was begun settles as long as the archived message can be
\* read ...
ForwardSettles ==
  (\E b \in Callers : pc[b] = "done") /\ raw # "missing" ~> Settled

\* ... and once no call of beginEmergencyForward is under way any more, its
\* marker, which keeps the sweep busy, is cleared away for good when the
\* message is intact.  (A marker over a damaged message may stay for an
\* operator: the sweep can neither repair nor suppress it.)
MarkersDrain ==
  raw = "intact" /\ <>[](\A b \in Callers : pc[b] \in {"idle", "done"})
    => <>[]~marker.here

-----------------------------------------------------------------------------
(* The inductive strengthening of the safety properties                    *)

\* A snapshot is kept while it is used; a fresh one agrees with the object
\* but for the clock; what it says has happened.
SnapshotInv(a) ==
  /\ pc[a] \notin UsesMarker => m[a] = NoMarker /\ a \notin mFresh
  /\ a \in mFresh => m[a].here /\ marker.here /\ m[a].acc = marker.acc
  /\ m[a].acc => m[a].here /\ accepted
  /\ a \in rFresh => r[a] = receipt
  /\ Vouched(r[a]) /\ (r[a] = "forwarded" => Recorded)

\* Nobody deletes a marker, writes a terminal receipt or reports a call as
\* done before the facts are there.
StepInv(a) ==
  /\ Vouched(goal[a])
  /\ pc[a] \in {"accept", "accept2", "commit", "commit2", "enrich", "enrich2"}
       => accepted
  /\ a \in Ingress /\ pc[a] # "idle" => accepted
  /\ pc[a] \in {"sup", "sup2"} => goal[a] \in {"stored", "deleted", "mismatch"}
  /\ pc[a] = "delete" => Recorded
  /\ pc[a] \in {"enrich", "enrich2"} /\ goal[a] = "forwarded" => Recorded
  /\ pc[a] \in {"truth", "repair", "restore"} => r[a] # "forwarded"
  /\ pc[a] \in {"send", "resend"} => g[a] > 0
  /\ a \in Callers /\ pc[a] \notin {"idle", "create", "marker2"}
       => Settled \/ marker.here

\* The invariant: receipts are true, an accepted marker is there, and every
\* actor's snapshots and intentions rest on what has happened.
ForwardInv ==
  /\ TypeOK
  /\ ReceiptIsTrue
  /\ marker.acc => marker.here
  /\ \A a \in Actors : SnapshotInv(a) /\ StepInv(a)

=============================================================================
