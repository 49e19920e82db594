----------------------------- MODULE PushOutbox -----------------------------
(***************************************************************************)
(* The push notification of one message, and the devices it goes to.       *)
(*                                                                         *)
(* The transaction that stores a message adds one delivery per registered  *)
(* device.  A pass of the mailbox's alarm claims one delivery at a time,   *)
(* asks whether the user may still read the mailbox, sends, and records    *)
(* what came of it.  Devices are registered again under other users, and   *)
(* taken back, while the pass waits.                                       *)
(*                                                                         *)
(*   workers/lib/push/outbox.ts       processPushOutbox and its parts      *)
(*   workers/lib/push/send.ts         what a push service answers          *)
(*   workers/durableObject/index.ts   subscriptions, the alarm             *)
(***************************************************************************)
EXTENDS Naturals

CONSTANTS
  Devices,      \* endpoints
  Users,        \* who may register a device
  MaxAttempts,  \* maxAttempts
  MaxRegs       \* bound on registrations

ASSUME PushAssumption ==
  MaxAttempts \in Nat \ {0} /\ MaxRegs \in Nat /\ "nobody" \notin Users

VARIABLES
  reg,      \* push_subscriptions by endpoint
  regs,     \* registrations so far
  note,     \* state of the push_notifications row
  over,     \* it is too late to send
  del,      \* push_notification_deliveries by endpoint
  readers,  \* the users who may read the mailbox
  pass,     \* the pass of the alarm
  blame,    \* by device: the users whose failures its health counts
  sends     \* by device: requests to the push service

pushVars == <<reg, regs, note, over, del, readers, pass, blame, sends>>

Nobody == "nobody"
NoReg == [user |-> Nobody, id |-> 0, gen |-> 0]
NoDel == [status |-> "none", target |-> Nobody, id |-> 0, tries |-> 0, lapsed |-> FALSE]
Active == {"pending", "retrying", "sending"}
Idle == [pc |-> "idle", at |-> {}, reg |-> NoReg]

Registrations == [user : Users \cup {Nobody}, id : 0..MaxRegs, gen : 0..MaxRegs]
Deliveries ==
  [status : Active \cup {"none", "accepted", "terminal"}, target : Users \cup {Nobody},
   id : 0..MaxRegs, tries : 0..MaxAttempts, lapsed : BOOLEAN]

PushTypeOK ==
  /\ reg \in [Devices -> Registrations] /\ regs \in 0..MaxRegs
  /\ note \in {"none", "pending", "completed", "expired", "no_targets", "pruned"}
  /\ over \in BOOLEAN /\ readers \subseteq Users
  /\ del \in [Devices -> Deliveries]
  /\ pass \in [pc : {"idle", "loop", "alarm", "access", "sending"}, at : SUBSET Devices,
               reg : Registrations]
  /\ \A d, e \in pass.at : d = e
  /\ blame \in [Devices -> SUBSET Users] /\ sends \in [Devices -> Nat]

PushInit ==
  /\ reg = [d \in Devices |-> NoReg] /\ regs = 0
  /\ note = "none" /\ over = FALSE /\ del = [d \in Devices |-> NoDel]
  /\ readers = Users /\ pass = Idle
  /\ blame = [d \in Devices |-> {}] /\ sends = [d \in Devices |-> 0]

-----------------------------------------------------------------------------
(* Registrations and access                                                *)

\* upsertPushSubscription: the endpoint keeps its row, in a new generation,
\* and another user starts with a clean bill of health.
UpsertPushSubscription(d, u) ==
  /\ regs < MaxRegs /\ regs' = regs + 1
  /\ reg' = [reg EXCEPT ![d] =
       IF @ = NoReg THEN [user |-> u, id |-> regs + 1, gen |-> 1]
       ELSE [@ EXCEPT !.user = u, !.gen = reg[d].gen + 1]]
  /\ blame' = [blame EXCEPT ![d] = IF reg[d].user = u THEN @ ELSE {}]
  /\ UNCHANGED <<note, over, del, readers, pass, sends>>

\* deletePushSubscription and removePushSubscriptionsForUser
RemovePushSubscriptions(ds) ==
  /\ ds # {} /\ \A d \in ds : reg[d] # NoReg
  /\ reg' = [d \in Devices |-> IF d \in ds THEN NoReg ELSE reg[d]]
  /\ blame' = [d \in Devices |-> IF d \in ds THEN {} ELSE blame[d]]
  /\ UNCHANGED <<regs, note, over, del, readers, pass, sends>>

\* Mailbox access is taken away elsewhere.
RevokeAccess(u) ==
  /\ u \in readers /\ readers' = readers \ {u}
  /\ UNCHANGED <<reg, regs, note, over, del, pass, blame, sends>>

\* enqueuePushNotification, in the transaction that stores the message.
EnqueuePush ==
  LET targets == {d \in Devices : reg[d] # NoReg}
  IN /\ note = "none"
     /\ note' = IF targets = {} THEN "no_targets" ELSE "pending"
     /\ del' = [d \in Devices |->
          IF d \in targets
          THEN [NoDel EXCEPT !.status = "pending", !.target = reg[d].user, !.id = reg[d].id]
          ELSE NoDel]
     /\ UNCHANGED <<reg, regs, over, readers, pass, blame, sends>>

\* Five minutes, less the time a send takes.
TimeIsUp ==
  /\ note = "pending" /\ ~over /\ over' = TRUE
  /\ UNCHANGED <<reg, regs, note, del, readers, pass, blame, sends>>

-----------------------------------------------------------------------------
(* The parts of a pass                                                     *)

\* The device of a delivery, if it is still registered by its target.
Registered(d) == reg[d].id = del[d].id /\ reg[d].user = del[d].target

\* Health is only ever charged to the registration that was tried.
Charged(ds) == [d \in Devices |-> IF d \in ds THEN blame[d] \cup {del[d].target} ELSE blame[d]]

Finished(r) == [r EXCEPT !.status = "terminal", !.lapsed = FALSE]

Closed(ds) == \A d \in Devices : ds[d].status \notin Active

\* completeNotification
CompleteNotification(ds) ==
  /\ del' = ds
  /\ note' = IF note = "pending" /\ Closed(ds)
             THEN IF over THEN "expired" ELSE "completed" ELSE note

\* expireNotification closes every delivery.
Expire ==
  LET open == {d \in Devices : del[d].status \in Active}
  IN /\ del' = [d \in Devices |-> IF d \in open THEN Finished(del[d]) ELSE del[d]]
     /\ blame' = Charged({d \in open : Registered(d)})
     /\ note' = IF note = "pending" THEN "expired" ELSE note

\* An attempt whose pass died counts.
LostAttempt(r) ==
  IF r.tries >= MaxAttempts THEN Finished(r)
  ELSE [r EXCEPT !.status = "retrying", !.lapsed = FALSE]

\* recoverAndExpire, and prune after a week
Recover(pc) ==
  LET recovered == [d \in Devices |->
        IF del[d].status = "sending" /\ del[d].lapsed THEN LostAttempt(del[d]) ELSE del[d]]
  IN /\ pass' = [Idle EXCEPT !.pc = pc]
     /\ IF over /\ note = "pending" THEN Expire
        ELSE \/ CompleteNotification(recovered) /\ UNCHANGED blame
             \/ /\ note \in {"completed", "expired", "no_targets"} /\ pc = "loop"
                /\ note' = "pruned" /\ del' = [d \in Devices |-> NoDel] /\ UNCHANGED blame
     /\ UNCHANGED <<reg, regs, over, readers, sends>>

StartPass == pass.pc = "idle" /\ note # "pruned" /\ Recover("loop")
EndPass == pass.pc = "loop" /\ Recover("idle")

\* claimNext
Claim(d) ==
  /\ pass.pc = "loop" /\ note = "pending" /\ ~over
  /\ del[d].status \in {"pending", "retrying"}
  /\ del' = [del EXCEPT ![d].status = "sending", ![d].tries = @ + 1, ![d].lapsed = FALSE]
  /\ pass' = [pc |-> "alarm", at |-> {d}, reg |-> NoReg]
  /\ UNCHANGED <<reg, regs, note, over, readers, blame, sends>>

OwnsLease(d) == del[d].status = "sending"

\* releaseAtBoundary: no time is left in this pass or for this notification.
Boundary(d) ==
  /\ d \in pass.at /\ pass.pc \in {"alarm", "access"}
  /\ \/ over /\ Expire /\ pass' = [Idle EXCEPT !.pc = "loop"]
     \/ /\ ~over /\ pass' = [Idle EXCEPT !.pc = "idle"] /\ UNCHANGED <<note, blame>>
        /\ del' = IF OwnsLease(d)
                  THEN [del EXCEPT ![d].status = "pending", ![d].tries = @ - 1,
                                   ![d].lapsed = FALSE]
                  ELSE del
  /\ UNCHANGED <<reg, regs, over, readers, sends>>

Retried(r) ==
  IF r.tries >= MaxAttempts \/ over THEN Finished(r)
  ELSE [r EXCEPT !.status = "retrying", !.lapsed = FALSE]

\* Every update of a delivery names the lease.
Update(d, r) == CompleteNotification(IF OwnsLease(d) THEN [del EXCEPT ![d] = r] ELSE del)

ToLoop == pass' = [Idle EXCEPT !.pc = "loop"]

\* The alarm is set, the payload and the device are looked at.
CheckDevice(d) ==
  /\ pass.pc = "alarm" /\ d \in pass.at
  /\ \/ /\ Registered(d) /\ pass' = [pass EXCEPT !.pc = "access", !.reg = reg[d]]
        /\ UNCHANGED <<del, note, blame>>
     \/ ~Registered(d) /\ Update(d, Finished(del[d])) /\ ToLoop /\ UNCHANGED blame
     \/ /\ ~over /\ Update(d, Retried(del[d])) /\ ToLoop          \* no alarm could be set
        /\ blame' = Charged({x \in {d} : Registered(x)})
     \/ Update(d, Finished(del[d])) /\ ToLoop /\ UNCHANGED blame  \* payload, configuration
  /\ UNCHANGED <<reg, regs, over, readers, sends>>

\* A registration is only removed as it was judged.
Drop(d, r) ==
  /\ reg' = [reg EXCEPT ![d] = IF @ = r THEN NoReg ELSE @]
  /\ blame' = [blame EXCEPT ![d] = IF reg[d] = r THEN {} ELSE @]

Attempt(d) ==
  /\ pass' = [pass EXCEPT !.pc = "sending", !.reg = reg[d]]
  /\ sends' = [sends EXCEPT ![d] = @ + 1]

\* Slip: the device is not looked at again.
SendsUnseen(d) ==
  /\ pass.pc = "access" /\ d \in pass.at
  /\ IF OwnsLease(d) /\ del[d].target \in readers /\ ~over
     THEN Attempt(d) /\ UNCHANGED <<del, note>>
     ELSE Update(d, Finished(del[d])) /\ ToLoop /\ UNCHANGED sends
  /\ UNCHANGED <<reg, regs, over, readers, blame>>

\* canAccess has answered: the lease and the device are read again.
Send(d) ==
  /\ pass.pc = "access" /\ d \in pass.at
  /\ IF ~OwnsLease(d)
     THEN ToLoop /\ UNCHANGED <<del, note, reg, blame, sends>>
     ELSE \/ /\ del[d].target \in readers /\ Registered(d) /\ ~over
             /\ Attempt(d) /\ UNCHANGED <<del, note, reg, blame>>
          \/ /\ del[d].target \in readers /\ ~Registered(d)
             /\ Update(d, Finished(del[d])) /\ ToLoop
             /\ UNCHANGED <<reg, blame, sends>>
          \/ /\ del[d].target \notin readers
             /\ Update(d, Finished(del[d])) /\ Drop(d, pass.reg) /\ ToLoop
             /\ UNCHANGED sends
          \/ /\ ~over /\ Update(d, Retried(del[d])) /\ ToLoop     \* canAccess failed
             /\ blame' = [blame EXCEPT ![d] =
                  IF reg[d] = pass.reg THEN @ \cup {pass.reg.user} ELSE @]
             /\ UNCHANGED <<reg, sends>>
  /\ UNCHANGED <<regs, over, readers>>

\* Slip: the device is removed by its endpoint.
AnsweredDropsAny(d) ==
  /\ pass.pc = "sending" /\ d \in pass.at
  /\ \/ /\ Update(d, Finished(del[d])) /\ reg' = [reg EXCEPT ![d] = NoReg]
        /\ blame' = [blame EXCEPT ![d] = {}]
        /\ ToLoop
     \/ /\ Update(d, [Finished(del[d]) EXCEPT !.status = "accepted"]) /\ ToLoop
        /\ UNCHANGED <<reg, blame>>
  /\ UNCHANGED <<regs, over, readers, sends>>

\* The push service has answered, or not in time.
Answered(d) ==
  LET charge == blame' = [blame EXCEPT ![d] = @ \cup {pass.reg.user}]
  IN /\ pass.pc = "sending" /\ d \in pass.at
     /\ IF ~OwnsLease(d) THEN ToLoop /\ UNCHANGED <<del, note, reg, blame>>
        ELSE IF reg[d] # pass.reg                      \* another registration by now
        THEN Update(d, Retried(del[d])) /\ ToLoop /\ UNCHANGED <<reg, blame>>
        ELSE IF over THEN Expire /\ ToLoop /\ UNCHANGED reg
        ELSE \/ /\ Update(d, Retried(del[d])) /\ charge          \* timed out: pass ends
                /\ pass' = Idle /\ UNCHANGED reg
             \/ /\ Update(d, [Finished(del[d]) EXCEPT !.status = "accepted"]) /\ ToLoop
                /\ blame' = [blame EXCEPT ![d] = {}] /\ UNCHANGED reg
             \/ /\ Update(d, Finished(del[d])) /\ Drop(d, pass.reg) /\ ToLoop  \* 404, 410
             \/ /\ Update(d, Finished(del[d])) /\ charge /\ ToLoop             \* 4xx
                /\ UNCHANGED reg
             \/ /\ Update(d, Retried(del[d])) /\ charge /\ ToLoop
                /\ UNCHANGED reg
     /\ UNCHANGED <<regs, over, readers, sends>>

\* The mailbox is evicted; the lease of thirty seconds outlives the pass.
PassStops ==
  /\ pass.pc # "idle" /\ pass' = Idle
  /\ UNCHANGED <<reg, regs, note, over, del, readers, blame, sends>>

LeaseLapses(d) ==
  /\ del[d].status = "sending" /\ ~del[d].lapsed /\ d \notin pass.at
  /\ del' = [del EXCEPT ![d].lapsed = TRUE]
  /\ UNCHANGED <<reg, regs, note, over, readers, pass, blame, sends>>

PassStep ==
  \/ StartPass \/ EndPass
  \/ \E d \in Devices : Claim(d) \/ Boundary(d) \/ CheckDevice(d) \/ Send(d) \/ Answered(d)

PushNext ==
  \/ PassStep \/ PassStops \/ EnqueuePush \/ TimeIsUp
  \/ \E d \in Devices : LeaseLapses(d) \/ \E u \in Users : UpsertPushSubscription(d, u)
  \/ \E d \in Devices : RemovePushSubscriptions({d})
  \/ \E u \in Users : RevokeAccess(u) \/ RemovePushSubscriptions({d \in Devices : reg[d].user = u})

PushSpec == PushInit /\ [][PushNext]_pushVars

-----------------------------------------------------------------------------
(* Properties                                                              *)

\* A notification is only sent to a device that its user still has: never to
\* one that somebody else registered while access was being checked.
PushedToItsUser ==
  pass.pc = "sending" => \A d \in pass.at : pass.reg.user = del[d].target \/ ~OwnsLease(d)

\* A dead or forbidden registration is removed by the pass, never the one
\* that replaced it while the answer was on its way.
DropsAsJudged ==
  \A d \in pass.at : pass' # pass /\ reg'[d] = NoReg => reg[d] \in {NoReg, pass.reg}
DroppedAsJudged == [][DropsAsJudged]_pushVars

\* However often passes die, are put off and are repeated, a device is asked
\* at most MaxAttempts times.
SendsAreBounded == \A d \in Devices : sends[d] <= MaxAttempts

\* A notification is closed only when none of its deliveries is open, so no
\* device is forgotten.
ClosedWhenDone ==
  note \in {"completed", "expired", "no_targets"} =>
    \A d \in Devices : del[d].status \in {"none", "accepted", "terminal"}

\* The health of a device counts failures of its present user only.
HealthIsItsUsers == \A d \in Devices : blame[d] \subseteq {reg[d].user}

\* All of it, with the types of what it speaks of.
PushesAreDue ==
  PushTypeOK /\ PushedToItsUser /\ SendsAreBounded /\ ClosedWhenDone /\ HealthIsItsUsers

-----------------------------------------------------------------------------
(* Why they hold: an inductive invariant                                   *)

\* Every registration has an owner.
RegInv ==
  \A d \in Devices :
    /\ reg[d] # NoReg => reg[d].user \in Users
    /\ reg[d].id <= regs /\ reg[d].gen <= regs

\* A delivery that waits has an attempt left; every request was one.
TriesInv ==
  \A d \in Devices :
    /\ del[d].status \in {"pending", "retrying"} => del[d].tries < MaxAttempts
    /\ note # "pruned" => sends[d] <= del[d].tries
    /\ del[d].status \in Active => del[d].target \in Users

\* A pass is at a delivery it has claimed, with an attempt it has not used
\* until it sends.
ClaimedInv ==
  /\ note \in {"none", "pruned"} => del = [d \in Devices |-> NoDel]
  /\ pass.pc \in {"idle", "loop"} => pass.at = {}
  /\ \A d \in pass.at :
       /\ note = "pending" /\ del[d].status = "sending"
       /\ pass.pc \in {"alarm", "access"} => sends[d] < del[d].tries
       /\ pass.pc \in {"access", "sending"} => pass.reg.user = del[d].target

PushInv == PushesAreDue /\ RegInv /\ TriesInv /\ ClaimedInv
=============================================================================
