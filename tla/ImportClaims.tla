---------------------------- MODULE ImportClaims ----------------------------
(***************************************************************************)
(* Importing one message, by several requests at once.                     *)
(*                                                                         *)
(* A request claims the message under a fresh token, records the R2 keys   *)
(* it is about to create in a promotion intent, seals it, puts the objects *)
(* while it renews the claim, and projects the message in one transaction. *)
(* Sealed intents are reconciled page by page, by the request when it ends *)
(* and by the alarm when it does not: objects of the message are adopted,  *)
(* the others go to the deletion outbox, and as long as the writer has not *)
(* closed the intent its keys are watched for late puts.                   *)
(*                                                                         *)
(*   workers/lib/import/import-email.ts        importParsedEmail           *)
(*   workers/lib/import-email-claims.ts        claim, renew, release       *)
(*   workers/lib/import-promotion-intent.ts    begin, append, seal         *)
(*   workers/lib/store-email.ts                removal of what is not used *)
(*   workers/durableObject/index.ts            projection, reconciliation  *)
(***************************************************************************)
EXTENDS Naturals

CONSTANTS
  Importers,      \* import requests; each has its claim token
  MaxSize,        \* bound on the attachments of the message
  MaxImportFails  \* bound on failed, lost and overlong calls

\* Calls of requests and calls about objects are told apart.
ASSUME ImportAssumption ==
  /\ MaxSize \in Nat /\ MaxImportFails \in Nat
  /\ \A w, x \in Importers : \A i \in 1..MaxSize : w # <<x, i>>

VARIABLES
  size,        \* attachments of the message, one per page
  mail,        \* the import whose objects the stored message has, if stored
  claim,       \* import_generation_claims: the token of the message's claim
  live,        \* it has not expired
  intent,      \* import_promotion_intents with their objects, by token
  lease,       \* who reconciles an intent: "none", "own" or "alarm"
  leaseOver,   \* intents whose lease has expired
  calls,       \* reconciliations between their two transactions
  rows,        \* the deletion outbox: pending keys
  deleting,    \* the deletion outbox: keys that are being deleted
  fenced,      \* r2_retired_key_fences
  stored,      \* objects in R2
  ipc, puts, sealed,   \* the requests
  late,        \* calls of requests that have ended
  ifails

mboxVars == <<mail, claim, live>>
intentVars == <<intent, lease, leaseOver>>
r2Vars == <<rows, deleting, fenced, stored>>
importerVars == <<ipc, puts, sealed, late>>
importVars == <<size, mboxVars, intentVars, calls, r2Vars, importerVars, ifails>>

Ordinals == 1..size
Objects == Importers \X Ordinals
ObjectsOf(w) == {w} \X Ordinals
Owned == UNION {ObjectsOf(w) : w \in mail}

IPCs == {"claim", "renew", "begin", "seal", "put", "create", "undo",
         "finalize", "release", "done"}
NoIntent == [state |-> "none", closed |-> FALSE, phase |-> "validation", cursor |-> 0,
             seen |-> [i \in Ordinals |-> "unseen"]]
Sealed == {"recorded", "reconciling", "abandoned_watching"}

Intents ==
  [state : {"none", "staging", "integrity_blocked", "finalized"} \cup Sealed,
   closed : BOOLEAN, phase : {"validation", "settlement"}, cursor : 0..(size - 1),
   seen : [Ordinals -> {"unseen", "authoritative", "unowned_present", "absent"}]]

ImportTypeOK ==
  /\ size \in 1..MaxSize
  /\ mail \subseteq Importers /\ \A w, x \in mail : w = x
  /\ claim \subseteq Importers /\ (\A w, x \in claim : w = x) /\ live \in BOOLEAN
  /\ intent \in [Importers -> Intents]
  /\ lease \in [Importers -> {"none", "own", "alarm"}] /\ leaseOver \subseteq Importers
  /\ calls \in [Importers -> [{"own", "alarm"} -> {"none", "head", "present", "missing"}]]
  /\ rows \subseteq Objects /\ deleting \subseteq Objects /\ fenced \subseteq Objects
  /\ stored \subseteq Objects
  /\ ipc \in [Importers -> IPCs] /\ puts \in [Importers -> 0..size]
  /\ sealed \subseteq Importers /\ late \subseteq Objects \cup Importers
  /\ ifails \in 0..MaxImportFails

ImportInit ==
  /\ size \in 1..MaxSize
  /\ mail = {} /\ claim = {} /\ live = FALSE
  /\ intent = [w \in Importers |-> NoIntent]
  /\ lease = [w \in Importers |-> "none"] /\ leaseOver = {}
  /\ calls = [w \in Importers |-> [a \in {"own", "alarm"} |-> "none"]]
  /\ rows = {} /\ deleting = {} /\ fenced = {} /\ stored = {}
  /\ ipc = [w \in Importers |-> "claim"] /\ puts = [w \in Importers |-> 0]
  /\ sealed = {} /\ late = {} /\ ifails = 0

-----------------------------------------------------------------------------
(* The claim                                                               *)

NoFault == UNCHANGED ifails
Fault == ifails < MaxImportFails /\ ifails' = ifails + 1
Moves(w, p) == ipc' = [ipc EXCEPT ![w] = p]

LiveClaim(w) == claim = {w} /\ live

\* What becomes of the intent of a claim that has expired.
Given(i) ==
  IF i.state \in Sealed THEN [i EXCEPT !.state = "abandoned_watching"]
  ELSE IF i.state = "staging" THEN NoIntent ELSE i

Abandon(ws) ==
  /\ intent' = [w \in Importers |-> IF w \in ws THEN Given(intent[w]) ELSE intent[w]]
  /\ lease' = [w \in Importers |->
       IF w \in ws /\ intent[w].state \in Sealed THEN "none" ELSE lease[w]]
  /\ leaseOver' = leaseOver \ {w \in ws : intent[w].state \in Sealed}

\* The message has one claim: the row is replaced.
ClaimOf(w) == {w}

\* claimImportedEmail
ClaimImportedEmail(w) ==
  /\ ipc[w] = "claim"
  /\ \/ /\ \E x \in Importers : intent[x].state = "integrity_blocked"     \* busy
        /\ Moves(w, "done") /\ UNCHANGED <<claim, live, intentVars>>
     \/ /\ \A x \in Importers : intent[x].state # "integrity_blocked"
        /\ IF mail # {} THEN
             /\ intent' = [x \in Importers |->
                  IF x \in claim /\ intent[x].state = "staging" THEN NoIntent ELSE intent[x]]
             /\ claim' = {} /\ live' = FALSE /\ Moves(w, "done")
             /\ UNCHANGED <<lease, leaseOver>>
           ELSE IF claim # {} /\ live THEN                               \* busy
             Moves(w, "done") /\ UNCHANGED <<claim, live, intentVars>>
           ELSE
             Abandon(claim) /\ claim' = ClaimOf(w) /\ live' = TRUE /\ Moves(w, "renew")
  /\ UNCHANGED <<mail, calls, r2Vars, puts, sealed, late, ifails>>

\* The bucket deletes what the request may have put, or fails to.
DiscardsOf(w) ==
  \/ stored' = stored \ ObjectsOf(w) /\ NoFault
  \/ UNCHANGED stored /\ Fault

\* ensureClaim: without the claim the promoted objects are given up.
Renew(w) ==
  /\ ipc[w] = "renew"
  /\ \/ /\ LiveClaim(w) /\ NoFault /\ UNCHANGED stored
        /\ Moves(w, IF w \notin sealed THEN "begin"
                 ELSE IF puts[w] < size THEN "put" ELSE "create")
     \/ ~LiveClaim(w) /\ DiscardsOf(w) /\ Moves(w, "undo")
     \/ Fault /\ Moves(w, "undo") /\ UNCHANGED stored
  /\ UNCHANGED <<mboxVars, intentVars, calls, rows, deleting, fenced, puts, sealed, late>>

\* releaseImportedEmailClaim
Release(w) ==
  /\ ipc[w] = "release" /\ Moves(w, "done")
  /\ \/ /\ intent[w].state \notin Sealed \cup {"integrity_blocked"} /\ NoFault
        /\ intent' = [intent EXCEPT ![w] = IF @.state = "staging" THEN NoIntent ELSE @]
        /\ claim' = claim \ {w} /\ live' = (live /\ claim # {w})
     \/ /\ intent[w].state \in Sealed \cup {"integrity_blocked"} /\ NoFault
        /\ UNCHANGED <<intent, claim, live>>
     \/ Fault /\ UNCHANGED <<intent, claim, live>>
  /\ UNCHANGED <<mail, lease, leaseOver, calls, r2Vars, puts, sealed, late>>

-----------------------------------------------------------------------------
(* The promotion intent and the objects                                    *)

\* One call about the intent under a live claim; a lost answer may hide one
\* that was carried out.
IntentCall(w, from, to, state) ==
  /\ ipc[w] = from
  /\ \/ /\ LiveClaim(w) /\ NoFault /\ Moves(w, to)
        /\ intent' = [intent EXCEPT ![w].state = state]
     \/ ~LiveClaim(w) /\ NoFault /\ Moves(w, "undo") /\ UNCHANGED intent
     \/ /\ Fault /\ Moves(w, "undo")
        /\ intent' \in {intent, IF LiveClaim(w) THEN [intent EXCEPT ![w].state = state]
                                ELSE intent}
  /\ UNCHANGED <<mboxVars, lease, leaseOver, calls, r2Vars, puts, late>>

\* begin and the appended pages: the intent stays open until all keys are there.
BeginIntent(w) == IntentCall(w, "begin", "seal", "staging") /\ UNCHANGED sealed

SealIntent(w) ==
  /\ IntentCall(w, "seal", "renew", "recorded")
  /\ sealed' = IF ipc'[w] = "renew" THEN sealed \cup {w} ELSE sealed

\* The bucket's put: the claim may be lost while it is under way.
Put(w) ==
  LET o == <<w, puts[w] + 1>>
  IN /\ ipc[w] = "put"
     /\ \/ stored' = stored \cup {o} /\ Moves(w, "renew") /\ NoFault
        \/ stored' \in {stored, stored \cup {o}} /\ Moves(w, "undo") /\ Fault
     /\ puts' = [puts EXCEPT ![w] = @ + 1]
     /\ UNCHANGED <<mboxVars, intentVars, calls, rows, deleting, fenced, sealed, late>>

\* createEmail: the commitment must be live and sealed ...
Commitment(w) == LiveClaim(w) /\ intent[w].state = "recorded"

\* ... and none of the keys may have been given to the deletion outbox.
\* #adoptR2OwnershipSync
Adopts(ks) == ks \cap (deleting \cup fenced) = {}

\* A message that is there already is left alone.
Projected(w) ==
  /\ rows' = rows \ ObjectsOf(w)
  /\ mail' = IF mail = {} THEN {w} ELSE mail

Create(w) ==
  LET ok == Commitment(w) /\ Adopts(ObjectsOf(w))
  IN /\ ipc[w] = "create"
     /\ \/ ok /\ Projected(w) /\ Moves(w, "finalize") /\ NoFault
        \/ ~ok /\ Moves(w, "undo") /\ NoFault /\ UNCHANGED <<rows, mail>>
        \/ /\ Moves(w, "undo") /\ Fault
           /\ UNCHANGED <<rows, mail>> \/ (ok /\ Projected(w))
     /\ UNCHANGED <<claim, live, intentVars, calls, deleting, fenced, stored, puts, sealed,
                    late>>

\* Slip: the objects of a request that failed are not used.
UndoAlways(w) ==
  /\ ipc[w] = "undo" /\ Moves(w, IF w \in sealed THEN "finalize" ELSE "release")
  /\ DiscardsOf(w)
  /\ UNCHANGED <<mboxVars, intentVars, calls, rows, deleting, fenced, puts, sealed, late>>

\* removeUncommittedEmailObjects, then the finally block.
Undo(w) ==
  /\ ipc[w] = "undo" /\ Moves(w, IF w \in sealed THEN "finalize" ELSE "release")
  /\ IF mail = {} THEN DiscardsOf(w) ELSE UNCHANGED stored /\ NoFault
  /\ UNCHANGED <<mboxVars, intentVars, calls, rows, deleting, fenced, puts, sealed, late>>

\* The finalizer's passes are bounded; the alarm takes over from it.
FinalizeEnds(w) ==
  /\ ipc[w] = "finalize" /\ calls[w]["own"] = "none" /\ Moves(w, "done")
  /\ UNCHANGED <<mboxVars, intentVars, calls, r2Vars, puts, sealed, late, ifails>>

\* The worker ends; what it had asked for may still happen.
ImporterLost(w) ==
  /\ ipc[w] \notin {"claim", "done"} /\ Moves(w, "done") /\ Fault
  /\ late' \in {late, late \cup (IF ipc[w] = "put" THEN {<<w, puts[w] + 1>>}
                                 ELSE IF ipc[w] = "create" THEN {w} ELSE {})}
  /\ UNCHANGED <<mboxVars, intentVars, calls, r2Vars, puts, sealed>>

LatePut(o) ==
  /\ o \in late \cap Objects /\ late' = late \ {o} /\ stored' = stored \cup {o}
  /\ UNCHANGED <<mboxVars, intentVars, calls, rows, deleting, fenced, ipc, puts, sealed, ifails>>

LateCreate(w) ==
  /\ w \in late /\ late' = late \ {w}
  /\ IF Commitment(w) /\ Adopts(ObjectsOf(w)) THEN Projected(w)
     ELSE UNCHANGED <<rows, mail>>
  /\ UNCHANGED <<claim, live, intentVars, calls, deleting, fenced, stored, ipc, puts, sealed, ifails>>

-----------------------------------------------------------------------------
(* #reconcileImportedEmailPromotionIntent, one page per call               *)

\* When the alarm is due: a claim that is renewed puts the intent off.
Due(w) ==
  \/ intent[w].state = "abandoned_watching"
  \/ intent[w].state = "recorded" /\ (intent[w].closed \/ ~LiveClaim(w))
  \/ intent[w].state = "reconciling" /\ w \in leaseOver

\* The first transaction takes the lease; the writer closes the intent.
Take(w, a) ==
  /\ calls[w][a] = "none"
  /\ \/ a = "own" /\ ipc[w] = "finalize"
     \/ a = "alarm" /\ Due(w) /\ \A x \in Importers : calls[x]["alarm"] = "none"
  /\ intent[w].state \in Sealed
  /\ intent[w].state = "reconciling" => w \in leaseOver
  /\ intent' = [intent EXCEPT ![w].state = "reconciling", ![w].closed = @ \/ a = "own"]
  /\ lease' = [lease EXCEPT ![w] = a] /\ leaseOver' = leaseOver \ {w}
  /\ calls' = [calls EXCEPT ![w][a] = "head"]
  /\ UNCHANGED <<mboxVars, r2Vars, importerVars, ifails>>

\* headR2Object of the page's object
HeadObject(w, a) ==
  LET o == <<w, intent[w].cursor + 1>>
  IN /\ calls[w][a] = "head" /\ lease[w] = a /\ intent[w].phase = "validation"
     /\ calls' = [calls EXCEPT ![w][a] = IF o \in stored THEN "present" ELSE "missing"]
     /\ UNCHANGED <<mboxVars, intentVars, r2Vars, importerVars, ifails>>

\* Where an intent waits between two calls.
Resting(i) == IF i.closed THEN "recorded" ELSE "abandoned_watching"

\* An object of the message that is missing is an integrity failure.
Validated(w, present) ==
  LET i == intent[w]
      o == <<w, i.cursor + 1>>
      found == IF o \in Owned THEN "authoritative"
               ELSE IF present THEN "unowned_present" ELSE "absent"
  IN IF (o \in Owned /\ ~present) \/ (o \in Owned /\ ~Adopts({o}))
     THEN /\ intent' = [intent EXCEPT ![w].state = "integrity_blocked",
                          ![w].phase = "validation", ![w].cursor = 0]
          /\ UNCHANGED rows
     ELSE /\ intent' = [intent EXCEPT ![w] =
               [i EXCEPT !.state = Resting(i), !.seen[i.cursor + 1] = found,
                         !.phase = IF i.cursor + 1 = size THEN "settlement" ELSE @,
                         !.cursor = IF @ + 1 = size THEN 0 ELSE @ + 1]]
          /\ rows' = IF o \in Owned THEN rows \ {o} ELSE rows

\* Objects nobody owns are outboxed; an intent whose writer may still be
\* there is watched until every object is the message's.
Settled(w) ==
  LET i == intent[w]
      o == <<w, i.cursor + 1>>
      all == \A n \in Ordinals : i.seen[n] = "authoritative"
  IN /\ rows' = IF i.seen[i.cursor + 1] = "unowned_present" /\ o \notin Owned
                THEN rows \cup ({o} \ deleting) ELSE rows
     /\ IF i.cursor + 1 < size
        THEN /\ intent' = [intent EXCEPT ![w].state = Resting(i), ![w].cursor = @ + 1]
             /\ UNCHANGED <<claim, live>>
        ELSE IF ~i.closed /\ ~all
        THEN /\ intent' = [intent EXCEPT ![w] =
                  [NoIntent EXCEPT !.state = "abandoned_watching"]]
             /\ UNCHANGED <<claim, live>>
        ELSE /\ intent' = [intent EXCEPT ![w].state = "finalized"]
             /\ claim' = claim \ {w} /\ live' = (live /\ claim # {w})

\* The second transaction, unless the lease was lost meanwhile.
Apply(w, a) ==
  /\ calls[w][a] # "none"
  /\ calls' = [calls EXCEPT ![w][a] = "none"]
  /\ IF lease[w] # a
     THEN UNCHANGED <<intentVars, rows, claim, live>>
     ELSE /\ lease' = [lease EXCEPT ![w] = "none"] /\ leaseOver' = leaseOver \ {w}
          /\ IF intent[w].phase = "validation"
             THEN /\ calls[w][a] # "head" /\ Validated(w, calls[w][a] = "present")
                  /\ UNCHANGED <<claim, live>>
             ELSE Settled(w)
  /\ UNCHANGED <<mail, deleting, fenced, stored, importerVars, ifails>>

\* The mailbox is evicted between the two transactions.
CallLost(w, a) ==
  /\ calls[w][a] # "none" /\ Fault /\ calls' = [calls EXCEPT ![w][a] = "none"]
  /\ UNCHANGED <<mboxVars, intentVars, r2Vars, importerVars>>

\* The holder is gone, or it takes too long.
LeaseExpires(w) ==
  /\ lease[w] # "none" /\ w \notin leaseOver /\ leaseOver' = leaseOver \cup {w}
  /\ IF calls[w][lease[w]] = "none" THEN NoFault ELSE Fault
  /\ UNCHANGED <<mboxVars, intent, lease, calls, r2Vars, importerVars>>

-----------------------------------------------------------------------------
(* The alarm and the mailbox's user                                        *)

\* Fifteen minutes after the last renewal.
ClaimExpires ==
  /\ claim # {} /\ live /\ live' = FALSE
  /\ IF \A w \in claim : ipc[w] = "done" THEN NoFault ELSE Fault
  /\ UNCHANGED <<mail, claim, intentVars, calls, r2Vars, importerVars>>

\* #processImportPromotionIntents: claims that have expired.
SweepImportClaims ==
  /\ claim # {} /\ ~live /\ Abandon(claim)
  /\ claim' = {w \in claim : intent[w].state = "integrity_blocked"}
  /\ UNCHANGED <<mail, live, calls, r2Vars, importerVars, ifails>>

\* The deletion outbox: the keys it claims are fenced, then deleted.
ClaimDeletion(o) ==
  /\ o \in rows /\ rows' = rows \ {o}
  /\ IF o \in Owned THEN UNCHANGED <<deleting, fenced>>
     ELSE deleting' = deleting \cup {o} /\ fenced' = fenced \cup {o}
  /\ UNCHANGED <<mboxVars, intentVars, calls, stored, importerVars, ifails>>

DeleteObject(o) ==
  /\ o \in deleting /\ deleting' = deleting \ {o} /\ stored' = stored \ {o}
  /\ UNCHANGED <<mboxVars, intentVars, calls, rows, fenced, importerVars, ifails>>

\* deleteEmail: the message is gone, its objects go to the deletion outbox.
DeleteEmail ==
  /\ mail # {} /\ mail' = {} /\ rows' = rows \cup Owned
  /\ UNCHANGED <<claim, live, intentVars, calls, deleting, fenced, stored,
                 importerVars, ifails>>

ImporterStep(w) ==
  \/ ClaimImportedEmail(w) \/ Renew(w) \/ BeginIntent(w) \/ SealIntent(w)
  \/ Put(w) \/ Create(w) \/ Undo(w) \/ FinalizeEnds(w) \/ Release(w)

ImportNext ==
  /\ UNCHANGED size
  /\ \/ \E w \in Importers :
          \/ ImporterStep(w) \/ ImporterLost(w) \/ LateCreate(w) \/ LeaseExpires(w)
          \/ \E a \in {"own", "alarm"} :
               Take(w, a) \/ HeadObject(w, a) \/ Apply(w, a) \/ CallLost(w, a)
     \/ \E o \in Objects : LatePut(o) \/ ClaimDeletion(o) \/ DeleteObject(o)
     \/ ClaimExpires \/ SweepImportClaims \/ DeleteEmail

ImportSpec == ImportInit /\ [][ImportNext]_importVars

-----------------------------------------------------------------------------
(* Properties                                                              *)

\* Every attachment of an imported message is in R2 and not on its way out,
\* although requests give up their objects and abandoned intents are swept.
ImportedIsStored == Owned \subseteq stored /\ Owned \cap deleting = {}

\* An object that no message has is somebody's to remove: its request is at
\* it, its intent will be reconciled again, or the outbox has it.  The one
\* that escapes was put between a reconciliation that found its key absent
\* and the writer closing the intent.
StraysAreWatched ==
  \A o \in stored \ Owned :
    \/ ipc[o[1]] # "done" \/ intent[o[1]].state \in Sealed
    \/ o \in rows \cup deleting
    \/ intent[o[1]].closed /\ intent[o[1]].seen[o[2]] = "absent"

\* Both, with the types of what they speak of.
ImportObjectsAreSafe == ImportTypeOK /\ ImportedIsStored /\ StraysAreWatched

-----------------------------------------------------------------------------
(* Why they hold: an inductive invariant                                   *)

Fresh(w) == ipc[w] \in {"claim", "begin", "seal"} \/ (ipc[w] = "renew" /\ w \notin sealed)
AtWork(w) == ipc[w] \in {"renew", "begin", "seal", "put", "create"}

\* No call of the request puts or projects anything, now or later.
IsPast(w) ==
  /\ ipc[w] \in {"undo", "finalize", "done"} /\ w \in sealed
  /\ w \notin late /\ \A i \in Ordinals : <<w, i>> \notin late

\* The object has been put, or never will be.
IsPut(w, i) ==
  /\ <<w, i>> \notin late
  /\ ipc[w] = "claim" \/ AtWork(w) => i <= puts[w]

Tracked(o) == o \in stored => o \in Owned \cup rows \cup deleting

\* Where a request is says what it has done; a call that may still be carried
\* out is of a request that ended before it closed its intent.
RequestInv(w) ==
  /\ Fresh(w) => /\ w \notin sealed /\ puts[w] = 0
                 /\ intent[w] \in {NoIntent, [NoIntent EXCEPT !.state = "staging"]}
  /\ ipc[w] = "put" => w \in sealed /\ puts[w] < size
  /\ ipc[w] = "create" => w \in sealed /\ puts[w] = size
  /\ w \in late => ipc[w] = "done" /\ w \in sealed /\ puts[w] = size /\ ~intent[w].closed
  /\ \A i \in Ordinals : <<w, i>> \in late =>
       ipc[w] = "done" /\ w \in sealed /\ i = puts[w] + 1 /\ ~intent[w].closed
  /\ intent[w].closed => ipc[w] \in {"finalize", "done"}
  /\ w \in sealed => intent[w].state \in Sealed \cup {"finalized"}

\* What a request has put is there until the outbox fences it; the message's
\* objects are not fenced, and their request has nothing left to undo.
ObjectInv(w) ==
  /\ AtWork(w) \/ w \in late => \A i \in 1..puts[w] : <<w, i>> \in stored \cup fenced
  /\ w \in mail => IsPast(w) /\ ObjectsOf(w) \subseteq stored \ fenced
  /\ \A i \in Ordinals : <<w, i>> \in stored => w \in sealed /\ IsPut(w, i)

\* What a reconciliation has seen: objects it found are not put again, and
\* those it has settled are the message's or on their way out.
SeenInv(w) ==
  LET n == intent[w]
  IN /\ n.state # "integrity_blocked"
     /\ n.state = "recorded" /\ ~n.closed => n.phase = "validation"
     /\ \A i \in Ordinals :
          /\ n.phase = "settlement" \/ i <= n.cursor => n.seen[i] # "unseen"
          /\ n.seen[i] = "authoritative" => IsPast(w) /\ Tracked(<<w, i>>)
          /\ n.seen[i] = "unowned_present" =>
               /\ IsPut(w, i)
               /\ n.phase = "settlement" /\ (i <= n.cursor \/ n.state = "finalized") =>
                    Tracked(<<w, i>>)
     /\ n.state = "finalized" =>
          /\ n.phase = "settlement"
          /\ n.closed \/ \A i \in Ordinals : n.seen[i] = "authoritative"

\* The call that holds the lease has seen what still is so.
CallInv(w) ==
  /\ lease[w] # "none" => intent[w].state = "reconciling"
  /\ \A a \in {"own", "alarm"} :
       lease[w] = a =>
         /\ calls[w][a] = "present" => IsPut(w, intent[w].cursor + 1)
         /\ calls[w][a] = "missing" => w \notin mail
         /\ calls[w][a] \in {"present", "missing"} => intent[w].phase = "validation"

ImportInv ==
  /\ ImportTypeOK /\ deleting \subseteq fenced
  /\ \A w \in Importers : RequestInv(w) /\ ObjectInv(w) /\ SeenInv(w) /\ CallInv(w)
=============================================================================
