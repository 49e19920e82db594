------------------------------ MODULE BulkSend ------------------------------
(***************************************************************************)
(* Bulk send: one message to many recipients, with an attachment.          *)
(*                                                                         *)
(* A submission reserves its operation, then enqueues it, which creates a  *)
(* job.  Every pass of the mailbox's alarm copies the uploads of one new   *)
(* job, runs one cleanup, and hands one recipient of the first job to the  *)
(* outbound ledger, with a copy of the attachment of its own.  A pass may  *)
(* stop between any two steps, and is then simply run again; requests and  *)
(* the outbound lane go on beside it.                                      *)
(*                                                                         *)
(*   workers/durableObject/index.ts        the bulk part of the mailbox    *)
(*   workers/lib/bulk-job-admission.ts     reservations and admissions     *)
(*   workers/lib/bulk-cleanup-intent.ts    cleanup intents                 *)
(***************************************************************************)
EXTENDS Integers, Sequences, SequencesExt, FiniteSets

CONSTANTS
  Ops,             \* operations, each with its job
  Rows,            \* recipients of a job at most, maxRecipients
  MaxOutstanding,  \* maxOutstandingRecipients
  MaxActive,       \* maxActiveJobs
  MaxFails         \* bound on stopped and failed passes

ASSUME BulkAssumption ==
  /\ IsFiniteSet(Ops) /\ Rows \in Nat \ {0}
  /\ MaxOutstanding \in Nat /\ MaxActive \in Nat /\ MaxFails \in Nat

VARIABLES
  resv,     \* reservations
  adm,      \* bulk:admission
  job,      \* bulk:job
  queue,    \* bulk:queue
  active,   \* bulk:active
  age,      \* 0 below ten minutes, 1 above, 2 above twenty
  prep,     \* bulk:recipient-preparation: its message, for the job's cursor
  messages, \* messages prepared so far, by job
  deliv,    \* the deliveries of the ledger, by job and recipient
  cleanups, \* bulk:attachment-cleanup
  objs,     \* objects in R2
  slow,     \* puts that were cut off and may still land
  stray,    \* history, read by no guard: objects whose put landed too late
  members,  \* operations whose sender may still use the mailbox
  run,      \* the pass of the alarm
  fails     \* passes stopped so far

bulkVars == <<resv, adm, job, queue, active, age, prep, messages, deliv, cleanups, objs, slow,
              stray, members, run, fails>>

Upload(o) == [kind |-> "upload", op |-> o, msg |-> 0]
JobCopy(o) == [kind |-> "job", op |-> o, msg |-> 0]
RowCopy(o, n) == [kind |-> "row", op |-> o, msg |-> n]

\* A cleanup intent names one object; "guard" is what protects it.
Intent(key, due) == [key |-> key, due |-> due]

NoJob == [status |-> "none", total |-> 0, cursor |-> 0, enqueued |-> 0, failed |-> 0]
NoDelivery == [state |-> "none", msg |-> 0]
Idle == [pc |-> "idle", op |-> {}, cleanup |-> {}]

Ended == {"done", "failed", "cancelled"}

CopyKeys == [kind : {"upload", "job", "row"}, op : Ops, msg : Nat]

BulkDeliveries == [state : {"none", "open", "settled"}, msg : Nat]

BulkJobs ==
  [status : Ended \cup {"none", "preparing", "queued", "running"},
   total : 0..Rows, cursor : 0..Rows, enqueued : 0..Rows, failed : 0..Rows]

BulkTypeOK ==
  /\ resv \subseteq Ops /\ active \subseteq Ops /\ members \subseteq Ops
  /\ adm \in [Ops -> {"none", "preparing", "queued", "failed"}]
  /\ job \in [Ops -> BulkJobs] /\ queue \in Seq(Ops) /\ age \in [Ops -> 0..2]
  /\ prep \in [Ops -> Nat] /\ messages \in [Ops -> Nat]
  /\ deliv \in [Ops -> [1..Rows -> BulkDeliveries]]
  /\ cleanups \subseteq [key : CopyKeys, due : BOOLEAN]
  /\ objs \cup slow \cup stray \subseteq CopyKeys
  /\ run \in [pc : {"idle", "prepare", "copied", "cleanup", "delete", "head", "row", "copy",
                    "enqueue", "queued", "refused"},
              op : SUBSET Ops, cleanup : SUBSET cleanups]
  /\ fails \in 0..MaxFails

BulkInit ==
  /\ resv = {} /\ adm = [o \in Ops |-> "none"]
  /\ job = [o \in Ops |-> NoJob] /\ queue = <<>> /\ active = {}
  /\ age = [o \in Ops |-> 0] /\ prep = [o \in Ops |-> 0] /\ messages = [o \in Ops |-> 0]
  /\ deliv = [o \in Ops |-> [r \in 1..Rows |-> NoDelivery]]
  /\ cleanups = {} /\ objs = {} /\ slow = {} /\ stray = {} /\ members = Ops
  /\ run = Idle /\ fails = 0

\* The recipients a job has not come to, and those in the ledger.
Waiting ==
  {w \in Ops \X (1..Rows) :
     w[1] \in active /\ job[w[1]].cursor < w[2] /\ w[2] <= job[w[1]].total}
Open == {w \in Ops \X (1..Rows) : deliv[w[1]][w[2]].state = "open"}

\* Slip: what has gone to the ledger is off the books.
OutstandingUnsent == Cardinality(Waiting)

\* #bulkOutstandingRecipientCountSync
Outstanding == Cardinality(Waiting) + Cardinality(Open)

\* #markBulkCleanupDueSync, for every intent of these objects
MarkedDue(is, keys) == {IF i.key \in keys THEN [i EXCEPT !.due = TRUE] ELSE i : i \in is}

-----------------------------------------------------------------------------
(* Requests                                                                *)

\* An operation that was admitted is answered from its admission.
ReserveBulkOperation(o) ==
  /\ adm[o] = "none" /\ o \notin resv /\ resv' = resv \cup {o}
  /\ UNCHANGED <<adm, job, queue, active, age, prep, messages, deliv, cleanups, objs, slow,
                 stray, members, run, fails>>

\* cancelBulkReservation, or its ten minutes are over
EndReservation(o) ==
  /\ o \in resv /\ resv' = resv \ {o}
  /\ UNCHANGED <<adm, job, queue, active, age, prep, messages, deliv, cleanups, objs, slow,
                 stray, members, run, fails>>

\* enqueueBulkJob; one that is repeated finds its admission and changes nothing,
\* one that is refused for want of room has to be reserved again.
EnqueueBulkJob(o, n) ==
  /\ o \in resv /\ resv' = resv \ {o}
  /\ IF Cardinality(active) >= MaxActive \/ Outstanding + n > MaxOutstanding
     THEN UNCHANGED <<adm, job, active, cleanups, objs>>
     ELSE /\ adm' = [adm EXCEPT ![o] = "preparing"]
          /\ job' = [job EXCEPT ![o].status = "preparing", ![o].total = n]
          /\ active' = active \cup {o}
          /\ cleanups' = cleanups \cup {Intent(JobCopy(o), FALSE)}
          /\ objs' = objs \cup {Upload(o)}
  /\ UNCHANGED <<queue, age, prep, messages, deliv, slow, stray, members, run, fails>>

\* The outbound lane is done with a recipient, in whatever way.
DeliverySettles(o, r) ==
  /\ deliv[o][r].state = "open" /\ deliv' = [deliv EXCEPT ![o][r].state = "settled"]
  /\ UNCHANGED <<resv, adm, job, queue, active, age, prep, messages, cleanups, objs, slow,
                 stray, members, run, fails>>

\* and its user has a failed one sent again: #assertBulkRetryCapacitySync.
RetryDelivery(o, r) ==
  /\ deliv[o][r].state = "settled" /\ Outstanding < MaxOutstanding
  /\ deliv' = [deliv EXCEPT ![o][r].state = "open"]
  /\ UNCHANGED <<resv, adm, job, queue, active, age, prep, messages, cleanups, objs, slow,
                 stray, members, run, fails>>

\* The sender's access to the mailbox ends.
RevokeMember(o) ==
  /\ o \in members /\ adm[o] # "none" /\ members' = members \ {o}
  /\ UNCHANGED <<resv, adm, job, queue, active, age, prep, messages, deliv, cleanups, objs, slow,
                 stray, run, fails>>

\* Ten minutes since the job was created, then twenty.  A pass that began in
\* time may take longer than either.
GrowsOlder(o) ==
  /\ adm[o] # "none" /\ age[o] < 2
  /\ age' = [age EXCEPT ![o] = @ + 1]
  /\ UNCHANGED <<resv, adm, job, queue, active, prep, messages, deliv, cleanups, objs, slow,
                 stray, members, run, fails>>

\* An intent's time comes.
FallsDue(i) ==
  /\ ~i.due
  /\ i.key.kind = "job" => age[i.key.op] >= 1
  /\ cleanups' = (cleanups \ {i}) \cup {[i EXCEPT !.due = TRUE]}
  /\ UNCHANGED <<resv, adm, job, queue, active, age, prep, messages, deliv, objs, slow,
                 stray, members, run, fails>>

-----------------------------------------------------------------------------
(* The pass: preparing a job                                               *)

Step(pc, ops) == run' = [Idle EXCEPT !.pc = pc, !.op = ops]

\* #expireBulkPreparationsSync opens a pass.
StartPass ==
  LET late == {o \in active : job[o].status = "preparing" /\ age[o] >= 1}
  IN /\ run.pc = "idle" /\ Step("prepare", {})
     /\ adm' = [o \in Ops |-> IF o \in late THEN "failed" ELSE adm[o]]
     /\ job' = [o \in Ops |-> IF o \in late THEN [job[o] EXCEPT !.status = "failed"] ELSE job[o]]
     /\ active' = active \ late
     /\ cleanups' = MarkedDue(cleanups, {JobCopy(o) : o \in late})
                      \cup {Intent(Upload(o), TRUE) : o \in late}
     /\ UNCHANGED <<resv, queue, age, prep, messages, deliv, objs, slow, stray, members,
                    fails>>

\* #processBulkAdmissionPreparation reads the upload; its put of the job's copy
\* is done.
CopyUpload(o) ==
  /\ run.pc = "prepare" /\ o \in active /\ adm[o] = "preparing"
  /\ Step("copied", {o}) /\ objs' = objs \cup {JobCopy(o)}
  /\ UNCHANGED <<resv, adm, job, queue, active, age, prep, messages, deliv, cleanups, slow,
                 stray, members, fails>>

\* It then puts the job in the queue; the upload is left for later.
CommitPreparation(o) ==
  /\ run.pc = "copied" /\ o \in run.op /\ adm[o] = "preparing"
  /\ Step("cleanup", {})
  /\ adm' = [adm EXCEPT ![o] = "queued"] /\ job' = [job EXCEPT ![o].status = "queued"]
  /\ queue' = Append(queue, o)
  /\ cleanups' = cleanups \cup {Intent(Upload(o), FALSE)}
  /\ UNCHANGED <<resv, active, age, prep, messages, deliv, objs, slow, stray, members,
                 fails>>

\* A put gets no answer: it may land later, or not at all.
CutOff(keys) == slow' = slow \/ \E k \in keys : slow' = slow \cup {k}

\* Anything that goes wrong with the bytes is final, a put without an answer too.
FailPreparation(o) ==
  /\ \/ run.pc = "prepare" /\ o \in active /\ CutOff({JobCopy(o)})
     \/ run.pc = "copied" /\ o \in run.op /\ UNCHANGED slow
  /\ adm[o] = "preparing" /\ Step("cleanup", {})
  /\ adm' = [adm EXCEPT ![o] = "failed"] /\ job' = [job EXCEPT ![o].status = "failed"]
  /\ active' = active \ {o}
  /\ cleanups' = MarkedDue(cleanups, {JobCopy(o)}) \cup {Intent(Upload(o), FALSE)}
  /\ UNCHANGED <<resv, queue, age, prep, messages, deliv, objs, stray, members, fails>>

NothingToPrepare ==
  /\ run.pc = "prepare" /\ \A o \in active : adm[o] # "preparing"
  /\ Step("cleanup", {})
  /\ UNCHANGED <<resv, adm, job, queue, active, age, prep, messages, deliv, cleanups, objs,
                 slow, stray, members, fails>>

-----------------------------------------------------------------------------
(* The pass: one cleanup                                                   *)

\* A job's copy while the job needs it; a recipient's while it is prepared.
Protected(k) ==
  \/ k.kind = "job" /\ (adm[k.op] = "preparing" \/ job[k.op].status \in {"queued", "running"})
  \/ k.kind = "row" /\ prep[k.op] = k.msg /\ job[k.op].status \in {"queued", "running"}

\* The ledger has taken the message over.
Delivered(k) == k.kind = "row" /\ \E r \in 1..Rows : deliv[k.op][r].msg = k.msg

\* #processBulkAttachmentCleanup claims an intent that is due.
ClaimCleanup(i) ==
  /\ run.pc = "cleanup" /\ i \in cleanups /\ i.due
  /\ IF Protected(i.key)
     THEN cleanups' = (cleanups \ {i}) \cup {[i EXCEPT !.due = FALSE]} /\ Step("head", {})
     ELSE IF Delivered(i.key)
     THEN cleanups' = cleanups \ {i} /\ Step("head", {})
     ELSE /\ UNCHANGED cleanups
          /\ run' = [Idle EXCEPT !.pc = "delete", !.cleanup = {i}]
  /\ UNCHANGED <<resv, adm, job, queue, active, age, prep, messages, deliv, objs, slow,
                 stray, members, fails>>

NothingToClean ==
  /\ run.pc = "cleanup" /\ \A i \in cleanups : ~i.due
  /\ Step("head", {})
  /\ UNCHANGED <<resv, adm, job, queue, active, age, prep, messages, deliv, cleanups, objs,
                 slow, stray, members, fails>>

\* A job's copy is deleted again at twenty minutes, for writers that come late;
\* a recipient's is not.
Deleted(i) ==
  cleanups' = IF i.key.kind = "job" /\ age[i.key.op] < 2
              THEN (cleanups \ {i}) \cup {[i EXCEPT !.due = FALSE]} ELSE cleanups \ {i}

DeleteCopy(i) ==
  /\ run.pc = "delete" /\ i \in run.cleanup /\ Step("head", {})
  /\ \/ objs' = objs \ {i.key} /\ stray' = stray \ {i.key} /\ Deleted(i)
     \/ /\ UNCHANGED <<objs, stray>> /\ fails < MaxFails       \* R2 failed: retry
        /\ cleanups' = (cleanups \ {i}) \cup {[i EXCEPT !.due = FALSE]}
  /\ fails' = IF objs' = objs /\ i.key \in objs THEN fails + 1 ELSE fails
  /\ UNCHANGED <<resv, adm, job, queue, active, age, prep, messages, deliv, slow, members>>

-----------------------------------------------------------------------------
(* The pass: one recipient                                                 *)

\* #commitBulkTerminalSync; a job is in the queue once at most.
EndJob(o, j) ==
  /\ job' = [job EXCEPT ![o] = j]
  /\ queue' = RemoveFirst(queue, o) /\ active' = active \ {o}
  /\ cleanups' = MarkedDue(cleanups, {JobCopy(o), RowCopy(o, prep[o])})
  /\ prep' = [prep EXCEPT ![o] = 0]

\* The first job of the queue; its sender's access is asked for.
TakeHead ==
  /\ run.pc = "head"
  /\ IF queue = <<>>
     THEN Step("idle", {}) /\ UNCHANGED <<job, queue, active, cleanups, prep>>
     ELSE LET o == Head(queue)
          IN IF o \in members
             THEN /\ Step("row", {o})
                  /\ UNCHANGED <<job, queue, active, cleanups, prep>>
             ELSE /\ EndJob(o, [job[o] EXCEPT !.status = "cancelled"])
                  /\ Step("idle", {})
  /\ UNCHANGED <<resv, adm, age, messages, deliv, objs, slow, stray, members, fails>>

Row(o) == job[o].cursor + 1

\* getOutboundDeliveryByIdempotencyKey
InLedger(o) == deliv[o][Row(o)].state # "none"

Known(o) == Step("queued", {o})

\* A recipient an earlier pass gave to the ledger is only counted; any other
\* is prepared, or its preparation is taken up again.
PrepareRow(o) ==
  LET n == messages[o] + 1
  IN /\ run.pc = "row" /\ o \in run.op
     /\ IF InLedger(o)
        THEN Known(o) /\ UNCHANGED <<prep, messages, cleanups>>
        ELSE /\ Step("copy", {o})
             /\ IF prep[o] # 0 THEN UNCHANGED <<prep, messages, cleanups>>
                ELSE /\ prep' = [prep EXCEPT ![o] = n]
                     /\ messages' = [messages EXCEPT ![o] = n]
                     /\ cleanups' = cleanups \cup {Intent(RowCopy(o, n), FALSE)}
     /\ UNCHANGED <<resv, adm, job, queue, active, age, deliv, objs, slow, stray, members,
                    fails>>

\* Slip: a preparation taken up again has its bytes.
CopiesNew(o) == IF fails > 0 THEN UNCHANGED objs ELSE objs' = objs \cup {RowCopy(o, prep[o])}

Copies(o) == objs' = objs \cup {RowCopy(o, prep[o])}

\* The recipient's copy of the job's copy
CopyForRow(o) ==
  /\ run.pc = "copy" /\ o \in run.op
  /\ IF JobCopy(o) \in objs THEN Copies(o) /\ Step("enqueue", {o})
     ELSE UNCHANGED objs /\ Step("refused", {o})
  /\ UNCHANGED <<resv, adm, job, queue, active, age, prep, messages, deliv, cleanups, slow,
                 stray, members, fails>>

\* #enqueueOutboundInternal and #finishBulkRecipientPreparationSync, in one
\* transaction; the ledger may refuse for good.
EnqueueRow(o) ==
  /\ run.pc = "enqueue" /\ o \in run.op
  /\ \/ /\ deliv' = [deliv EXCEPT ![o][Row(o)] = [state |-> "open", msg |-> prep[o]]]
        /\ cleanups' = {i \in cleanups : i.key # RowCopy(o, prep[o])}
        /\ prep' = [prep EXCEPT ![o] = 0]
        /\ Step("queued", {o})
     \/ UNCHANGED <<deliv, cleanups, prep>> /\ Step("refused", {o})
  /\ UNCHANGED <<resv, adm, job, queue, active, age, messages, objs, slow, stray, members,
                 fails>>

\* What a recipient was refused for is final: its preparation is given up,
Refuse(o) ==
  /\ run.pc = "refused" /\ o \in run.op /\ prep[o] # 0
  /\ cleanups' = MarkedDue(cleanups, {RowCopy(o, prep[o])})
  /\ prep' = [prep EXCEPT ![o] = 0]
  /\ UNCHANGED <<resv, adm, job, queue, active, age, messages, deliv, objs, slow, stray,
                 members, run, fails>>

\* and then the job moves on, in a write of its own.
Advance(o) ==
  LET j == [job[o] EXCEPT !.cursor = @ + 1, !.status = "running",
                          !.enqueued = @ + (IF run.pc = "queued" THEN 1 ELSE 0),
                          !.failed = @ + (IF run.pc = "refused" THEN 1 ELSE 0)]
  IN /\ o \in run.op /\ (run.pc = "queued" \/ (run.pc = "refused" /\ prep[o] = 0))
     /\ Step("idle", {})
     /\ IF j.cursor = j.total THEN EndJob(o, [j EXCEPT !.status = "done"])
        ELSE job' = [job EXCEPT ![o] = j] /\ UNCHANGED <<queue, active, cleanups, prep>>
     /\ UNCHANGED <<resv, adm, age, messages, deliv, objs, slow, stray, members, fails>>

-----------------------------------------------------------------------------
(* The pass stops                                                          *)

\* The puts of a pass at its present step.
PutsUnderWay ==
  CASE run.pc = "prepare" -> {JobCopy(o) : o \in {p \in active : adm[p] = "preparing"}}
    [] run.pc = "copy" -> {RowCopy(o, prep[o]) : o \in {p \in run.op : JobCopy(p) \in objs}}
    [] OTHER -> {}

\* An eviction, or an error nothing is known about: the alarm runs again.
PassStops ==
  /\ run.pc # "idle" /\ fails < MaxFails /\ fails' = fails + 1 /\ run' = Idle
  /\ CutOff(PutsUnderWay)
  /\ UNCHANGED <<resv, adm, job, queue, active, age, prep, messages, deliv, cleanups, objs,
                 stray, members>>

Named(k) == \E i \in cleanups : i.key = k

\* The object is needed, or its second cleanup is still to come.
InTime(k) == Protected(k) \/ Delivered(k) \/ (k.kind = "job" /\ age[k.op] < 2)

SlowPut(k) ==
  /\ k \in slow /\ slow' = slow \ {k} /\ objs' = objs \cup {k}
  /\ stray' = IF InTime(k) \/ Named(k) THEN stray ELSE stray \cup {k}
  /\ UNCHANGED <<resv, adm, job, queue, active, age, prep, messages, deliv, cleanups,
                 members, run, fails>>

PassStep ==
  \/ StartPass \/ NothingToPrepare \/ NothingToClean \/ TakeHead
  \/ \E i \in cleanups : ClaimCleanup(i) \/ DeleteCopy(i)
  \/ \E o \in Ops :
       \/ CopyUpload(o) \/ CommitPreparation(o) \/ FailPreparation(o)
       \/ PrepareRow(o) \/ CopyForRow(o) \/ EnqueueRow(o) \/ Refuse(o) \/ Advance(o)

BulkNext ==
  \/ PassStep \/ PassStops
  \/ \E k \in slow : SlowPut(k)
  \/ \E i \in cleanups : FallsDue(i)
  \/ \E o \in Ops :
       \/ ReserveBulkOperation(o) \/ EndReservation(o)
       \/ \E n \in 1..Rows : EnqueueBulkJob(o, n)
       \/ RevokeMember(o) \/ GrowsOlder(o)
       \/ \E r \in 1..Rows : DeliverySettles(o, r) \/ RetryDelivery(o, r)

BulkSpec == BulkInit /\ [][BulkNext]_bulkVars

-----------------------------------------------------------------------------
(* Properties                                                              *)

\* A recipient's message in the ledger has its attachment, wherever earlier
\* passes stopped and whatever has been cleaned up.
RowsHaveBytes ==
  \A o \in Ops : \A r \in 1..Rows :
    deliv[o][r].state # "none" => RowCopy(o, deliv[o][r].msg) \in objs

\* A job that is still sending has its attachment, whenever its cleanup runs.
JobsHaveBytes ==
  \A o \in Ops : job[o].status \in {"queued", "running"} => JobCopy(o) \in objs

\* Every copy belongs to a message in the ledger or is named by a cleanup
\* intent, unless its own put, cut off, landed too late: a job's after the job
\* was given up and its twenty minutes were over, a recipient's, for which the
\* code keeps no second look, after its preparation was given up.
CopiesAreTracked ==
  \A k \in objs : k.kind # "upload" => Delivered(k) \/ Named(k) \/ k \in stray

\* The job says what became of its recipients: each it counts as enqueued is
\* in the ledger, each it counts as failed is not, and none is counted twice.
CountsAreTrue ==
  \A o \in Ops :
    /\ job[o].enqueued = Cardinality({r \in 1..job[o].cursor : deliv[o][r].state # "none"})
    /\ job[o].enqueued + job[o].failed = job[o].cursor

\* The recipients a mailbox has yet to serve never exceed its limit, with new
\* jobs and retries of old recipients taken together.
Unserved ==
  {w \in Ops \X (1..Rows) :
     \/ deliv[w[1]][w[2]].state = "open"
     \/ w \in Waiting /\ deliv[w[1]][w[2]].state = "none"}
OutstandingIsBounded == Cardinality(Unserved) <= MaxOutstanding

\* A recipient's message in the ledger, and a job that is still sending, have
\* their attachment; every copy belongs to a message or is named by a cleanup
\* intent, but for puts that land after their cleanup's time.
BulkCopiesAreSafe == BulkTypeOK /\ RowsHaveBytes /\ JobsHaveBytes /\ CopiesAreTracked

\* A job's counters are what became of its recipients, and the recipients to
\* be served never exceed the limit.
BulkIsAccounted == CountsAreTrue /\ OutstandingIsBounded

=============================================================================
