--------------------------- MODULE SemanticIndex ---------------------------
(***************************************************************************)
(* The semantic index of a mailbox.                                        *)
(*                                                                         *)
(* Eligible messages and their attachments are projected into sources,     *)
(* each under a fresh token; a trigger turns the coming and going of a     *)
(* source into a job, and jobs into mutations of an external vector index  *)
(* that become visible in their own time.  Turns of the mailbox's alarm do *)
(* all of that: they extract one attachment, project a page of messages    *)
(* (a backfill first, then the log of changes), observe what has become    *)
(* visible, and send jobs.  Other requests run while a turn awaits: mail   *)
(* arrives, changes, moves and goes, operators rebuild, searches find that *)
(* an attachment is no longer the object that was read.                    *)
(*                                                                         *)
(*   workers/lib/semantic-index.ts               projection and jobs       *)
(*   workers/lib/semantic-index-runtime.ts       a turn                    *)
(*   workers/lib/semantic-attachment-runtime.ts  extraction                *)
(*   workers/durableObject/migrations.ts         the triggers              *)
(*   workers/durableObject/index.ts              the alarm, rebuild        *)
(***************************************************************************)
EXTENDS Naturals, FiniteSets

CONSTANTS
  N,           \* messages, in the order of the backfill
  Files,       \* those with an attachment; a subset of 1..N
  Batches,     \* the sizes of a page of the backfill that are explored
  Tokens,      \* source tokens; a source has one chunk, its token its vector
  MaxJobTries, \* MAX_JOB_ATTEMPTS
  MaxEdits,    \* bound on what happens to the mail
  MaxFaults    \* bound on failed calls, evictions and lapsed leases

ASSUME IndexAssumption ==
  /\ N \in Nat /\ Files \subseteq 1..N /\ Batches \subseteq Nat \ {0}
  /\ MaxJobTries \in Nat \ {0} /\ MaxEdits \in Nat /\ MaxFaults \in Nat

Emails == 1..N

VARIABLES
  mail,      \* emails: where, and semantic_message_versions
  object,    \* the version of a message's attachment in R2; 0: missing
  behind,    \* messages changed after applied_change_sequence
  state,     \* semantic_projection_state
  source,    \* semantic_sources, by token
  jobs,      \* semantic_index_jobs, by token
  files,     \* semantic_attachment_extractions, by message
  visible, flying,  \* the vector index: vectors, mutations under way
  turn,      \* the turn of the alarm
  batch,     \* BACKFILL_BATCH, which never changes
  raced,     \* a rebuild hit the last page of a backfill
  edits, faults

mailVars == <<mail, object, edits>>
indexVars == <<visible, flying>>
semanticVars ==
  <<mailVars, behind, state, source, jobs, files, indexVars, turn, batch, raced, faults>>

NoState == [status |-> "none", cursor |-> 0, files |-> "none", fcursor |-> 0]
NewState == [status |-> "building", cursor |-> 0, files |-> "building", fcursor |-> 0]
NoSource == [of |-> 0, kind |-> "none", version |-> 0]
NoJob == [op |-> "none", state |-> "none", tries |-> 0, old |-> FALSE]
Pending(op) == [op |-> op, state |-> "pending", tries |-> 0, old |-> FALSE]
NoFile == [state |-> "none", tries |-> 0, old |-> FALSE]
Queued == [state |-> "pending", tries |-> 0, old |-> FALSE]
Idle == [pc |-> "idle", why |-> "none", todo |-> {}, page |-> {}, upto |-> 0, last |-> FALSE,
         snap |-> 0, since |-> {}, seen |-> {}, sends |-> {}, file |-> 0]

\* The awaits of a turn: between two of them no other request runs.
Awaits == {"idle", "read", "convert", "digest", "observe", "embed", "upsert", "delete"}
Waiting == turn.pc \in Awaits

IndexTypeOK ==
  /\ \A m \in Emails : mail[m].place \in {"in", "out", "gone"} /\ mail[m].version \in Nat
  /\ object \in [Emails -> Nat] /\ behind \subseteq Emails
  /\ state.status \in {"none", "building", "ready", "failed"}
  /\ \A t \in Tokens :
       /\ source[t].of \in 0..N /\ source[t].kind \in {"none", "text", "file"}
       /\ jobs[t].op \in {"none", "upsert", "delete"} /\ jobs[t].tries \in 0..MaxJobTries
       /\ jobs[t].state \in {"none", "pending", "processing", "submitted", "failed"}
  /\ \A m \in Emails : files[m].tries \in 0..MaxJobTries
  /\ visible \subseteq Tokens /\ flying \subseteq {"upsert", "delete"} \X Tokens
  /\ turn.pc \in Awaits \cup {"prepare", "page", "confirm", "lease"}

IndexInit ==
  /\ mail \in [Emails -> [place : {"in", "gone"}, version : {1}]]
  /\ object = [m \in Emails |-> 1] /\ behind = {} /\ state = NoState
  /\ source = [t \in Tokens |-> NoSource] /\ jobs = [t \in Tokens |-> NoJob]
  /\ files = [m \in Emails |-> NoFile]
  /\ visible = {} /\ flying = {} /\ turn = Idle /\ batch \in Batches
  /\ raced = FALSE /\ edits = 0 /\ faults = 0

In(m) == mail[m].place = "in"
Sources(S, kinds) == {t \in Tokens : source[t].of \in S /\ source[t].kind \in kinds}
Both == {"text", "file"}

\* A token nothing remembers stands for a fresh one.
Unused ==
  {t \in Tokens : source[t] = NoSource /\ jobs[t] = NoJob /\ t \notin visible
                  /\ \A op \in {"upsert", "delete"} : <<op, t>> \notin flying \cup turn.sends}

\* Sources are deleted and one may be inserted: the triggers enqueue the jobs.
Rewrite(gone, new, s) ==
  /\ source' = [t \in Tokens |-> IF t \in new THEN s ELSE IF t \in gone THEN NoSource
                                 ELSE source[t]]
  /\ jobs' = [t \in Tokens |-> IF t \in new THEN Pending("upsert")
                               ELSE IF t \in gone THEN Pending("delete") ELSE jobs[t]]
Dropped(gone) == Rewrite(gone, {}, NoSource)

Forget(S) == [m \in Emails |-> IF m \in S THEN NoFile ELSE files[m]]

-----------------------------------------------------------------------------
(* The mail                                                                *)

\* A change of a message enters the log behind whatever the turn has read.
Changed(m) ==
  /\ Waiting /\ edits < MaxEdits /\ edits' = edits + 1
  /\ behind' = behind \cup {m}
  /\ turn' = IF turn.why \in {"replay", "again"} THEN [turn EXCEPT !.since = @ \cup {m}] ELSE turn
  /\ UNCHANGED <<state, indexVars, raced, faults>>

Arrive(m) ==
  /\ mail[m].place = "gone" /\ Changed(m)
  /\ mail' = [mail EXCEPT ![m] = [place |-> "in", version |-> 1]]
  /\ object' = [object EXCEPT ![m] = 1]
  /\ UNCHANGED <<source, jobs, files>>

\* semantic_message_version_content_update, ..._on_message_content_change
Edit(m) ==
  /\ mail[m].place # "gone" /\ Changed(m)
  /\ mail' = [mail EXCEPT ![m].version = @ + 1] /\ UNCHANGED <<object, files>>
  /\ Dropped(Sources({m}, {"text"}))

\* semantic_sources_invalidate_on_excluded_folder; back again
Exclude(m) ==
  /\ In(m) /\ Changed(m) /\ mail' = [mail EXCEPT ![m].place = "out"] /\ UNCHANGED object
  /\ Dropped(Sources({m}, Both)) /\ files' = Forget({m})
Restore(m) ==
  /\ mail[m].place = "out" /\ Changed(m) /\ mail' = [mail EXCEPT ![m].place = "in"]
  /\ UNCHANGED <<object, source, jobs, files>>

\* The row goes, and everything that refers to it.
Remove(m) ==
  /\ mail[m].place # "gone" /\ Changed(m) /\ mail' = [mail EXCEPT ![m].place = "gone"]
  /\ Dropped(Sources({m}, Both)) /\ files' = Forget({m}) /\ UNCHANGED object

\* The object is written again, or lost; the log does not know.
ObjectChanges(m) ==
  /\ m \in Files /\ mail[m].place # "gone" /\ edits < MaxEdits /\ edits' = edits + 1
  /\ object' = [object EXCEPT ![m] = IF @ = 1 THEN 2 ELSE 0]
  /\ UNCHANGED <<mail, behind, state, source, jobs, files, indexVars, turn, raced, faults>>

\* resolveSemanticCandidates and invalidateAttachmentAuthority
Search(t) ==
  LET m == source[t].of
  IN /\ Waiting /\ source[t].kind = "file" /\ object[m] # source[t].version
     /\ files[m].state = "ready" /\ Dropped({t}) /\ files' = [files EXCEPT ![m] = Queued]
     /\ UNCHANGED <<mailVars, behind, state, indexVars, turn, raced, faults>>

\* rebuildSemanticIndex
Rebuild ==
  /\ Waiting /\ edits < MaxEdits /\ edits' = edits + 1
  /\ Dropped({t \in Tokens : source[t] # NoSource}) /\ files' = Forget(Emails)
  /\ state' = NoState
  /\ raced' = (turn.pc = "digest" /\ turn.why = "backfill" /\ turn.last)
  /\ UNCHANGED <<mail, object, behind, indexVars, turn, faults>>

MailStep ==
  \/ \E m \in Emails : Arrive(m) \/ Edit(m) \/ Exclude(m) \/ Restore(m) \/ Remove(m)
                         \/ ObjectChanges(m)
  \/ \E t \in Tokens : Search(t)
  \/ Rebuild

-----------------------------------------------------------------------------
(* A turn: one attachment                                                  *)

Go(t) == turn' = t
Faulty == faults < MaxFaults /\ faults' = faults + 1

\* leaseAttachmentExtraction: one that is due, if there is one.
StartTurn ==
  /\ turn.pc = "idle"
  /\ LET freed == [m \in Emails |->
                     IF files[m].state = "processing" /\ files[m].old
                     THEN [files[m] EXCEPT !.state = "failed", !.old = FALSE] ELSE files[m]]
         due == {m \in Emails : freed[m].state \in {"pending", "failed"}
                                   /\ freed[m].tries < MaxJobTries}
     IN \/ /\ files' = freed /\ Go([Idle EXCEPT !.pc = "prepare"])
           /\ \A m \in due : freed[m].state = "failed"                  \* not yet due
        \/ \E m \in due :
             /\ files' = [freed EXCEPT ![m].state = "processing", ![m].tries = @ + 1]
             /\ Go([Idle EXCEPT !.pc = "read", !.file = m])
  /\ UNCHANGED <<mailVars, behind, state, source, jobs, indexVars, raced, faults>>

\* HEAD, and GET under its etag.
ReadObject ==
  /\ turn.pc = "read" /\ Go([turn EXCEPT !.pc = "convert", !.snap = object[turn.file]])
  /\ UNCHANGED <<mailVars, behind, state, source, jobs, files, indexVars, raced, faults>>

Holds(m) == files[m].state = "processing" /\ ~files[m].old

\* completeAttachmentExtraction
CompleteExtraction(m) ==
  /\ turn.snap # 0 /\ UNCHANGED faults
  /\ IF Holds(m) /\ In(m)
     THEN \E t \in Unused :
            /\ Rewrite(Sources({m}, {"file"}), {t},
                       [of |-> m, kind |-> "file", version |-> turn.snap])
            /\ files' = [files EXCEPT ![m].state = "ready"]
     ELSE UNCHANGED <<source, jobs, files>>

\* retryAttachmentExtraction, when the object is missing or a call fails.
RetryExtraction(m) ==
  /\ IF turn.snap = 0 THEN UNCHANGED faults ELSE Faulty
  /\ files' = [files EXCEPT ![m].state = IF Holds(m) THEN "failed" ELSE @]
  /\ UNCHANGED <<source, jobs>>

\* rejectAttachmentExtraction, when the bytes are not what the row declares.
RejectExtraction(m) ==
  /\ turn.snap # 0 /\ Faulty
  /\ \E reject \in {[files[m] EXCEPT !.state = "failed", !.tries = MaxJobTries],
                    [files[m] EXCEPT !.state = "unsupported"]} :
       files' = [files EXCEPT ![m] = IF Holds(m) THEN reject ELSE @]
  /\ UNCHANGED <<source, jobs>>

FinishExtraction ==
  /\ turn.pc = "convert" /\ Go([Idle EXCEPT !.pc = "prepare"])
  /\ LET m == turn.file
     IN CompleteExtraction(m) \/ RetryExtraction(m) \/ RejectExtraction(m)
  /\ UNCHANGED <<mailVars, behind, state, indexVars, raced>>

-----------------------------------------------------------------------------
(* A turn: the projection                                                  *)

\* The first of a set of messages, as many as a page has.
FirstOf(S) == {m \in S : Cardinality({k \in S : k <= m}) <= batch}
LastOf(S, none) == IF S = {} THEN none ELSE CHOOSE m \in S : \A k \in S : k <= m

\* The page of the backfill or of the log; the log may be longer than a page.
Backfilling(s) ==
  LET rows == {m \in Emails : In(m) /\ m > s.cursor}
      page == FirstOf(rows)
  IN [Idle EXCEPT !.pc = "page", !.why = "backfill", !.todo = page,
                  !.upto = LastOf(page, s.cursor), !.last = (rows = page)]
Replaying(why, page, log) ==
  [Idle EXCEPT !.pc = "page", !.why = why, !.todo = page, !.page = page, !.last = (page = log)]
Pages(log) == IF log = {} THEN {{}} ELSE SUBSET log \ {{}}

\* prepare, with ensureState
Prepare ==
  /\ turn.pc = "prepare"
  /\ state' = IF state = NoState THEN NewState ELSE state
  /\ behind' = IF state = NoState THEN {} ELSE behind
  /\ CASE state'.status = "building" -> Go(Backfilling(state'))
       [] state'.status = "ready" -> \E page \in Pages(behind') :
                                       Go(Replaying("again", page, behind'))
       [] state'.status = "failed" -> Go([Idle EXCEPT !.pc = "confirm"])
  /\ UNCHANGED <<mailVars, source, jobs, files, indexVars, raced, faults>>

Next1 == CHOOSE m \in turn.todo : \A k \in turn.todo : m <= k

\* projectAttachmentsForMessage, in a replay
Enrolled(m) ==
  [files EXCEPT ![m] = IF turn.why # "backfill" /\ m \in Files /\ In(m) /\ @ = NoFile
                       THEN Queued ELSE @]

\* projectMessage before its await
ReadSource ==
  /\ turn.pc = "page" /\ turn.todo # {}
  /\ LET m == Next1
     IN IF In(m)
        THEN Go([turn EXCEPT !.pc = "digest", !.snap = mail[m].version])
             /\ UNCHANGED <<source, jobs, files>>
        ELSE /\ Dropped(Sources({m}, Both)) /\ files' = Forget({m})
             /\ Go([turn EXCEPT !.todo = @ \ {m}])
  /\ UNCHANGED <<mailVars, behind, state, indexVars, raced, faults>>

\* Slip: the message is only looked at for its folder.
StillThere(m) == In(m)

\* What was read before the await is still what the message says.
StillCurrent(m) == In(m) /\ mail[m].version = turn.snap

\* projectMessage after it
ProjectMessage ==
  /\ turn.pc = "digest" /\ Go([turn EXCEPT !.pc = "page", !.todo = @ \ {Next1}, !.snap = 0])
  /\ LET m == Next1
         s == [of |-> m, kind |-> "text", version |-> turn.snap]
     IN /\ files' = Enrolled(m)
        /\ IF StillCurrent(m) /\ \A t \in Sources({m}, {"text"}) : source[t] # s
           THEN \E t \in Unused : Rewrite(Sources({m}, {"text"}), {t}, s)
           ELSE UNCHANGED <<source, jobs>>
  /\ UNCHANGED <<mailVars, behind, state, indexVars, raced, faults>>

\* The cursor of a state that has gone meanwhile is not kept.
WithState(s) == IF state = NoState THEN NoState ELSE s
EndPage == turn.pc = "page" /\ turn.todo = {}

\* backfill has ended: prepare returns, or goes on with the log.
EndBackfill ==
  /\ EndPage /\ turn.why = "backfill"
  /\ LET kept == WithState([state EXCEPT !.cursor = turn.upto])
     IN IF turn.last
        THEN /\ state' = IF kept = NoState THEN NewState ELSE kept
             /\ behind' = IF kept = NoState THEN {} ELSE behind
             /\ \E page \in Pages(behind') : Go(Replaying("replay", page, behind'))
        ELSE /\ state' = kept /\ UNCHANGED behind
             /\ Go([Idle EXCEPT !.pc = "confirm"])
  /\ UNCHANGED <<mailVars, source, jobs, files, indexVars, raced, faults>>

Applied == (behind \ turn.page) \cup turn.since
Caught == turn.last /\ turn.since = {}

\* replay has ended in prepare's first part: the status becomes ready when it
\* has caught up, and the log is read once more.
EndReplay ==
  /\ EndPage /\ turn.why = "replay" /\ behind' = Applied
  /\ IF Caught
     THEN IF state = NoState
          THEN state' = NoState /\ Go([Idle EXCEPT !.pc = "page", !.why = "again"])
          ELSE /\ state' = [state EXCEPT !.status = "ready"]
               /\ \E page \in Pages(behind') : Go(Replaying("again", page, behind'))
     ELSE UNCHANGED state /\ Go([Idle EXCEPT !.pc = "confirm"])
  /\ UNCHANGED <<mailVars, source, jobs, files, indexVars, raced, faults>>

\* replay has ended in prepare's second part; then backfillAttachments.
EndAgain ==
  /\ EndPage /\ turn.why = "again" /\ Go([Idle EXCEPT !.pc = "confirm"])
  /\ LET s == IF state = NoState THEN NewState ELSE state
         rows == {m \in Files : In(m) /\ m > s.fcursor}
         page == FirstOf(rows)
     IN /\ behind' = IF state = NoState THEN {} ELSE Applied
        /\ IF s.files = "building"
           THEN /\ files' = [m \in Emails |-> IF m \in page /\ files[m] = NoFile
                                                THEN Queued ELSE files[m]]
                /\ state' = [s EXCEPT !.fcursor = LastOf(page, @),
                                      !.files = IF rows = page THEN "ready" ELSE @]
           ELSE state' = s /\ UNCHANGED files
  /\ UNCHANGED <<mailVars, source, jobs, indexVars, raced, faults>>

-----------------------------------------------------------------------------
(* A turn: the jobs                                                        *)

Submitted == {t \in Tokens : jobs[t].state = "submitted"}

\* dueSubmittedJobs: by the half minute, and when their five minutes are over.
ListSubmitted ==
  /\ turn.pc = "confirm"
  /\ \E due \in {Submitted, {t \in Submitted : jobs[t].old}} :
       Go([Idle EXCEPT !.pc = IF due = {} THEN "lease" ELSE "observe", !.seen = due])
  /\ UNCHANGED <<mailVars, behind, state, source, jobs, files, indexVars, raced, faults>>

\* Slip: a vector that is missing confirms its delete at once.
ConfirmedSoon(t) == (jobs[t].op = "upsert") = (t \in visible)

\* confirmVisibility: a vector that is there confirms its upsert, one that is
\* missing its delete, but only five minutes after that was submitted.
Confirmed(t) ==
  IF jobs[t].op = "upsert" THEN t \in visible ELSE t \notin visible /\ jobs[t].old

\* getByIds
Observe ==
  /\ turn.pc = "observe" /\ Go([Idle EXCEPT !.pc = "lease"])
  /\ LET confirmed == {t \in turn.seen \cap Submitted : Confirmed(t)}
     IN jobs' = [t \in Tokens |-> IF t \in confirmed THEN NoJob ELSE jobs[t]]
  /\ UNCHANGED <<mailVars, behind, state, source, files, indexVars, raced, faults>>

ObserveFails ==
  /\ turn.pc = "observe" /\ Faulty /\ Go([Idle EXCEPT !.pc = "lease"])
  /\ UNCHANGED <<mailVars, behind, state, source, jobs, files, indexVars, raced>>

Of(op, sends) == {x \in sends : x[1] = op}

\* The deletes are sent when the upserts are done with.
SendDeletes(sends) ==
  LET deletes == Of("delete", sends)
  IN IF deletes = {} THEN Go(Idle) /\ UNCHANGED flying
     ELSE Go([Idle EXCEPT !.pc = "delete", !.sends = deletes]) /\ flying' = flying \cup deletes

\* leaseJobs: what was not seen in time is sent again or fails the projection,
\* what a lost turn held is freed, some of what is due is leased.
LeaseJobs ==
  /\ turn.pc = "lease"
  /\ LET over(t) == jobs[t].state = "submitted" /\ jobs[t].old
         spent == {t \in Tokens : over(t) /\ jobs[t].tries >= MaxJobTries}
         freed == [t \in Tokens |->
           IF over(t) \/ (jobs[t].state = "processing" /\ jobs[t].old)
           THEN [jobs[t] EXCEPT !.state = IF t \in spent THEN "failed" ELSE "pending",
                                !.old = FALSE]
           ELSE jobs[t]]
         due == {t \in Tokens : freed[t].state \in {"pending", "failed"}
                                 /\ freed[t].tries < MaxJobTries}
         later == {t \in due : freed[t].state = "failed"}
     IN /\ state' = IF spent = {} THEN state ELSE WithState([state EXCEPT !.status = "failed"])
        /\ \E leased \in {due, due \ later} :
             LET sends == {<<freed[t].op, t>> : t \in leased}
             IN /\ jobs' = [t \in Tokens |-> IF t \in leased
                              THEN [freed[t] EXCEPT !.state = "processing", !.tries = @ + 1]
                              ELSE freed[t]]
                /\ IF Of("upsert", sends) = {} THEN SendDeletes(sends)
                   ELSE Go([Idle EXCEPT !.pc = "embed", !.sends = sends]) /\ UNCHANGED flying
  /\ UNCHANGED <<mailVars, behind, source, files, visible, raced, faults>>

\* What is recorded of a job that somebody has reset meanwhile is ignored.
Record(op, j) ==
  jobs' = [t \in Tokens |-> IF <<op, t>> \in turn.sends /\ jobs[t].state = "processing"
                            THEN j[t] ELSE jobs[t]]

\* submitJobs, retryJobs, deferJobs
Submit(op) ==
  /\ Record(op, [t \in Tokens |-> IF jobs[t].old THEN jobs[t]
                                  ELSE [jobs[t] EXCEPT !.state = "submitted"]])
  /\ UNCHANGED <<state, faults>>
Retry(op) ==
  /\ Record(op, [t \in Tokens |-> [jobs[t] EXCEPT !.state = "failed", !.old = FALSE]]) /\ Faulty
  /\ state' = IF \E t \in Tokens : /\ <<op, t>> \in turn.sends
                                   /\ jobs[t].state = "processing" /\ jobs[t].tries >= MaxJobTries
              THEN WithState([state EXCEPT !.status = "failed"]) ELSE state
Defer ==
  /\ Record("upsert", [t \in Tokens |-> [jobs[t] EXCEPT !.state = "pending", !.tries = @ - 1,
                                                        !.old = FALSE]])
  /\ UNCHANGED state /\ Faulty

\* The content is embedded and sent, or fails, or the budget defers it.
Embed ==
  /\ turn.pc = "embed"
  /\ \/ /\ Go([turn EXCEPT !.pc = "upsert"]) /\ flying' = flying \cup Of("upsert", turn.sends)
        /\ UNCHANGED <<jobs, state, faults>>
     \/ (Retry("upsert") \/ Defer) /\ SendDeletes(turn.sends)
  /\ UNCHANGED <<mailVars, behind, source, files, visible, raced>>

\* The index has taken the vectors, or an answer fails that may have; a request
\* that fails can be on its way for some time.
Upsert ==
  /\ turn.pc = "upsert" /\ (Submit("upsert") \/ Retry("upsert")) /\ SendDeletes(turn.sends)
  /\ UNCHANGED <<mailVars, behind, source, files, visible, raced>>

Delete ==
  /\ turn.pc = "delete" /\ Go(Idle)
  /\ \/ Submit("delete") /\ UNCHANGED flying
     \/ Retry("delete") /\ flying' \in {flying, flying \ turn.sends}
  /\ UNCHANGED <<mailVars, behind, source, files, visible, raced>>

-----------------------------------------------------------------------------
(* The index, the clock, and the end of a turn                             *)

\* A mutation takes effect.
Land(op, t) ==
  /\ <<op, t>> \in flying /\ flying' = flying \ {<<op, t>>}
  /\ visible' = IF op = "upsert" THEN visible \cup {t} ELSE visible \ {t}
  /\ UNCHANGED <<mailVars, behind, state, source, jobs, files, turn, raced, faults>>

\* Five minutes after a submission all mutations of its vector have landed.
GrowsOld(t) ==
  /\ jobs[t].state = "submitted" /\ ~jobs[t].old /\ \A op \in {"upsert", "delete"} : <<op, t>> \notin flying
  /\ jobs' = [jobs EXCEPT ![t].old = TRUE]
  /\ UNCHANGED <<mailVars, behind, state, source, files, indexVars, turn, raced, faults>>

\* A lease runs out: its turn is gone, or takes too long.
JobLapses(t) ==
  /\ jobs[t].state = "processing" /\ ~jobs[t].old /\ jobs' = [jobs EXCEPT ![t].old = TRUE]
  /\ IF \E op \in {"upsert", "delete"} : <<op, t>> \in turn.sends THEN Faulty ELSE UNCHANGED faults
  /\ UNCHANGED <<mailVars, behind, state, source, files, indexVars, turn, raced>>

FileLapses(m) ==
  /\ Holds(m) /\ files' = [files EXCEPT ![m].old = TRUE]
  /\ IF turn.file = m THEN Faulty ELSE UNCHANGED faults
  /\ UNCHANGED <<mailVars, behind, state, source, jobs, indexVars, turn, raced>>

\* The object is evicted while the turn awaits something.
TurnLost ==
  /\ Waiting /\ turn.pc # "idle" /\ Faulty /\ Go(Idle)
  /\ UNCHANGED <<mailVars, behind, state, source, jobs, files, indexVars, raced>>

\* failProjection, when turns have thrown too often
SchedulerExhausted ==
  /\ turn.pc = "idle" /\ Faulty /\ state' = WithState([state EXCEPT !.status = "failed"])
  /\ UNCHANGED <<mailVars, behind, source, jobs, files, indexVars, turn, raced>>

TurnStep ==
  \/ StartTurn \/ ReadObject \/ FinishExtraction \/ Prepare \/ ReadSource \/ ProjectMessage
  \/ EndBackfill \/ EndReplay \/ EndAgain \/ ListSubmitted \/ Observe \/ ObserveFails
  \/ LeaseJobs \/ Embed \/ Upsert \/ Delete

IndexStep ==
  \/ MailStep \/ TurnStep \/ TurnLost \/ SchedulerExhausted
  \/ \E t \in Tokens : GrowsOld(t) \/ JobLapses(t) \/ \E op \in {"upsert", "delete"} : Land(op, t)
  \/ \E m \in Emails : FileLapses(m)

IndexNext == IndexStep /\ UNCHANGED batch

IndexSpec == IndexInit /\ [][IndexNext]_semanticVars

-----------------------------------------------------------------------------
(* Properties                                                              *)

\* Evidence is current: a text source is of the present version of a message
\* that may be searched, although the version is read before an await and the
\* source is written after it.
EvidenceIsCurrent ==
  \A t \in Tokens : source[t] # NoSource =>
    /\ In(source[t].of)
    /\ source[t].kind = "text" => source[t].version = mail[source[t].of].version

\* Nothing is left behind in the index: a vector that is visible, or on its way,
\* without a source has a job that will delete it.
OrphansAreTracked ==
  \A t \in Tokens : t \in visible \/ <<"upsert", t>> \in flying =>
    source[t] # NoSource \/ jobs[t].op = "delete"

\* readiness
Complete ==
  /\ state.status = "ready" /\ state.files = "ready" /\ behind = {}
  /\ \A t \in Tokens : jobs[t] = NoJob
  /\ \A m \in Emails : files[m].state \in {"none", "ready", "unsupported"}

Indexed(m, kind) == Sources({m}, {kind}) \cap visible # {}
EverythingIsIndexed ==
  \A m \in Emails : In(m) =>
    /\ Indexed(m, "text")
    /\ m \in Files => Indexed(m, "file") \/ files[m].state = "unsupported"

\* The index calls itself complete only when every message and attachment that
\* may be searched is visible in it; a rebuild during the last page of a
\* backfill is the exception (CompleteIsComplete).
CompleteIsTrue == Complete /\ ~raced => EverythingIsIndexed

\* The same without the exception.
CompleteIsComplete == Complete => EverythingIsIndexed

\* What the index says of the mail is true: sources are of the present version of
\* a message that may be searched, no vector is left without a source or a job
\* that deletes it, and the index calls itself complete only when all of the mail
\* is visible in it, unless a rebuild hit the last page of a backfill.
IndexIsTrue == IndexTypeOK /\ EvidenceIsCurrent /\ OrphansAreTracked /\ CompleteIsTrue
=============================================================================
