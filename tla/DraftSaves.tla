----------------------------- MODULE DraftSaves -----------------------------
(***************************************************************************)
(* Saving one draft with attachments.                                      *)
(*                                                                         *)
(* A save claims the revision it starts from under a fresh token, records  *)
(* the R2 keys it is about to create, promotes its attachments and commits *)
(* the draft in one transaction of the mailbox.  A claim that expires is   *)
(* taken over or swept, and the objects of its token are deleted again and *)
(* again for a day; a commit whose answer is lost is looked up, and        *)
(* aborted if it has not happened yet.  Retries carry the save key of the  *)
(* first attempt; the key of a new draft also names it.                    *)
(*                                                                         *)
(*   workers/routes/drafts.ts            handleSaveDraft                   *)
(*   workers/lib/draft-save-recovery.ts  reconcileAmbiguousDraftSave       *)
(*   workers/lib/attachments.ts          promotion, rollback               *)
(*   workers/durableObject/index.ts      claims, commits, cleanup          *)
(***************************************************************************)
EXTENDS Naturals, FiniteSets

CONSTANTS
  Savers,      \* save requests; each has its claim token and one attachment
  Keys,        \* save keys
  NewKey,      \* the key whose save creates the draft
  KeyOf,       \* the save key of each request
  MaxVersion,  \* bound on the revisions of the draft
  MaxSaveFails \* bound on failed calls

ASSUME DraftAssumption ==
  /\ KeyOf \in [Savers -> Keys] /\ NewKey \in Keys
  /\ MaxVersion \in Nat /\ MaxSaveFails \in Nat

VARIABLES
  version,     \* of the draft; 0: there is none
  atts,        \* its attachments, by the save that promoted them
  created,     \* draft_create_operations: "none", "active", "gone"
  ops,         \* draft_save_operations, by key
  lapsed,      \* the keys whose claim has expired
  intents,     \* draft_save_cleanup_intents, by token
  deletions,   \* deletion outbox and cleanup queue of the mailbox
  objects,     \* promoted attachments in R2
  spc, base, keep, doomed,  \* the requests
  flight,      \* commits whose answer the request no longer waits for
  told,        \* the requests that were answered "saved"
  commits,     \* how often each key was committed
  sfails

mailVars == <<version, atts, created, commits>>
opVars == <<ops, lapsed, intents>>
reqVars == <<spc, base, keep, doomed, flight, told>>
draftVars == <<mailVars, opVars, deletions, objects, reqVars, sfails>>

SPCs == {"idle", "claim", "stale", "prior", "record", "put", "commit", "outcome",
         "rollback", "abort", "done"}
NoOp == [state |-> "none", owner |-> {}, base |-> 0, planned |-> FALSE, result |-> 0]

OpRows == [state : {"none", "claimed", "committed", "aborted"}, owner : SUBSET Savers,
           base : 0..MaxVersion, planned : BOOLEAN, result : 0..MaxVersion]

TypeOK ==
  /\ version \in 0..MaxVersion /\ atts \subseteq Savers
  /\ created \in {"none", "active", "gone"}
  /\ ops \in [Keys -> OpRows]
  /\ \A k \in Keys : Cardinality(ops[k].owner) <= 1
  /\ lapsed \subseteq Keys /\ intents \subseteq Savers /\ deletions \subseteq Savers
  /\ objects \subseteq Savers
  /\ spc \in [Savers -> SPCs] /\ base \in [Savers -> 0..MaxVersion]
  /\ keep \in [Savers -> SUBSET Savers] /\ doomed \in [Savers -> SUBSET Savers]
  /\ flight \subseteq Savers /\ told \subseteq Savers
  /\ commits \in [Keys -> Nat] /\ sfails \in 0..MaxSaveFails

Init ==
  /\ version = 0 /\ atts = {} /\ created = "none"
  /\ ops = [k \in Keys |-> NoOp] /\ lapsed = {} /\ intents = {} /\ deletions = {}
  /\ objects = {}
  /\ spc = [s \in Savers |-> "idle"] /\ base = [s \in Savers |-> 0]
  /\ keep = [s \in Savers |-> {}] /\ doomed = [s \in Savers |-> {}]
  /\ flight = {} /\ told = {} /\ commits = [k \in Keys |-> 0] /\ sfails = 0

-----------------------------------------------------------------------------
(* The mailbox: draft_save_operations                                      *)

Works == UNCHANGED sfails
Fails == sfails < MaxSaveFails /\ sfails' = sfails + 1
To(s, p) == spc' = [spc EXCEPT ![s] = p]

Holds(s) == ops[KeyOf[s]].state = "claimed" /\ ops[KeyOf[s]].owner = {s}

\* The tokens whose recorded objects a set of given-up claims leaves behind.
LeftBy(ks) == UNION {ops[k].owner : k \in {x \in ks : ops[x].planned}}

GiveUp(ks) ==
  /\ ops' = [k \in Keys |-> IF k \in ks THEN [ops[k] EXCEPT !.state = "aborted"]
                                        ELSE ops[k]]
  /\ intents' = intents \cup LeftBy(ks)
  /\ lapsed' = lapsed \ ks

Claimed == {k \in Keys : ops[k].state = "claimed"}

\* abortDraftSave
AbortSave(s) ==
  IF Holds(s) THEN GiveUp({KeyOf[s]}) ELSE UNCHANGED opVars

\* Replaced attachments that nothing owns any more are queued for deletion.
Replace(new) == atts' = new /\ deletions' = deletions \cup (atts \ new)

\* Slip: only a live draft reserves its key.
RecreatesEnded(s) == KeyOf[s] = NewKey /\ created = "active"

\* #getDraftCreateReplay: the key that created the draft is not used twice.
Recreates(s) == KeyOf[s] = NewKey /\ created # "none"

\* upsertDraft commits ...
CommitsDraft(s) ==
  /\ Holds(s) /\ ~Recreates(s) /\ version = base[s]

Committed(s) ==
  /\ version < MaxVersion /\ version' = version + 1
  /\ Replace(keep[s] \cup {s})
  /\ created' = IF KeyOf[s] = NewKey THEN "active" ELSE created
  /\ ops' = [ops EXCEPT ![KeyOf[s]].state = "committed", ![KeyOf[s]].result = version + 1]
  /\ lapsed' = lapsed \ {KeyOf[s]}
  /\ commits' = [commits EXCEPT ![KeyOf[s]] = @ + 1]
  /\ UNCHANGED intents

-----------------------------------------------------------------------------
(* handleSaveDraft                                                         *)

\* A client saves the revision it sees; a retry repeats the first attempt.
Begin(s) ==
  /\ spc[s] = "idle"
  /\ \/ KeyOf[s] = NewKey /\ base' = base
     \/ /\ KeyOf[s] # NewKey /\ version > 0
        /\ base' = [base EXCEPT ![s] =
             IF \E t \in Savers \ {s} : KeyOf[t] = KeyOf[s] /\ spc[t] # "idle"
             THEN base[CHOOSE t \in Savers \ {s} : KeyOf[t] = KeyOf[s] /\ spc[t] # "idle"]
             ELSE version]
  /\ To(s, IF Recreates(s) THEN "done" ELSE "claim")
  /\ told' = told \cup {x \in {s} : Recreates(s) /\ created = "active" /\ version = 1}
  /\ UNCHANGED <<mailVars, opVars, deletions, objects, keep, doomed, flight, sfails>>

\* claimDraftSave: expired claims on the revision are given up first.
Claim(s) ==
  LET k == KeyOf[s]
      old == {x \in Claimed \cap lapsed : ops[x].base = base[s]}
  IN /\ spc[s] = "claim"
     /\ \/ /\ ops[k].state = "committed" /\ To(s, "done")
           /\ told' = told \cup {x \in {s} : ops[k].result = version}
           /\ UNCHANGED <<opVars, doomed>>
        \/ /\ ops[k].state = "claimed" /\ k \notin lapsed
           /\ To(s, "done") /\ UNCHANGED <<opVars, doomed, told>>
        \/ /\ ops[k].state # "committed" /\ ~(ops[k].state = "claimed" /\ k \notin lapsed)
           /\ UNCHANGED told
           /\ IF (\E x \in Claimed \ old : ops[x].base = base[s]) \/ version # base[s]
              THEN GiveUp(old) /\ To(s, "done") /\ UNCHANGED doomed
              ELSE /\ ops' = [x \in Keys |->
                        IF x = k THEN [NoOp EXCEPT !.state = "claimed", !.owner = {s},
                                                   !.base = base[s]]
                        ELSE IF x \in old THEN [ops[x] EXCEPT !.state = "aborted"]
                        ELSE ops[x]]
                   /\ intents' = intents \cup LeftBy(old) /\ lapsed' = lapsed \ (old \cup {k})
                   /\ doomed' = [doomed EXCEPT ![s] = LeftBy(old)]
                   /\ To(s, "stale")
     /\ UNCHANGED <<mailVars, deletions, objects, base, keep, flight, sfails>>

\* cleanupOrQueue: what cannot be deleted is queued.
Discards(ts) ==
  \/ objects' = objects \ ts /\ UNCHANGED deletions /\ Works
  \/ deletions' = deletions \cup ts /\ UNCHANGED objects /\ Fails

RollBackStale(s) ==
  /\ spc[s] = "stale" /\ To(s, "prior") /\ Discards(doomed[s])
  /\ UNCHANGED <<mailVars, opVars, base, keep, doomed, flight, told>>

\* The attachments of the draft that the request keeps.
ReadPrior(s) ==
  /\ spc[s] = "prior" /\ To(s, "record")
  /\ \E a \in SUBSET atts : keep' = [keep EXCEPT ![s] = a]
  /\ UNCHANGED <<mailVars, opVars, deletions, objects, base, doomed, flight, told, sfails>>

\* recordDraftSavePromotion: nothing is promoted without it.
Record(s) ==
  /\ spc[s] = "record"
  /\ \/ /\ Holds(s) /\ To(s, "put") /\ Works
        /\ ops' = [ops EXCEPT ![KeyOf[s]].planned = TRUE]
     \/ ~Holds(s) /\ To(s, "abort") /\ Works /\ UNCHANGED ops
     \/ /\ Fails /\ To(s, "abort")
        /\ ops' = [ops EXCEPT ![KeyOf[s]].planned = @ \/ Holds(s)]
  /\ UNCHANGED <<mailVars, lapsed, intents, deletions, objects, base, keep, doomed, flight,
                 told>>

\* resolveAndPromoteAttachments cleans up after itself.
Promote(s) ==
  /\ spc[s] = "put"
  /\ \/ To(s, "commit") /\ objects' = objects \cup {s} /\ UNCHANGED deletions /\ Works
     \/ /\ To(s, "abort") /\ Fails
        /\ \/ UNCHANGED <<objects, deletions>>
           \/ objects' = objects \cup {s} /\ deletions' \in {deletions, deletions \cup {s}}
  /\ UNCHANGED <<mailVars, opVars, base, keep, doomed, flight, told>>

Commit(s) ==
  /\ spc[s] = "commit"
  /\ \/ /\ CommitsDraft(s) /\ Committed(s) /\ To(s, "done") /\ told' = told \cup {s}
        /\ UNCHANGED flight /\ Works
     \/ /\ ~CommitsDraft(s) /\ To(s, "rollback") /\ Works
        /\ UNCHANGED <<mailVars, opVars, deletions, told, flight>>
     \/ /\ To(s, "outcome") /\ Fails /\ UNCHANGED told    \* no answer
        /\ \/ flight' = flight \cup {s} /\ UNCHANGED <<mailVars, opVars, deletions>>
           \/ CommitsDraft(s) /\ Committed(s) /\ UNCHANGED flight
  /\ UNCHANGED <<objects, base, keep, doomed>>

\* A commit arrives that its request gave up waiting for.
LateCommit(s) ==
  /\ s \in flight /\ flight' = flight \ {s}
  /\ IF CommitsDraft(s) THEN Committed(s) ELSE UNCHANGED <<mailVars, opVars, deletions>>
  /\ UNCHANGED <<objects, spc, base, keep, doomed, told, sfails>>

\* Slip: a claim that is still open counts as not committed.
OutcomeUnaborted(s) ==
  LET o == ops[KeyOf[s]]
  IN /\ spc[s] = "outcome" /\ Works
     /\ \/ /\ o.state = "committed" /\ To(s, "done") /\ UNCHANGED opVars
           /\ told' = told \cup {x \in {s} : version = base[s] + 1 /\ o.result = version}
        \/ o.state # "committed" /\ To(s, "rollback") /\ UNCHANGED <<opVars, told>>
     /\ UNCHANGED <<mailVars, deletions, objects, base, keep, doomed, flight>>

\* reconcileAmbiguousDraftSave: a claim that is still open is aborted before
\* its objects are rolled back; a failed look leaves everything to the sweep.
Outcome(s) ==
  LET o == ops[KeyOf[s]]
  IN /\ spc[s] = "outcome"
     /\ \/ /\ o.state = "committed" /\ To(s, "done") /\ Works /\ UNCHANGED opVars
           /\ told' = told \cup {x \in {s} : version = base[s] + 1 /\ o.result = version}
        \/ /\ o.state = "claimed" /\ Works /\ AbortSave(s) /\ UNCHANGED told
           /\ To(s, IF Holds(s) THEN "rollback" ELSE "done")
        \/ /\ o.state \in {"none", "aborted"} /\ To(s, "rollback") /\ Works
           /\ UNCHANGED <<opVars, told>>
        \/ /\ To(s, "done") /\ Fails /\ UNCHANGED told
           /\ UNCHANGED opVars \/ (o.state = "claimed" /\ AbortSave(s))
     /\ UNCHANGED <<mailVars, deletions, objects, base, keep, doomed, flight>>

RollBack(s) ==
  /\ spc[s] = "rollback" /\ Discards({s}) /\ To(s, "abort")
  /\ UNCHANGED <<mailVars, opVars, base, keep, doomed, flight, told>>

Abort(s) ==
  /\ spc[s] = "abort" /\ To(s, "done") /\ Works /\ AbortSave(s)
  /\ UNCHANGED <<mailVars, deletions, objects, base, keep, doomed, flight, told>>

\* The request ends wherever it is; a commit may be under way.
Lost(s) ==
  /\ spc[s] \notin {"idle", "done"} /\ To(s, "done") /\ Fails
  /\ flight' \in {flight, IF spc[s] = "commit" THEN flight \cup {s} ELSE flight}
  /\ UNCHANGED <<mailVars, opVars, deletions, objects, base, keep, doomed, told>>

-----------------------------------------------------------------------------
(* The alarm, and others who change the draft                              *)

Quiet == UNCHANGED <<reqVars, sfails>>

\* Five minutes after the claim.
ClaimLapses(k) ==
  /\ k \in Claimed \ lapsed /\ lapsed' = lapsed \cup {k}
  /\ UNCHANGED <<mailVars, ops, intents, deletions, objects>> /\ Quiet

\* #promoteExpiredDraftSaveClaimsToCleanup
SweepClaims ==
  /\ Claimed \cap lapsed # {} /\ GiveUp(Claimed \cap lapsed)
  /\ UNCHANGED <<mailVars, deletions, objects>> /\ Quiet

\* #processDraftSaveCleanup: only objects that carry the token; the intent
\* stays for a day, longer than any request.
Cleanup(t) ==
  /\ t \in intents /\ objects' = objects \ {t}
  /\ intents' \in {intents, IF spc[t] = "done" THEN intents \ {t} ELSE intents}
  /\ UNCHANGED <<mailVars, ops, lapsed, deletions>> /\ Quiet

\* The deletion outbox and the cleanup queue.
Delete(t) ==
  /\ t \in deletions /\ deletions' = deletions \ {t}
  /\ objects' = objects \ {t}
  /\ UNCHANGED <<mailVars, opVars>> /\ Quiet

\* Finished operations are kept for a day.
Prune(k) ==
  /\ ops[k].state \in {"committed", "aborted"}
  /\ \A s \in Savers : KeyOf[s] = k => spc[s] \in {"idle", "done"} /\ s \notin flight
  /\ ops' = [ops EXCEPT ![k] = NoOp]
  /\ UNCHANGED <<mailVars, lapsed, intents, deletions, objects>> /\ Quiet

\* updateDraft, as the tools call it.
UpdateDraft ==
  /\ version \in 1..(MaxVersion - 1) /\ version' = version + 1
  /\ UNCHANGED <<atts, created, commits, opVars, deletions, objects>> /\ Quiet

\* discardDraft and consumeDraftVersion
EndDraft ==
  /\ version > 0 /\ version' = 0 /\ Replace({})
  /\ created' = IF created = "active" THEN "gone" ELSE created
  /\ UNCHANGED <<commits, opVars, objects>> /\ Quiet

SaverStep(s) ==
  \/ Claim(s) \/ RollBackStale(s) \/ ReadPrior(s) \/ Record(s) \/ Promote(s) \/ Commit(s)
  \/ Outcome(s) \/ RollBack(s) \/ Abort(s)

Next ==
  \/ \E s \in Savers : Begin(s) \/ SaverStep(s) \/ LateCommit(s) \/ Lost(s)
                       \/ Cleanup(s) \/ Delete(s)
  \/ \E k \in Keys : ClaimLapses(k) \/ Prune(k)
  \/ SweepClaims \/ UpdateDraft \/ EndDraft

Spec == Init /\ [][Next]_draftVars

-----------------------------------------------------------------------------
(* Properties                                                              *)

\* Every attachment of the draft is in R2: no cleanup of an expired, aborted
\* or superseded save takes an object that a late commit made the draft's.
AttachmentsAreStored == atts \subseteq objects

\* An object that is not the draft's is somebody's to delete: its request is
\* still at it, its claim records it for the sweep, or it is queued.
StraysAreTracked ==
  \A t \in objects \ atts :
    \/ t \in intents \cup deletions \/ spc[t] # "done"
    \/ Holds(t) /\ ops[KeyOf[t]].planned

\* A save key is committed once, whatever is retried, late or lost, and also
\* when the record of the first commit has been pruned.
SavedOnce == \A k \in Keys : commits[k] <= 1

\* A request is told "saved" only if its key was committed.
ToldIsSaved == \A s \in told : commits[KeyOf[s]] = 1


\* Every attachment of the draft is in R2, and a promoted object that is not the
\* draft's is somebody's to delete.
DraftObjectsAreSafe == TypeOK /\ AttachmentsAreStored /\ StraysAreTracked

\* A save is committed at most once, and who is told that the draft is saved
\* has it saved.
SavesAreTruthful == SavedOnce /\ ToldIsSaved

-----------------------------------------------------------------------------
(* Why they hold: an inductive invariant                                   *)

Begun(s) == spc[s] # "idle"
Attempts(k) == {s \in Savers : KeyOf[s] = k /\ Begun(s)}

\* A token whose save may still be committed, now or after what comes before.
MayCommit(t) ==
  \/ spc[t] \in {"idle", "claim"}
  \/ /\ Holds(t)
     /\ spc[t] \in {"stale", "prior", "record", "put", "commit"} \/ t \in flight

\* The object of such a token is not the draft's and never will be.
Retired(t) == t \notin atts /\ ~MayCommit(t)

\* The draft is created once, by the first save of its key, and its revisions
\* only grow while it lives.
LifeInv ==
  /\ created = "none" => version = 0 /\ commits[NewKey] = 0 /\ keep = [s \in Savers |-> {}]
  /\ created # "none" => commits[NewKey] = 1
  /\ created = "active" <=> version > 0
  /\ version = 0 => atts = {}

\* All attempts of a save start from one revision; a save that is committed
\* has left it behind.
BaseInv ==
  /\ \A s \in Savers :
       IF KeyOf[s] = NewKey THEN base[s] = 0
       ELSE Begun(s) => base[s] > 0 /\ created # "none" /\ (version > 0 => base[s] <= version)
  /\ \A s, t \in Savers :
       KeyOf[s] = KeyOf[t] /\ Begun(s) /\ Begun(t) => base[s] = base[t]
  /\ \A k \in Keys \ {NewKey} :
       commits[k] # 0 =>
         /\ Attempts(k) # {}
         /\ version > 0 => \A s \in Attempts(k) : base[s] < version

\* A claim belongs to an attempt of its save, and a recorded commit happened.
ClaimInv ==
  \A k \in Keys :
    /\ ops[k].owner = {} \/ \E s \in Savers : ops[k].owner = {s}
    /\ ops[k].state = "committed" => commits[k] = 1
    /\ ops[k].state = "claimed" =>
         \E s \in Savers : /\ ops[k].owner = {s} /\ KeyOf[s] = k /\ base[s] = ops[k].base
                           /\ spc[s] \notin {"idle", "claim"}

\* Where a request is says what it has promoted, and what it keeps is the draft's
\* as long as the revision is.
RequestOf(s) ==
  /\ s \in flight => \/ spc[s] \in {"outcome", "done"}
                     \/ spc[s] \in {"rollback", "abort"} /\ ~Holds(s)
  /\ s \in objects => spc[s] \in {"commit", "outcome", "rollback", "abort", "done"}
  /\ Holds(s) /\ (spc[s] = "commit" \/ s \in flight) => s \in objects
  /\ spc[s] = "put" => s \in intents \/ (Holds(s) /\ ops[KeyOf[s]].planned)
  /\ (spc[s] \in {"record", "put", "commit"} \/ s \in flight)
       /\ KeyOf[s] # NewKey /\ base[s] = version => keep[s] \subseteq atts

\* What has been given up stays given up, what the draft has is settled, and
\* any other object is recorded.
ObjectOf(t) ==
  /\ t \in intents \cup deletions \/ spc[t] = "rollback" => Retired(t)
  /\ t \in atts =>
       /\ t \in objects /\ ~Holds(t) /\ spc[t] \in {"outcome", "done"}
       /\ spc[t] = "outcome" => ops[KeyOf[t]].state = "committed"
  /\ t \in objects \ atts =>
       t \in intents \cup deletions \/ (Holds(t) /\ ops[KeyOf[t]].planned)

TokenInv == \A t \in Savers : RequestOf(t) /\ ObjectOf(t)

DoomedInv == \A s \in Savers : spc[s] = "stale" => \A t \in doomed[s] : Retired(t)

DraftInv ==
  /\ TypeOK /\ LifeInv /\ BaseInv /\ SavedOnce /\ ToldIsSaved /\ ClaimInv
  /\ TokenInv /\ DoomedInv

=============================================================================
