----------------------------- MODULE MailProofs -----------------------------
(***************************************************************************)
(* DraftInv is inductive, for any number of save requests, keys, revisions *)
(* and failures: the draft's attachments are in R2, every other promoted   *)
(* object is somebody's to delete, a save is committed once.               *)
(*                                                                         *)
(* BulkInv is inductive, for any number of jobs, recipients and failures:  *)
(* no copy that is needed is deleted and none is forgotten, jobs count     *)
(* what became of their recipients, and no more of those are outstanding   *)
(* than may be.                                                            *)
(***************************************************************************)
EXTENDS DraftSaves, BulkSend, FiniteSetTheorems, TLAPS

-----------------------------------------------------------------------------
(* What the parts of the invariant depend on                               *)

\* A claim names one token at most.
LEMMA OneOwner ==
  ASSUME NEW o, o = {} \/ \E s : o = {s}
  PROVE  Cardinality(o) <= 1
<1>1. Cardinality({}) = 0
  BY FS_EmptySet
<1>2. ASSUME NEW s PROVE Cardinality({s}) = 1
  BY FS_Singleton
<1> QED BY <1>1, <1>2

\* The draft and what requests keep of it stay.
LEMMA LifeKept ==
  ASSUME LifeInv, UNCHANGED <<mailVars, keep>>
  PROVE  LifeInv'
BY DEF LifeInv, mailVars

\* The revisions stay, and the requests that have begun.
LEMMA BaseKept ==
  ASSUME BaseInv, UNCHANGED <<version, created, commits, base>>,
         \A s \in Savers : Begun(s)' <=> Begun(s)
  PROVE  BaseInv'
<1>1. \A k \in Keys : Attempts(k)' = Attempts(k)
  BY DEF Attempts
<1>2. \A k \in Keys : \A s \in Attempts(k) : s \in Savers
  BY DEF Attempts
<1> QED BY <1>1, <1>2 DEF BaseInv

\* No commit happens.
LEMMA CommitsKept ==
  ASSUME SavedOnce, ToldIsSaved, UNCHANGED commits,
         \A s \in told' : s \in told \/ commits[KeyOf[s]] = 1
  PROVE  SavedOnce' /\ ToldIsSaved'
BY DEF SavedOnce, ToldIsSaved

\* The claims stay, and their requests do not begin again.
LEMMA ClaimsKept ==
  ASSUME ClaimInv, UNCHANGED <<ops, commits, base>>,
         \A s \in Savers : spc[s] \notin {"idle", "claim"} => spc'[s] \notin {"idle", "claim"}
  PROVE  ClaimInv'
BY DEF ClaimInv

\* A retired token is out of it, whatever its request does.
LEMMA RetiredStays ==
  ASSUME NEW t \in Savers, Retired(t), t \notin atts', Holds(t)' => Holds(t),
         spc'[t] \in {"idle", "claim"} => spc[t] \in {"idle", "claim"},
         spc'[t] \in {"stale", "prior", "record", "put", "commit"} =>
           spc[t] \in {"idle", "claim", "stale", "prior", "record", "put", "commit"},
         t \in flight' => t \in flight \/ spc[t] = "commit"
  PROVE  Retired(t)'
BY DEF Retired, MayCommit

\* What the tokens are that a request gives up stays so.
LEMMA DoomedKept ==
  ASSUME DoomedInv, TypeOK, \A t \in Savers : Retired(t) => Retired(t)',
         \A s \in Savers : spc'[s] = "stale" =>
           \/ spc[s] = "stale" /\ doomed'[s] = doomed[s]
           \/ \A t \in doomed'[s] : Retired(t)'
  PROVE  DoomedInv'
BY DEF DoomedInv, TypeOK

\* What may happen to a token while its request does nothing.
Watches(t) ==
  /\ spc'[t] = spc[t] /\ base'[t] = base[t] /\ keep'[t] = keep[t]
  /\ t \in flight' <=> t \in flight
  /\ Holds(t)' => Holds(t)
  /\ Holds(t) /\ ops[KeyOf[t]].planned =>
       t \in intents' \/ (Holds(t)' /\ ops'[KeyOf[t]].planned)
  /\ t \in intents' => t \in intents \/ Retired(t)'
  /\ t \in intents => t \in intents' \/ (spc[t] = "done" /\ t \notin objects')
  /\ t \in deletions' => t \in deletions \/ Retired(t)'
  /\ t \in deletions => t \in deletions' \/ t \notin objects'
  /\ t \in objects' => t \in objects
  /\ t \in objects => t \in objects' \/ Retired(t)
  /\ t \in atts' => t \in atts
  /\ t \in atts => t \in atts' \/ t \in deletions'
  /\ spc[t] = "outcome" /\ ops[KeyOf[t]].state = "committed" =>
       ops'[KeyOf[t]].state = "committed"
  /\ spc[t] # "idle" /\ KeyOf[t] # NewKey /\ base[t] = version' =>
       version' = version /\ atts \subseteq atts'

(* What is known of a request and of its object survives the steps of others, as
   far as these respect the request's token. *)
LEMMA WatchingKeeps ==
  ASSUME NEW t \in Savers, TypeOK, RequestOf(t), ObjectOf(t), Watches(t)
  PROVE  /\ RequestOf(t)' /\ ObjectOf(t)'
         /\ Retired(t) => Retired(t)'
<1>1. Retired(t) => Retired(t)'
  <2> SUFFICES ASSUME Retired(t) PROVE Retired(t)'
    OBVIOUS
  <2>1. t \notin atts'
    BY DEF Watches, Retired
  <2> QED BY <2>1, RetiredStays DEF Watches
<1>2. ~Retired(t) /\ (Holds(t) /\ (spc[t] = "commit" \/ t \in flight) => t \in objects)
      => (Holds(t)' /\ (spc'[t] = "commit" \/ t \in flight') => t \in objects')
  BY DEF Watches
<1>3. Retired(t) => ~(Holds(t) /\ (spc[t] = "commit" \/ t \in flight))
  BY DEF Retired, MayCommit
<1>4. RequestOf(t)'
  <2> HIDE DEF Holds, Retired
  <2> QED BY <1>2, <1>3 DEF RequestOf, Watches
<1>5. Retired(t) => t \notin atts
  BY DEF Retired
<1>6. t \in intents' \cup deletions' \/ spc'[t] = "rollback" => Retired(t)'
  BY <1>1 DEF ObjectOf, Watches
<1>7. t \in atts' =>
        /\ t \in objects' /\ ~Holds(t)' /\ spc'[t] \in {"outcome", "done"}
        /\ spc'[t] = "outcome" => ops'[KeyOf[t]].state = "committed"
  BY <1>5 DEF ObjectOf, Watches
<1>8. t \in objects' \ atts' =>
        t \in intents' \cup deletions' \/ (Holds(t)' /\ ops'[KeyOf[t]].planned)
  BY DEF ObjectOf, Watches
<1>9. ObjectOf(t)'
  BY <1>6, <1>7, <1>8 DEF ObjectOf
<1> QED BY <1>1, <1>4, <1>9

\* The claims that are given up are nobody's any more, and what they recorded
\* is left to the cleanup.
LEMMA GivenUp ==
  ASSUME TypeOK, ClaimInv, NEW ks, ks \subseteq Claimed, GiveUp(ks)
  PROVE  /\ ops' \in [Keys -> OpRows] /\ intents' \subseteq Savers /\ lapsed' \subseteq Keys
         /\ \A k \in Keys : /\ ops'[k].owner = ops[k].owner
                            /\ ops'[k].state = "committed" <=> ops[k].state = "committed"
                            /\ ops'[k].state = "claimed" => ops'[k] = ops[k]
         /\ intents \subseteq intents'
         /\ \A t \in Savers :
              /\ Holds(t)' => Holds(t) /\ ops'[KeyOf[t]] = ops[KeyOf[t]]
              /\ KeyOf[t] \in ks => ~Holds(t)'
              /\ Holds(t) /\ ops[KeyOf[t]].planned =>
                   t \in intents' \/ (Holds(t)' /\ ops'[KeyOf[t]].planned)
              /\ t \in intents' =>
                   t \in intents \/ (Holds(t) /\ ~Holds(t)' /\ spc[t] \notin {"idle", "claim"})
<1> ks \subseteq Keys /\ \A k \in ks : ops[k].state = "claimed"
  BY DEF Claimed
<1>1. ops \in [Keys -> OpRows] /\ KeyOf \in [Savers -> Keys]
  BY DraftAssumption DEF TypeOK
<1>2. \A k \in Keys :
        ops'[k] = IF k \in ks THEN [ops[k] EXCEPT !.state = "aborted"] ELSE ops[k]
  BY DEF GiveUp
<1>3. ASSUME NEW k \in Keys
      PROVE  /\ ops'[k] \in OpRows /\ ops'[k].owner = ops[k].owner
             /\ ops'[k].planned = ops[k].planned
             /\ k \notin ks => ops'[k] = ops[k]
             /\ k \in ks => ops'[k].state = "aborted"
  BY <1>1, <1>2 DEF OpRows
<1>4. ops' \in [Keys -> OpRows]
  BY <1>3 DEF GiveUp
<1>5. \A k \in Keys : /\ ops'[k].owner = ops[k].owner
                      /\ ops'[k].state = "committed" <=> ops[k].state = "committed"
                      /\ ops'[k].state = "claimed" => ops'[k] = ops[k]
  BY <1>3
<1>6. intents' = intents \cup LeftBy(ks) /\ lapsed' = lapsed \ ks
  BY DEF GiveUp
<1>7. \A t : t \in LeftBy(ks) <=> \E k \in ks : ops[k].planned /\ t \in ops[k].owner
  BY DEF LeftBy
<1>8. ASSUME NEW t, t \in LeftBy(ks)
      PROVE  /\ t \in Savers /\ Holds(t) /\ KeyOf[t] \in ks /\ spc[t] \notin {"idle", "claim"}
  <2>1. PICK k \in ks : ops[k].planned /\ t \in ops[k].owner
    BY <1>7, <1>8
  <2>2. PICK s \in Savers : /\ ops[k].owner = {s} /\ KeyOf[s] = k
                            /\ spc[s] \notin {"idle", "claim"}
    BY DEF ClaimInv
  <2> QED BY <2>1, <2>2 DEF Holds
<1>9. intents' \subseteq Savers /\ lapsed' \subseteq Keys /\ intents \subseteq intents'
  BY <1>6, <1>8 DEF TypeOK
<1>10. ASSUME NEW t \in Savers
       PROVE  /\ Holds(t)' => Holds(t) /\ ops'[KeyOf[t]] = ops[KeyOf[t]]
              /\ KeyOf[t] \in ks => ~Holds(t)'
              /\ Holds(t) /\ KeyOf[t] \notin ks => Holds(t)' /\ ops'[KeyOf[t]] = ops[KeyOf[t]]
  BY <1>1, <1>3 DEF Holds
<1>11. ASSUME NEW t \in Savers, Holds(t), ops[KeyOf[t]].planned
       PROVE  t \in intents' \/ (Holds(t)' /\ ops'[KeyOf[t]].planned)
  <2>1. CASE KeyOf[t] \in ks
    <3>1. t \in ops[KeyOf[t]].owner
      BY <1>11 DEF Holds
    <3> QED BY <2>1, <3>1, <1>6, <1>7, <1>11
  <2>2. CASE KeyOf[t] \notin ks
    BY <2>2, <1>10, <1>11
  <2> QED BY <2>1, <2>2
<1>12. \A t \in Savers :
         t \in intents' =>
           t \in intents \/ (Holds(t) /\ ~Holds(t)' /\ spc[t] \notin {"idle", "claim"})
  BY <1>6, <1>8, <1>10
<1> QED BY <1>4, <1>5, <1>9, <1>10, <1>11, <1>12

-----------------------------------------------------------------------------
(* The alarm, and others who change the draft                              *)

\* The owner of each claim is one token.
LEMMA OwnersTyped ==
  ASSUME ClaimInv'
  PROVE  \A k \in Keys : Cardinality(ops'[k].owner) <= 1
BY OneOwner DEF ClaimInv

\* No request steps.
LEMMA QuietStep ==
  ASSUME DraftInv, Quiet, TypeOK', LifeInv', BaseInv', UNCHANGED commits, ClaimInv',
         \A t \in Savers : Watches(t)
  PROVE  DraftInv'
<1>1. TypeOK /\ SavedOnce /\ ToldIsSaved /\ TokenInv /\ DoomedInv
  BY DEF DraftInv
<1>2. UNCHANGED <<spc, told, doomed>>
  BY DEF Quiet, reqVars
<1>3. \A t \in Savers :
        RequestOf(t)' /\ ObjectOf(t)' /\ (Retired(t) => Retired(t)')
  BY <1>1, WatchingKeeps DEF TokenInv
<1>4. SavedOnce' /\ ToldIsSaved'
  BY <1>1, <1>2, CommitsKept
<1>5. DoomedInv'
  BY <1>1, <1>2, <1>3, DoomedKept
<1> QED BY <1>3, <1>4, <1>5 DEF DraftInv, TokenInv

(* A claim whose lease runs out is still held: it gives up no token. *)
LEMMA ClaimLapsesStep ==
  ASSUME DraftInv, NEW k \in Keys, ClaimLapses(k)
  PROVE  DraftInv'
<1>1. TypeOK /\ LifeInv /\ BaseInv /\ ClaimInv /\ TokenInv
  BY DEF DraftInv
<1>2. UNCHANGED <<mailVars, ops, intents, deletions, objects, reqVars, sfails>> /\ Quiet
      /\ lapsed' = lapsed \cup {k}
  BY DEF ClaimLapses, Quiet
<1>3. TypeOK' /\ LifeInv' /\ BaseInv' /\ ClaimInv'
  BY <1>1, <1>2, LifeKept, BaseKept, ClaimsKept DEF TypeOK, mailVars, reqVars, Begun
<1>4. \A t \in Savers : Watches(t)
  BY <1>2 DEF Watches, mailVars, reqVars, Holds
<1> QED BY <1>2, <1>3, <1>4, QuietStep DEF mailVars

(* The sweep gives up every claim that has lapsed, and leaves intents for what
   their requests promoted. *)
LEMMA SweepClaimsStep ==
  ASSUME DraftInv, SweepClaims
  PROVE  DraftInv'
<1>1. TypeOK /\ LifeInv /\ BaseInv /\ ClaimInv /\ TokenInv
  BY DEF DraftInv
<1> DEFINE ks == Claimed \cap lapsed
<1>2. /\ GiveUp(ks) /\ ks \subseteq Claimed
      /\ UNCHANGED <<mailVars, deletions, objects>> /\ Quiet
  BY DEF SweepClaims
<1>3. UNCHANGED <<version, atts, created, commits, spc, base, keep, doomed, flight, told, sfails>>
  BY <1>2 DEF Quiet, mailVars, reqVars
<1> HIDE DEF ks
<1>4. /\ ops' \in [Keys -> OpRows] /\ intents' \subseteq Savers /\ lapsed' \subseteq Keys
      /\ \A k \in Keys : /\ ops'[k].owner = ops[k].owner
                         /\ ops'[k].state = "committed" <=> ops[k].state = "committed"
                         /\ ops'[k].state = "claimed" => ops'[k] = ops[k]
      /\ intents \subseteq intents'
      /\ \A t \in Savers :
           /\ Holds(t)' => Holds(t) /\ ops'[KeyOf[t]] = ops[KeyOf[t]]
           /\ Holds(t) /\ ops[KeyOf[t]].planned =>
                t \in intents' \/ (Holds(t)' /\ ops'[KeyOf[t]].planned)
           /\ t \in intents' =>
                t \in intents \/ (Holds(t) /\ ~Holds(t)' /\ spc[t] \notin {"idle", "claim"})
  BY <1>1, <1>2, GivenUp
<1>5. ClaimInv'
  BY <1>1, <1>3, <1>4 DEF ClaimInv
<1>6. TypeOK'
  BY <1>1, <1>2, <1>3, <1>4, <1>5, OwnersTyped DEF TypeOK
<1>7. LifeInv' /\ BaseInv'
  BY <1>1, <1>2, <1>3, LifeKept, BaseKept DEF Begun
<1>8. ASSUME NEW t \in Savers PROVE Watches(t)
  <2>1. t \in intents' => t \in intents \/ Retired(t)'
    <3> SUFFICES ASSUME t \in intents', t \notin intents PROVE Retired(t)'
      OBVIOUS
    <3>1. Holds(t) /\ ~Holds(t)' /\ spc[t] \notin {"idle", "claim"}
      BY <1>4
    <3>2. t \notin atts
      BY <1>1, <3>1 DEF TokenInv, ObjectOf
    <3> QED BY <1>3, <3>1, <3>2 DEF Retired, MayCommit
  <2>2. KeyOf[t] \in Keys
    BY DraftAssumption
  <2> QED BY <1>2, <1>3, <1>4, <2>1, <2>2 DEF Watches
<1> QED BY <1>2, <1>3, <1>5, <1>6, <1>7, <1>8, QuietStep

\* Objects without a use are deleted, and their records with them or later.
LEMMA CleanupStep ==
  ASSUME DraftInv, NEW t \in Savers, Cleanup(t)
  PROVE  DraftInv'
<1>1. TypeOK /\ LifeInv /\ BaseInv /\ ClaimInv /\ TokenInv
  BY DEF DraftInv
<1>2. /\ t \in intents /\ objects' = objects \ {t} /\ Quiet
      /\ intents' = intents \/ (spc[t] = "done" /\ intents' = intents \ {t})
      /\ UNCHANGED <<mailVars, ops, lapsed, deletions, reqVars, sfails>>
  BY DEF Cleanup, Quiet
<1>3. TypeOK' /\ LifeInv' /\ BaseInv' /\ ClaimInv'
  BY <1>1, <1>2, LifeKept, BaseKept, ClaimsKept DEF TypeOK, mailVars, reqVars, Begun
<1>4. Retired(t)
  BY <1>1, <1>2 DEF TokenInv, ObjectOf
<1>5. \A x \in Savers : Watches(x)
  BY <1>2, <1>4 DEF Watches, mailVars, reqVars, Holds
<1> QED BY <1>2, <1>3, <1>5, QuietStep DEF mailVars

(* The deletion outbox takes an object that is not the draft's and never will be. *)
LEMMA DeleteStep ==
  ASSUME DraftInv, NEW t \in Savers, Delete(t)
  PROVE  DraftInv'
<1>1. TypeOK /\ LifeInv /\ BaseInv /\ ClaimInv /\ TokenInv
  BY DEF DraftInv
<1>2. /\ t \in deletions /\ objects' = objects \ {t} /\ Quiet
      /\ deletions' = deletions \ {t}
      /\ UNCHANGED <<mailVars, opVars, reqVars, sfails>>
  BY DEF Delete, Quiet
<1>3. TypeOK' /\ LifeInv' /\ BaseInv' /\ ClaimInv'
  BY <1>1, <1>2, LifeKept, BaseKept, ClaimsKept DEF TypeOK, mailVars, opVars, reqVars, Begun
<1>4. Retired(t)
  BY <1>1, <1>2 DEF TokenInv, ObjectOf
<1>5. \A x \in Savers : Watches(x)
  BY <1>2, <1>4 DEF Watches, mailVars, opVars, reqVars, Holds
<1> QED BY <1>2, <1>3, <1>5, QuietStep DEF mailVars

\* The record of a finished save is forgotten when no request of it is left.
LEMMA PruneStep ==
  ASSUME DraftInv, NEW k \in Keys, Prune(k)
  PROVE  DraftInv'
<1>1. TypeOK /\ LifeInv /\ BaseInv /\ ClaimInv /\ TokenInv
  BY DEF DraftInv
<1>2. /\ ops[k].state \in {"committed", "aborted"} /\ ops' = [ops EXCEPT ![k] = NoOp]
      /\ \A s \in Savers : KeyOf[s] = k => spc[s] \in {"idle", "done"} /\ s \notin flight
      /\ UNCHANGED <<mailVars, lapsed, intents, deletions, objects, reqVars, sfails>> /\ Quiet
  BY DEF Prune, Quiet
<1>3. NoOp \in OpRows /\ NoOp.owner = {} /\ NoOp.state = "none"
  BY DraftAssumption DEF NoOp, OpRows
<1>4. ops' \in [Keys -> OpRows] /\ \A x \in Keys : ops'[x] = IF x = k THEN NoOp ELSE ops[x]
  BY <1>1, <1>2, <1>3 DEF TypeOK
<1>5. ClaimInv'
  BY <1>1, <1>2, <1>3, <1>4 DEF ClaimInv, mailVars, reqVars
<1>6. TypeOK'
  BY <1>1, <1>2, <1>4, <1>5, OwnersTyped DEF TypeOK, mailVars, reqVars
<1>7. LifeInv' /\ BaseInv'
  BY <1>1, <1>2, LifeKept, BaseKept DEF mailVars, reqVars, Begun
<1>8. ASSUME NEW t \in Savers PROVE Watches(t)
  <2>1. KeyOf[t] \in Keys
    BY DraftAssumption
  <2>2. ~Holds(t) \/ KeyOf[t] # k
    BY <1>2 DEF Holds
  <2>3. (Holds(t)' <=> Holds(t)) /\ (Holds(t) => ops'[KeyOf[t]] = ops[KeyOf[t]])
    BY <1>2, <1>3, <1>4, <2>1, <2>2 DEF Holds
  <2>4. spc[t] = "outcome" => KeyOf[t] # k
    BY <1>2
  <2>5. spc[t] = "outcome" => ops'[KeyOf[t]] = ops[KeyOf[t]]
    BY <1>4, <2>1, <2>4
  <2> QED BY <1>2, <2>3, <2>5 DEF Watches, mailVars, reqVars
<1> QED BY <1>2, <1>5, <1>6, <1>7, <1>8, QuietStep DEF mailVars

\* The revision moves on without its save.
LEMMA UpdateDraftStep ==
  ASSUME DraftInv, UpdateDraft
  PROVE  DraftInv'
<1>1. TypeOK /\ LifeInv /\ BaseInv /\ ClaimInv /\ TokenInv
  BY DEF DraftInv
<1>2. /\ version \in 1..(MaxVersion - 1) /\ version' = version + 1 /\ Quiet
      /\ UNCHANGED <<atts, created, commits, opVars, deletions, objects, reqVars, sfails>>
  BY DEF UpdateDraft, Quiet
<1>3. TypeOK' /\ ClaimInv'
  BY <1>1, <1>2, ClaimsKept, DraftAssumption DEF TypeOK, opVars, reqVars
<1>4. LifeInv'
  BY <1>1, <1>2 DEF LifeInv, reqVars
<1>5. BaseInv'
  <2>1. \A s \in Savers : Begun(s)' <=> Begun(s)
    BY <1>2 DEF Begun, reqVars
  <2>2. \A k \in Keys : Attempts(k)' = Attempts(k) /\ Attempts(k) \subseteq Savers
    BY <2>1 DEF Attempts
  <2>3. version \in Nat /\ version > 0 /\ base \in [Savers -> Nat]
    BY <1>1, <1>2, DraftAssumption DEF TypeOK
  <2> QED BY <1>1, <1>2, <2>1, <2>2, <2>3 DEF BaseInv, reqVars
<1>6. ASSUME NEW t \in Savers PROVE Watches(t)
  <2>1. KeyOf[t] # NewKey /\ spc[t] # "idle" => base[t] # version'
    BY <1>1, <1>2, DraftAssumption DEF BaseInv, TypeOK, Begun
  <2> QED BY <1>2, <2>1 DEF Watches, opVars, reqVars, Holds
<1> QED BY <1>2, <1>3, <1>4, <1>5, <1>6, QuietStep DEF mailVars

\* The draft ends with all its attachments queued for deletion.
LEMMA EndDraftStep ==
  ASSUME DraftInv, EndDraft
  PROVE  DraftInv'
<1>1. TypeOK /\ LifeInv /\ BaseInv /\ ClaimInv /\ TokenInv
  BY DEF DraftInv
<1>2. /\ version > 0 /\ version' = 0 /\ atts' = {} /\ deletions' = deletions \cup atts
      /\ created' = IF created = "active" THEN "gone" ELSE created
      /\ UNCHANGED <<commits, opVars, objects, reqVars, sfails>> /\ Quiet
  BY DEF EndDraft, Quiet, Replace
<1>3. TypeOK' /\ ClaimInv'
  BY <1>1, <1>2, ClaimsKept, DraftAssumption DEF TypeOK, opVars, reqVars
<1>4. LifeInv'
  BY <1>1, <1>2, DraftAssumption DEF LifeInv, reqVars, TypeOK
<1>5. BaseInv'
  <2>1. \A s \in Savers : Begun(s)' <=> Begun(s)
    BY <1>2 DEF Begun, reqVars
  <2>2. \A k \in Keys : Attempts(k)' = Attempts(k)
    BY <1>2, <2>1 DEF Attempts
  <2> QED BY <1>1, <1>2, <2>1, <2>2 DEF BaseInv, reqVars
<1>6. ASSUME NEW t \in Savers PROVE Watches(t)
  <2>1. KeyOf[t] # NewKey /\ spc[t] # "idle" => base[t] # version'
    BY <1>1, <1>2, DraftAssumption DEF BaseInv, TypeOK, Begun
  <2>2. t \in atts => Retired(t)'
    <3>1. t \in atts => ~Holds(t) /\ spc[t] \in {"outcome", "done"}
      BY <1>1 DEF TokenInv, ObjectOf
    <3> QED BY <1>2, <3>1 DEF Retired, MayCommit, Holds, opVars, reqVars
  <2> QED BY <1>2, <2>1, <2>2 DEF Watches, opVars, reqVars, Holds
<1> QED BY <1>2, <1>3, <1>4, <1>5, <1>6, QuietStep DEF mailVars

-----------------------------------------------------------------------------
(* What a request's own steps have in common                               *)

\* One request steps, nothing is committed, and the others may only watch.
LEMMA SaverStepKeeps ==
  ASSUME DraftInv, NEW s \in Savers, TypeOK', LifeInv', BaseInv', UNCHANGED commits, ClaimInv',
         \A t \in told' : t \in told \/ commits[KeyOf[t]] = 1,
         \A t \in Savers \ {s} : Watches(t),
         RequestOf(s)', ObjectOf(s)', Retired(s) => Retired(s)',
         \A t \in Savers : spc'[t] = "stale" =>
           \/ spc[t] = "stale" /\ doomed'[t] = doomed[t]
           \/ \A u \in doomed'[t] : Retired(u)'
  PROVE  DraftInv'
<1>1. TypeOK /\ SavedOnce /\ ToldIsSaved /\ TokenInv /\ DoomedInv
  BY DEF DraftInv
<1>2. \A t \in Savers \ {s} :
        RequestOf(t)' /\ ObjectOf(t)' /\ (Retired(t) => Retired(t)')
  BY <1>1, WatchingKeeps DEF TokenInv
<1>3. SavedOnce' /\ ToldIsSaved'
  BY <1>1, CommitsKept
<1>4. \A t \in Savers : Retired(t) => Retired(t)'
  BY <1>2
<1>5. DoomedInv'
  BY <1>1, <1>4, DoomedKept
<1> QED BY <1>2, <1>3, <1>5 DEF DraftInv, TokenInv

\* The request moves, and begins nothing.
LEMMA Moves ==
  ASSUME DraftInv, NEW s \in Savers, NEW p \in SPCs \ {"idle", "claim"}, To(s, p),
         spc[s] # "idle"
  PROVE  /\ spc' \in [Savers -> SPCs] /\ spc'[s] = p
         /\ \A t \in Savers \ {s} : spc'[t] = spc[t]
         /\ \A t \in Savers : Begun(t)' <=> Begun(t)
         /\ \A t \in Savers : spc[t] \notin {"idle", "claim"} => spc'[t] \notin {"idle", "claim"}
<1>1. spc \in [Savers -> SPCs]
  BY DEF DraftInv, TypeOK
<1>2. spc' = [spc EXCEPT ![s] = p]
  BY DEF To
<1> QED BY <1>1, <1>2 DEF SPCs, Begun

-----------------------------------------------------------------------------
(* Requests that leave the draft and the claims alone                      *)

\* A retry repeats the revision of an earlier attempt.
LEMMA BeginBase ==
  ASSUME DraftInv, NEW s \in Savers, Begin(s)
  PROVE  \/ KeyOf[s] = NewKey /\ base' = base
         \/ /\ KeyOf[s] # NewKey /\ version > 0
            /\ \E b \in 1..MaxVersion :
                 /\ base' = [base EXCEPT ![s] = b] /\ b <= version
                 /\ \A t \in Attempts(KeyOf[s]) : base[t] = b
<1> DEFINE T == {t \in Savers \ {s} : KeyOf[t] = KeyOf[s] /\ spc[t] # "idle"}
<1>1. TypeOK /\ BaseInv /\ spc[s] = "idle"
  BY DEF DraftInv, Begin
<1>2. CASE KeyOf[s] = NewKey
  BY <1>2 DEF Begin
<1>3. CASE KeyOf[s] # NewKey /\ T # {}
  <2>1. /\ version > 0
        /\ base' = [base EXCEPT ![s] =
             base[CHOOSE t \in Savers \ {s} : KeyOf[t] = KeyOf[s] /\ spc[t] # "idle"]]
    BY <1>3 DEF Begin
  <2>2. PICK t \in T :
          t = CHOOSE x \in Savers \ {s} : KeyOf[x] = KeyOf[s] /\ spc[x] # "idle"
    BY <1>3
  <2>3. base[t] \in 1..MaxVersion /\ base[t] <= version
    BY <1>1, <1>3, <2>1, <2>2, DraftAssumption DEF BaseInv, TypeOK, Begun
  <2>4. \A x \in Attempts(KeyOf[s]) : base[x] = base[t]
    BY <1>1, <2>2 DEF BaseInv, Attempts, Begun
  <2> HIDE DEF T
  <2> QED BY <1>3, <2>1, <2>2, <2>3, <2>4
<1>4. CASE KeyOf[s] # NewKey /\ T = {}
  <2>1. version > 0 /\ base' = [base EXCEPT ![s] = version]
    BY <1>4 DEF Begin
  <2>2. Attempts(KeyOf[s]) = {}
    BY <1>1, <1>4 DEF Attempts, Begun
  <2>3. version \in 1..MaxVersion /\ version <= version
    BY <1>1, <2>1, DraftAssumption DEF TypeOK
  <2> QED BY <1>4, <2>1, <2>2, <2>3
<1> QED BY <1>2, <1>3, <1>4

(* A request begins from the revision it sees, or from that of the attempt it
   repeats, and holds no claim yet. *)
LEMMA BeginStep ==
  ASSUME DraftInv, NEW s \in Savers, Begin(s)
  PROVE  DraftInv'
<1>1. TypeOK /\ LifeInv /\ BaseInv /\ ClaimInv /\ TokenInv /\ DoomedInv /\ SavedOnce
  BY DEF DraftInv
<1> DEFINE p == IF Recreates(s) THEN "done" ELSE "claim"
<1>2. /\ spc[s] = "idle" /\ To(s, p) /\ p \in {"done", "claim"}
      /\ told' = told \cup {x \in {s} : Recreates(s) /\ created = "active" /\ version = 1}
      /\ UNCHANGED <<mailVars, opVars, deletions, objects, keep, doomed, flight, sfails>>
  BY DEF Begin
<1> HIDE DEF p
<1>3. UNCHANGED <<version, atts, created, commits, ops, lapsed, intents>>
  BY <1>2 DEF mailVars, opVars
<1>4. /\ spc' = [spc EXCEPT ![s] = p] /\ spc' \in [Savers -> SPCs]
      /\ \A t \in Savers : Begun(t)' <=> Begun(t) \/ t = s
      /\ \A t \in Savers \ {s} : spc'[t] = spc[t]
      /\ spc'[s] \in {"claim", "done"}
  BY <1>1, <1>2 DEF To, TypeOK, SPCs, Begun
<1>5. /\ base' \in [Savers -> 0..MaxVersion] /\ \A t \in Savers \ {s} : base'[t] = base[t]
      /\ IF KeyOf[s] = NewKey THEN base'[s] = 0
         ELSE /\ base'[s] \in 1..MaxVersion /\ version > 0 /\ base'[s] <= version
              /\ \A t \in Attempts(KeyOf[s]) : base'[s] = base[t]
  BY <1>1, BeginBase, DraftAssumption DEF TypeOK, BaseInv
<1>6. ~Holds(s)
  <2> SUFFICES ASSUME Holds(s) PROVE FALSE
    OBVIOUS
  <2>1. KeyOf[s] \in Keys /\ ops[KeyOf[s]].state = "claimed" /\ ops[KeyOf[s]].owner = {s}
    BY DraftAssumption DEF Holds
  <2>2. PICK t \in Savers : ops[KeyOf[s]].owner = {t} /\ spc[t] \notin {"idle", "claim"}
    BY <1>1, <2>1 DEF ClaimInv
  <2> QED BY <1>2, <2>1, <2>2
<1>7. ClaimInv'
  BY <1>1, <1>2, <1>3, <1>4, <1>5 DEF ClaimInv
<1>8. TypeOK'
  BY <1>1, <1>2, <1>3, <1>4, <1>5 DEF TypeOK
<1>9. LifeInv'
  BY <1>1, <1>2, LifeKept
<1>10. BaseInv'
  <2>1. \A t \in Savers :
          IF KeyOf[t] = NewKey THEN base'[t] = 0
          ELSE Begun(t)' => base'[t] > 0 /\ created # "none" /\ (version > 0 => base'[t] <= version)
    BY <1>1, <1>4, <1>5, DraftAssumption DEF BaseInv, LifeInv
  <2>2. \A t, u \in Savers :
          KeyOf[t] = KeyOf[u] /\ Begun(t)' /\ Begun(u)' => base'[t] = base'[u]
    BY <1>1, <1>4, <1>5 DEF BaseInv, Attempts
  <2>3. ASSUME NEW k \in Keys \ {NewKey}, commits[k] # 0
        PROVE  /\ Attempts(k)' # {}
               /\ version > 0 => \A t \in Attempts(k)' : base'[t] < version
    <3>1. Attempts(k) # {} /\ (version > 0 => \A t \in Attempts(k) : base[t] < version)
      BY <1>1, <2>3 DEF BaseInv
    <3>2. \A t : t \in Attempts(k)' <=> t \in Attempts(k) \/ (t = s /\ KeyOf[s] = k)
      BY <1>4 DEF Attempts
    <3>3. PICK u : u \in Attempts(k)
      BY <3>1
    <3>4. KeyOf[s] = k => base'[s] = base[u]
      BY <1>5, <3>3
    <3>5. \A t \in Attempts(k) : t # s => base'[t] = base[t]
      BY <1>5 DEF Attempts
    <3>6. s \notin Attempts(k)
      BY <1>2 DEF Attempts, Begun
    <3>7. ASSUME version > 0, NEW t \in Attempts(k)' PROVE base'[t] < version
      BY <3>1, <3>2, <3>3, <3>4, <3>5, <3>6, <3>7
    <3> QED BY <3>2, <3>3, <3>7
  <2> QED BY <1>3, <2>1, <2>2, <2>3 DEF BaseInv
<1>11. \A t \in told' : t \in told \/ commits[KeyOf[t]] = 1
  <2>1. Recreates(s) => commits[KeyOf[s]] = 1
    BY <1>1 DEF Recreates, LifeInv
  <2> QED BY <1>2, <2>1
<1>12. \A t \in Savers \ {s} : Watches(t)
  BY <1>2, <1>3, <1>4, <1>5 DEF Watches, Holds
<1>13. ~Retired(s)
  BY <1>2 DEF Retired, MayCommit
<1>14. RequestOf(s)' /\ ObjectOf(s)'
  <2>1. /\ s \notin flight /\ s \notin objects /\ s \notin intents \cup deletions
        /\ s \notin atts /\ ~Holds(s)
    BY <1>1, <1>2, <1>6, <1>13 DEF TokenInv, RequestOf, ObjectOf
  <2>2. ~Holds(s)'
    BY <1>3, <2>1 DEF Holds
  <2> QED BY <1>2, <1>3, <1>4, <2>1, <2>2 DEF RequestOf, ObjectOf
<1>15. \A t \in Savers : spc'[t] = "stale" => spc[t] = "stale" /\ doomed'[t] = doomed[t]
  BY <1>2, <1>4
<1> QED BY <1>3, <1>7, <1>8, <1>9, <1>10, <1>11, <1>12, <1>13, <1>14, <1>15, SaverStepKeeps

\* Only a request and the objects move.
LEMMA ObjectStep ==
  ASSUME DraftInv, NEW s \in Savers, NEW p \in SPCs \ {"idle", "claim", "stale"}, To(s, p),
         spc[s] # "idle",
         UNCHANGED <<mailVars, opVars, base, keep, doomed, flight, told>>,
         objects' \subseteq Savers, deletions' \subseteq Savers, sfails' \in 0..MaxSaveFails,
         \A t \in objects \ objects' : Retired(t),
         \A t \in objects' \ objects : t = s,
         \A t \in deletions' \ deletions : Retired(t)',
         deletions \subseteq deletions',
         Retired(s) => Retired(s)', RequestOf(s)', ObjectOf(s)'
  PROVE  DraftInv'
<1>1. TypeOK /\ LifeInv /\ BaseInv /\ ClaimInv /\ TokenInv
  BY DEF DraftInv
<1>2. UNCHANGED <<version, atts, created, commits, ops, lapsed, intents>>
  BY DEF mailVars, opVars
<1>3. /\ spc' \in [Savers -> SPCs] /\ spc'[s] = p
      /\ \A t \in Savers \ {s} : spc'[t] = spc[t]
      /\ \A t \in Savers : Begun(t)' <=> Begun(t)
      /\ \A t \in Savers : spc[t] \notin {"idle", "claim"} => spc'[t] \notin {"idle", "claim"}
  BY Moves
<1>4. TypeOK'
  BY <1>1, <1>2, <1>3 DEF TypeOK
<1>5. LifeInv' /\ BaseInv' /\ ClaimInv'
  BY <1>1, <1>2, <1>3, LifeKept, BaseKept, ClaimsKept
<1>6. ASSUME NEW t \in Savers \ {s} PROVE Watches(t)
  <2>1. Holds(t)' <=> Holds(t)
    BY <1>2 DEF Holds
  <2> QED BY <1>2, <1>3, <2>1 DEF Watches
<1>7. \A t \in Savers : spc'[t] = "stale" => spc[t] = "stale" /\ doomed'[t] = doomed[t]
  BY <1>3
<1> QED BY <1>2, <1>4, <1>5, <1>6, <1>7, SaverStepKeeps

(* What a claim removes of the attempts it gave up is retired. *)
LEMMA RollBackStaleStep ==
  ASSUME DraftInv, NEW s \in Savers, RollBackStale(s)
  PROVE  DraftInv'
<1>1. TypeOK /\ TokenInv /\ DoomedInv
  BY DEF DraftInv
<1>2. /\ spc[s] = "stale" /\ To(s, "prior") /\ Discards(doomed[s])
      /\ UNCHANGED <<mailVars, opVars, base, keep, doomed, flight, told>>
  BY DEF RollBackStale
<1>3. /\ objects' = objects \/ objects' = objects \ doomed[s]
      /\ deletions' = deletions \/ deletions' = deletions \cup doomed[s]
      /\ sfails' \in 0..MaxSaveFails
  BY <1>1, <1>2, DraftAssumption DEF Discards, Works, Fails, TypeOK
<1>4. doomed[s] \subseteq Savers /\ \A t \in doomed[s] : Retired(t)
  BY <1>1, <1>2 DEF TypeOK, DoomedInv
<1>5. spc' = [spc EXCEPT ![s] = "prior"] /\ spc' \in [Savers -> SPCs]
  BY <1>1, <1>2 DEF To, TypeOK, SPCs
<1>6. UNCHANGED <<version, atts, ops, intents>> /\ \A t : Holds(t)' <=> Holds(t)
  BY <1>2 DEF mailVars, opVars, Holds
<1>7. \A t \in Savers : Retired(t) => Retired(t)'
  BY <1>1, <1>2, <1>5, <1>6 DEF Retired, MayCommit, TypeOK
<1>8. RequestOf(s) /\ ObjectOf(s) /\ s \notin objects /\ s \notin flight /\ s \notin atts
  BY <1>1, <1>2 DEF TokenInv, RequestOf, ObjectOf
<1>9. RequestOf(s)'
  BY <1>2, <1>3, <1>5, <1>8 DEF RequestOf, TypeOK
<1>10. ObjectOf(s)'
  <2>1. s \in intents' \cup deletions' => Retired(s)'
    BY <1>3, <1>4, <1>6, <1>7, <1>8 DEF ObjectOf
  <2> QED BY <1>1, <1>3, <1>5, <1>6, <1>8, <2>1 DEF ObjectOf, TypeOK
<1>11. "prior" \in SPCs \ {"idle", "claim", "stale"}
  BY DEF SPCs
<1>12. /\ objects' \subseteq Savers /\ deletions' \subseteq Savers /\ deletions \subseteq deletions'
       /\ \A t \in objects \ objects' : Retired(t)
       /\ \A t \in objects' \ objects : t = s
       /\ \A t \in deletions' \ deletions : Retired(t)'
  BY <1>1, <1>3, <1>4, <1>7 DEF TypeOK
<1> QED BY <1>2, <1>3, <1>7, <1>9, <1>10, <1>11, <1>12, ObjectStep

(* What a request keeps is read while the draft has the revision it starts from,
   or the draft has left that revision. *)
LEMMA ReadPriorStep ==
  ASSUME DraftInv, NEW s \in Savers, ReadPrior(s)
  PROVE  DraftInv'
<1>1. TypeOK /\ LifeInv /\ BaseInv /\ ClaimInv /\ TokenInv
  BY DEF DraftInv
<1>2. PICK a \in SUBSET atts : keep' = [keep EXCEPT ![s] = a]
  BY DEF ReadPrior
<1>3. /\ spc[s] = "prior" /\ To(s, "record")
      /\ UNCHANGED <<mailVars, opVars, deletions, objects, base, doomed, flight, told, sfails>>
  BY DEF ReadPrior
<1>4. UNCHANGED <<version, atts, created, commits, ops, lapsed, intents>>
  BY <1>3 DEF mailVars, opVars
<1>5. "record" \in SPCs \ {"idle", "claim", "stale"}
  BY DEF SPCs
<1>6. /\ spc' \in [Savers -> SPCs] /\ spc'[s] = "record"
      /\ \A t \in Savers \ {s} : spc'[t] = spc[t]
      /\ \A t \in Savers : Begun(t)' <=> Begun(t)
      /\ \A t \in Savers : spc[t] \notin {"idle", "claim"} => spc'[t] \notin {"idle", "claim"}
  BY <1>3, <1>5, Moves
<1>7. keep' \in [Savers -> SUBSET Savers] /\ keep'[s] \subseteq atts
      /\ \A t \in Savers \ {s} : keep'[t] = keep[t]
  BY <1>1, <1>2 DEF TypeOK
<1>8. TypeOK'
  BY <1>1, <1>3, <1>4, <1>6, <1>7 DEF TypeOK
<1>9. BaseInv' /\ ClaimInv'
  BY <1>1, <1>3, <1>4, <1>6, BaseKept, ClaimsKept
<1>10. LifeInv'
  <2>1. created = "none" => keep' = [t \in Savers |-> {}]
    <3> SUFFICES ASSUME created = "none" PROVE keep' = [t \in Savers |-> {}]
      OBVIOUS
    <3>1. a = {} /\ keep = [t \in Savers |-> {}]
      BY <1>1 DEF LifeInv
    <3> QED BY <1>2, <3>1
  <2> QED BY <1>1, <1>4, <2>1 DEF LifeInv
<1>11. \A t : Holds(t)' <=> Holds(t)
  BY <1>4 DEF Holds
<1>12. \A t \in Savers \ {s} : Watches(t)
  BY <1>3, <1>4, <1>6, <1>7, <1>11 DEF Watches
<1>13. Retired(s) => Retired(s)'
  BY <1>3, <1>4, <1>6, <1>11 DEF Retired, MayCommit
<1>14. RequestOf(s)' /\ ObjectOf(s)'
  <2>1. RequestOf(s) /\ ObjectOf(s) /\ s \notin objects /\ s \notin flight /\ s \notin atts
    BY <1>1, <1>3 DEF TokenInv, RequestOf, ObjectOf
  <2>2. RequestOf(s)'
    BY <1>3, <1>4, <1>6, <1>7, <2>1 DEF RequestOf
  <2>3. ObjectOf(s)'
    BY <1>3, <1>4, <1>6, <1>13, <2>1 DEF ObjectOf
  <2> QED BY <2>2, <2>3
<1>15. \A t \in Savers : spc'[t] = "stale" => spc[t] = "stale" /\ doomed'[t] = doomed[t]
  BY <1>3, <1>6
<1> QED BY <1>3, <1>4, <1>8, <1>9, <1>10, <1>12, <1>13, <1>14, <1>15, SaverStepKeeps

(* The promotion of an attempt writes its own object only. *)
LEMMA PromoteStep ==
  ASSUME DraftInv, NEW s \in Savers, Promote(s)
  PROVE  DraftInv'
<1>1. TypeOK /\ TokenInv
  BY DEF DraftInv
<1>2. /\ spc[s] = "put" /\ UNCHANGED <<mailVars, opVars, base, keep, doomed, flight, told>>
  BY DEF Promote
<1>3. UNCHANGED <<version, atts, ops, intents>> /\ \A t : Holds(t)' <=> Holds(t)
  BY <1>2 DEF mailVars, opVars, Holds
<1>4. PICK p \in {"commit", "abort"} :
        /\ To(s, p)
        /\ objects' = objects \cup {s} \/ (p = "abort" /\ objects' = objects)
        /\ deletions' = deletions \/ (p = "abort" /\ deletions' = deletions \cup {s})
        /\ sfails' \in 0..MaxSaveFails
  BY <1>1, DraftAssumption DEF Promote, Works, Fails, TypeOK
<1>5. spc' = [spc EXCEPT ![s] = p] /\ spc' \in [Savers -> SPCs] /\ spc'[s] = p
  BY <1>1, <1>4 DEF To, TypeOK, SPCs
<1>6. /\ RequestOf(s) /\ ObjectOf(s) /\ s \notin objects /\ s \notin flight /\ s \notin atts
      /\ s \in intents \/ (Holds(s) /\ ops[KeyOf[s]].planned)
  BY <1>1, <1>2 DEF TokenInv, RequestOf, ObjectOf
<1>7. Retired(s) => Retired(s)'
  BY <1>2, <1>3, <1>4, <1>5 DEF Retired, MayCommit
<1>8. p = "abort" => Retired(s)'
  BY <1>2, <1>3, <1>5, <1>6 DEF Retired, MayCommit
<1>9. RequestOf(s)'
  <2>1. p = "commit" => s \in objects'
    BY <1>4
  <2> QED BY <1>2, <1>3, <1>4, <1>5, <1>6, <2>1 DEF RequestOf
<1>10. ObjectOf(s)'
  <2>1. s \in intents' \cup deletions' => Retired(s)'
    BY <1>3, <1>4, <1>6, <1>7, <1>8 DEF ObjectOf
  <2> QED BY <1>3, <1>4, <1>5, <1>6, <2>1 DEF ObjectOf
<1>11. p \in SPCs \ {"idle", "claim", "stale"}
  BY DEF SPCs
<1>12. /\ objects' \subseteq Savers /\ deletions' \subseteq Savers /\ deletions \subseteq deletions'
       /\ \A t \in objects \ objects' : Retired(t)
       /\ \A t \in objects' \ objects : t = s
       /\ \A t \in deletions' \ deletions : Retired(t)'
  BY <1>1, <1>4, <1>8 DEF TypeOK
<1> QED BY <1>2, <1>4, <1>7, <1>9, <1>10, <1>11, <1>12, ObjectStep

(* A refused request removes only what its own attempt has promoted. *)
LEMMA RollBackStep ==
  ASSUME DraftInv, NEW s \in Savers, RollBack(s)
  PROVE  DraftInv'
<1>1. TypeOK /\ TokenInv
  BY DEF DraftInv
<1>2. /\ spc[s] = "rollback" /\ To(s, "abort") /\ Discards({s})
      /\ UNCHANGED <<mailVars, opVars, base, keep, doomed, flight, told>>
  BY DEF RollBack
<1>3. /\ \/ objects' = objects /\ deletions' = deletions \cup {s}
         \/ objects' = objects \ {s} /\ deletions' = deletions
      /\ sfails' \in 0..MaxSaveFails
  BY <1>1, <1>2, DraftAssumption DEF Discards, Works, Fails, TypeOK
<1>4. UNCHANGED <<version, atts, ops, intents>> /\ \A t : Holds(t)' <=> Holds(t)
  BY <1>2 DEF mailVars, opVars, Holds
<1>5. spc' = [spc EXCEPT ![s] = "abort"] /\ spc'[s] = "abort"
  BY <1>1, <1>2 DEF To, TypeOK
<1>6. RequestOf(s) /\ ObjectOf(s) /\ Retired(s) /\ s \notin atts
  BY <1>1, <1>2 DEF TokenInv, RequestOf, ObjectOf
<1>7. Retired(s)'
  BY <1>2, <1>4, <1>5, <1>6 DEF Retired, MayCommit
<1>8. RequestOf(s)'
  <2>1. ~(Holds(s) /\ s \in flight)
    BY <1>6 DEF Retired, MayCommit
  <2> QED BY <1>2, <1>3, <1>4, <1>5, <1>6, <2>1 DEF RequestOf
<1>9. ObjectOf(s)'
  <2> HIDE DEF Retired, Holds
  <2> QED BY <1>2, <1>3, <1>4, <1>5, <1>6, <1>7 DEF ObjectOf
<1>10. "abort" \in SPCs \ {"idle", "claim", "stale"}
  BY DEF SPCs
<1>11. /\ objects' \subseteq Savers /\ deletions' \subseteq Savers /\ deletions \subseteq deletions'
       /\ \A t \in objects \ objects' : Retired(t)
       /\ \A t \in objects' \ objects : t = s
       /\ \A t \in deletions' \ deletions : Retired(t)'
  BY <1>1, <1>3, <1>6, <1>7 DEF TypeOK
<1> QED BY <1>2, <1>3, <1>7, <1>8, <1>9, <1>10, <1>11, ObjectStep

\* A request ends or rolls back, and may give up claims.
LEMMA Releases ==
  ASSUME DraftInv, NEW s \in Savers, NEW p \in {"rollback", "done"}, To(s, p),
         spc[s] # "idle", NEW ks, ks \subseteq Claimed, UNCHANGED opVars \/ GiveUp(ks),
         UNCHANGED <<mailVars, deletions, objects, base, keep, doomed>>,
         told' \subseteq Savers, \A t \in told' : t \in told \/ commits[KeyOf[t]] = 1,
         sfails' \in 0..MaxSaveFails,
         flight' = flight \/ (spc[s] = "commit" /\ p = "done" /\ flight' = flight \cup {s}),
         p = "rollback" => s \notin atts /\ ~Holds(s)'
  PROVE  DraftInv'
<1>1. TypeOK /\ LifeInv /\ BaseInv /\ ClaimInv /\ TokenInv
  BY DEF DraftInv
<1>2. UNCHANGED <<version, atts, created, commits>>
  BY DEF mailVars
<1>3. KeyOf[s] \in Keys /\ \A t \in Savers : KeyOf[t] \in Keys
  BY DraftAssumption
<1>4. /\ ops' \in [Keys -> OpRows] /\ intents' \subseteq Savers /\ lapsed' \subseteq Keys
      /\ \A k \in Keys : /\ ops'[k].owner = ops[k].owner
                         /\ ops'[k].state = "committed" <=> ops[k].state = "committed"
                         /\ ops'[k].state = "claimed" => ops'[k] = ops[k]
      /\ intents \subseteq intents'
      /\ \A t \in Savers :
           /\ Holds(t)' => Holds(t) /\ ops'[KeyOf[t]] = ops[KeyOf[t]]
           /\ Holds(t) /\ ops[KeyOf[t]].planned =>
                t \in intents' \/ (Holds(t)' /\ ops'[KeyOf[t]].planned)
           /\ t \in intents' =>
                t \in intents \/ (Holds(t) /\ ~Holds(t)' /\ spc[t] \notin {"idle", "claim"})
  <2>1. CASE UNCHANGED opVars
    BY <1>1, <2>1 DEF opVars, TypeOK, Holds
  <2>2. CASE GiveUp(ks)
    BY <1>1, <2>2, GivenUp
  <2> QED BY <2>1, <2>2
<1>5. p \in SPCs \ {"idle", "claim"}
  BY DEF SPCs
<1>6. /\ spc' \in [Savers -> SPCs] /\ spc'[s] = p
      /\ \A t \in Savers \ {s} : spc'[t] = spc[t]
      /\ \A t \in Savers : Begun(t)' <=> Begun(t)
      /\ \A t \in Savers : spc[t] \notin {"idle", "claim"} => spc'[t] \notin {"idle", "claim"}
  BY <1>5, Moves
<1>7. ClaimInv'
  BY <1>1, <1>2, <1>4, <1>6 DEF ClaimInv
<1>8. TypeOK'
  BY <1>1, <1>2, <1>4, <1>6, <1>7, OwnersTyped DEF TypeOK
<1>9. LifeInv' /\ BaseInv'
  BY <1>1, <1>2, <1>6, LifeKept, BaseKept
<1>10. ASSUME NEW t \in Savers, t \in intents', t \notin intents
       PROVE  t \notin atts /\ ~Holds(t)' /\ Holds(t) /\ spc[t] \notin {"idle", "claim"}
  BY <1>1, <1>4, <1>10 DEF TokenInv, ObjectOf
<1>11. \A t \in Savers : t \in intents' => t \in intents \/ Retired(t)'
  BY <1>2, <1>6, <1>10 DEF Retired, MayCommit
<1>12. \A t \in Savers \ {s} : Watches(t)
  BY <1>2, <1>3, <1>4, <1>6, <1>11 DEF Watches
<1>13. Retired(s) => Retired(s)'
  BY <1>2, <1>4, <1>6 DEF Retired, MayCommit
<1>14. RequestOf(s) /\ ObjectOf(s)
  BY <1>1 DEF TokenInv
<1>15. RequestOf(s)'
  BY <1>2, <1>4, <1>6, <1>14 DEF RequestOf
<1>16. ObjectOf(s)'
  <2>1. p = "rollback" => Retired(s)'
    BY <1>2, <1>6 DEF Retired, MayCommit
  <2>2. s \in intents' \cup deletions' \/ spc'[s] = "rollback" => Retired(s)'
    BY <1>6, <1>11, <1>13, <1>14, <2>1 DEF ObjectOf
  <2>3. s \in atts' => s \in objects' /\ ~Holds(s)' /\ spc'[s] \in {"outcome", "done"}
                       /\ spc'[s] # "outcome"
    BY <1>2, <1>4, <1>6, <1>14 DEF ObjectOf
  <2>4. s \in objects' \ atts' =>
          s \in intents' \cup deletions' \/ (Holds(s)' /\ ops'[KeyOf[s]].planned)
    BY <1>2, <1>4, <1>14 DEF ObjectOf
  <2> QED BY <2>2, <2>3, <2>4 DEF ObjectOf
<1>17. \A t \in Savers : spc'[t] = "stale" => spc[t] = "stale" /\ doomed'[t] = doomed[t]
  BY <1>6
<1> QED BY <1>2, <1>7, <1>8, <1>9, <1>12, <1>13, <1>15, <1>16, <1>17, SaverStepKeeps

(* What an abort gives up is a claim of this save, or nothing, and afterwards
   the save holds none. *)
LEMMA AbortSaves ==
  ASSUME DraftInv, NEW s \in Savers, AbortSave(s)
  PROVE  /\ {k \in {KeyOf[s]} : Holds(s)} \subseteq Claimed
         /\ UNCHANGED opVars \/ GiveUp({k \in {KeyOf[s]} : Holds(s)})
         /\ ~Holds(s)'
<1> DEFINE ks == {k \in {KeyOf[s]} : Holds(s)}
<1>1. KeyOf[s] \in Keys
  BY DraftAssumption
<1>2. ks \subseteq Claimed
  BY <1>1 DEF Claimed, Holds
<1>3. CASE Holds(s)
  <2>1. ks = {KeyOf[s]} /\ GiveUp({KeyOf[s]})
    BY <1>3 DEF AbortSave
  <2>2. GiveUp(ks)
    BY <2>1
  <2> HIDE DEF ks
  <2>3. TypeOK /\ ClaimInv
    BY DEF DraftInv
  <2>4. \A t \in Savers : KeyOf[t] \in ks => ~Holds(t)'
    BY <1>2, <2>2, <2>3, GivenUp
  <2>5. ~Holds(s)'
    BY <2>1, <2>4
  <2> USE DEF ks
  <2> QED BY <1>2, <2>2, <2>5
<1>4. CASE ~Holds(s)
  <2>1. UNCHANGED opVars
    BY <1>4 DEF AbortSave
  <2>2. ~Holds(s)'
    BY <1>4, <2>1 DEF opVars, Holds
  <2> QED BY <1>2, <2>1, <2>2
<1> QED BY <1>3, <1>4

(* An aborted save gives up its claim and ends. *)
LEMMA AbortStep ==
  ASSUME DraftInv, NEW s \in Savers, Abort(s)
  PROVE  DraftInv'
<1> DEFINE ks == {k \in {KeyOf[s]} : Holds(s)}
<1>1. TypeOK
  BY DEF DraftInv
<1>2. /\ spc[s] = "abort" /\ To(s, "done") /\ UNCHANGED sfails
      /\ UNCHANGED <<mailVars, deletions, objects, base, keep, doomed, flight, told>>
  BY DEF Abort, Works
<1>3. ks \subseteq Claimed /\ (UNCHANGED opVars \/ GiveUp(ks))
  BY AbortSaves DEF Abort
<1>4. told' \subseteq Savers /\ sfails' \in 0..MaxSaveFails
  BY <1>1, <1>2 DEF TypeOK
<1> HIDE DEF ks
<1> QED BY <1>2, <1>3, <1>4, Releases

(* A request that is lost ends; its claim stays until it lapses, and a commit of
   it may still arrive. *)
LEMMA LostStep ==
  ASSUME DraftInv, NEW s \in Savers, Lost(s)
  PROVE  DraftInv'
<1>1. TypeOK
  BY DEF DraftInv
<1>2. /\ spc[s] # "idle" /\ To(s, "done")
      /\ flight' = flight \/ (spc[s] = "commit" /\ flight' = flight \cup {s})
      /\ UNCHANGED <<mailVars, opVars, deletions, objects, base, keep, doomed, told>>
  BY DEF Lost
<1>3. told' \subseteq Savers /\ sfails' \in 0..MaxSaveFails
  BY <1>1, <1>2, DraftAssumption DEF TypeOK, Lost, Fails
<1>4. {} \subseteq Claimed
  OBVIOUS
<1> QED BY <1>2, <1>3, <1>4, Releases

\* A lost answer is looked up: what is not committed is given up first.
LEMMA OutcomeStep ==
  ASSUME DraftInv, NEW s \in Savers, Outcome(s)
  PROVE  DraftInv'
<1> DEFINE o == ops[KeyOf[s]]
           ks == {k \in {KeyOf[s]} : Holds(s)}
<1>1. TypeOK /\ ClaimInv /\ TokenInv /\ KeyOf[s] \in Keys
  BY DraftAssumption DEF DraftInv
<1>2. /\ spc[s] = "outcome"
      /\ UNCHANGED <<mailVars, deletions, objects, base, keep, doomed, flight>>
  BY DEF Outcome
<1>3. {} \subseteq Claimed
  OBVIOUS
<1>4. s \in atts => ~Holds(s) /\ o.state = "committed"
  BY <1>1, <1>2 DEF TokenInv, ObjectOf
<1>5. CASE /\ o.state = "committed" /\ To(s, "done") /\ Works /\ UNCHANGED opVars
           /\ told' = told \cup {x \in {s} : version = base[s] + 1 /\ o.result = version}
  <2>1. commits[KeyOf[s]] = 1
    BY <1>1, <1>5 DEF ClaimInv
  <2>2. told' \subseteq Savers /\ \A t \in told' : t \in told \/ commits[KeyOf[t]] = 1
    BY <1>1, <1>5, <2>1 DEF TypeOK
  <2>3. sfails' \in 0..MaxSaveFails
    BY <1>1, <1>5 DEF TypeOK, Works
  <2> HIDE DEF o
  <2> QED BY <1>2, <1>3, <1>5, <2>2, <2>3, Releases
<1>6. CASE /\ o.state = "claimed" /\ Works /\ AbortSave(s) /\ UNCHANGED told
           /\ To(s, IF Holds(s) THEN "rollback" ELSE "done")
  <2>1. ks \subseteq Claimed /\ (UNCHANGED opVars \/ GiveUp(ks)) /\ ~Holds(s)'
    BY <1>6, AbortSaves
  <2>2. told' \subseteq Savers /\ sfails' \in 0..MaxSaveFails
    BY <1>1, <1>6 DEF TypeOK, Works
  <2>3. PICK p \in {"rollback", "done"} : p = (IF Holds(s) THEN "rollback" ELSE "done")
    OBVIOUS
  <2>4. To(s, p) /\ (p = "rollback" => s \notin atts)
    BY <1>4, <1>6, <2>3
  <2> HIDE DEF o, ks
  <2> QED BY <1>2, <1>6, <2>1, <2>2, <2>4, Releases
<1>7. CASE /\ o.state \in {"none", "aborted"} /\ To(s, "rollback") /\ Works
           /\ UNCHANGED <<opVars, told>>
  <2>1. told' \subseteq Savers /\ sfails' \in 0..MaxSaveFails
    BY <1>1, <1>7 DEF TypeOK, Works
  <2>2. s \notin atts
    BY <1>4, <1>7
  <2>3. ~Holds(s)'
    BY <1>7 DEF Holds, opVars
  <2> HIDE DEF o
  <2> QED BY <1>2, <1>3, <1>7, <2>1, <2>2, <2>3, Releases
<1>8. CASE /\ To(s, "done") /\ Fails /\ UNCHANGED told
           /\ UNCHANGED opVars \/ (o.state = "claimed" /\ AbortSave(s))
  <2>1. ks \subseteq Claimed /\ (UNCHANGED opVars \/ GiveUp(ks))
    BY <1>1, <1>8, AbortSaves DEF Claimed, Holds
  <2>2. told' \subseteq Savers /\ sfails' \in 0..MaxSaveFails
    BY <1>1, <1>8, DraftAssumption DEF TypeOK, Fails
  <2> HIDE DEF o, ks
  <2> QED BY <1>2, <1>8, <2>1, <2>2, Releases
<1> QED BY <1>5, <1>6, <1>7, <1>8 DEF Outcome

\* Nothing is promoted before it is recorded.
LEMMA RecordStep ==
  ASSUME DraftInv, NEW s \in Savers, Record(s)
  PROVE  DraftInv'
<1>1. TypeOK /\ LifeInv /\ BaseInv /\ ClaimInv /\ TokenInv /\ KeyOf[s] \in Keys
  BY DraftAssumption DEF DraftInv
<1>2. /\ spc[s] = "record"
      /\ UNCHANGED <<mailVars, lapsed, intents, deletions, objects, base, keep, doomed, flight,
                     told>>
  BY DEF Record
<1>3. UNCHANGED <<version, atts, created, commits>>
  BY <1>2 DEF mailVars
<1>4. PICK p \in {"put", "abort"}, b \in BOOLEAN :
        /\ To(s, p) /\ sfails' \in 0..MaxSaveFails
        /\ \/ p = "abort" /\ ops' = ops
           \/ ops' = [ops EXCEPT ![KeyOf[s]].planned = b]
        /\ b \/ ~ops[KeyOf[s]].planned
        /\ p = "put" => Holds(s) /\ b
  <2>1. sfails' \in 0..MaxSaveFails
    BY <1>1, DraftAssumption DEF Record, Works, Fails, TypeOK
  <2>2. CASE Holds(s) /\ To(s, "put") /\ ops' = [ops EXCEPT ![KeyOf[s]].planned = TRUE]
    BY <2>1, <2>2
  <2>3. CASE To(s, "abort") /\ ops' = ops
    BY <2>1, <2>3
  <2>4. CASE /\ To(s, "abort")
             /\ ops' = [ops EXCEPT ![KeyOf[s]].planned = @ \/ Holds(s)]
    <3> DEFINE b == ops[KeyOf[s]].planned \/ Holds(s)
    <3>1. b \in BOOLEAN /\ (b \/ ~ops[KeyOf[s]].planned)
      OBVIOUS
    <3>2. ops' = [ops EXCEPT ![KeyOf[s]].planned = b]
      BY <2>4
    <3> HIDE DEF b
    <3> QED BY <2>1, <2>4, <3>1, <3>2
  <2> QED BY <2>2, <2>3, <2>4 DEF Record
<1>5. /\ ops' \in [Keys -> OpRows]
      /\ \A k \in Keys :
           /\ ops'[k].state = ops[k].state /\ ops'[k].owner = ops[k].owner
           /\ ops'[k].base = ops[k].base /\ (ops[k].planned => ops'[k].planned)
      /\ p = "put" => ops'[KeyOf[s]].planned
  <2>1. CASE p = "abort" /\ ops' = ops
    BY <1>1, <2>1 DEF TypeOK
  <2>2. CASE ops' = [ops EXCEPT ![KeyOf[s]].planned = b]
    <3>1. ops \in [Keys -> OpRows]
      BY <1>1 DEF TypeOK
    <3>2. ops[KeyOf[s]] \in OpRows
      BY <1>1, <3>1
    <3> DEFINE r == [ops[KeyOf[s]] EXCEPT !.planned = b]
    <3>3. /\ r \in OpRows /\ r.state = ops[KeyOf[s]].state /\ r.owner = ops[KeyOf[s]].owner
          /\ r.base = ops[KeyOf[s]].base /\ r.planned = b
      BY <3>2 DEF OpRows
    <3>4. ops' = [ops EXCEPT ![KeyOf[s]] = r]
      BY <2>2
    <3> HIDE DEF r
    <3>5. ops' \in [Keys -> OpRows] /\ \A k \in Keys : ops'[k] = IF k = KeyOf[s] THEN r ELSE ops[k]
      BY <1>1, <3>1, <3>3, <3>4
    <3>6. (ops[KeyOf[s]].planned => r.planned) /\ (p = "put" => r.planned)
      BY <1>4, <3>3
    <3> QED BY <1>1, <3>3, <3>5, <3>6
  <2> QED BY <1>4, <2>1, <2>2
<1>6. \A t \in Savers :
        /\ Holds(t)' <=> Holds(t)
        /\ ops[KeyOf[t]].planned => ops'[KeyOf[t]].planned
        /\ ops'[KeyOf[t]].state = ops[KeyOf[t]].state
  BY <1>5, DraftAssumption DEF Holds
<1>7. p \in SPCs \ {"idle", "claim", "stale"}
  BY DEF SPCs
<1>8. /\ spc' \in [Savers -> SPCs] /\ spc'[s] = p
      /\ \A t \in Savers \ {s} : spc'[t] = spc[t]
      /\ \A t \in Savers : Begun(t)' <=> Begun(t)
      /\ \A t \in Savers : spc[t] \notin {"idle", "claim"} => spc'[t] \notin {"idle", "claim"}
  BY <1>2, <1>4, <1>7, Moves
<1>9. ClaimInv'
  BY <1>1, <1>2, <1>3, <1>5, <1>8 DEF ClaimInv
<1>10. TypeOK'
  BY <1>1, <1>2, <1>3, <1>4, <1>5, <1>8, <1>9, OwnersTyped DEF TypeOK
<1>11. LifeInv' /\ BaseInv'
  BY <1>1, <1>2, <1>3, <1>8, LifeKept, BaseKept
<1>12. \A t \in Savers \ {s} : Watches(t)
  BY <1>2, <1>3, <1>6, <1>8 DEF Watches
<1>13. /\ RequestOf(s) /\ ObjectOf(s)
       /\ s \notin objects /\ s \notin flight /\ s \notin atts
  BY <1>1, <1>2 DEF TokenInv, RequestOf, ObjectOf
<1>14. Retired(s) => Retired(s)'
  BY <1>2, <1>3, <1>6, <1>8 DEF Retired, MayCommit
<1>15. RequestOf(s)'
  BY <1>2, <1>3, <1>4, <1>5, <1>6, <1>8, <1>13 DEF RequestOf
<1>16. ObjectOf(s)'
  BY <1>2, <1>3, <1>8, <1>13, <1>14 DEF ObjectOf
<1>17. \A t \in Savers : spc'[t] = "stale" => spc[t] = "stale" /\ doomed'[t] = doomed[t]
  BY <1>2, <1>8
<1> QED BY <1>2, <1>3, <1>9, <1>10, <1>11, <1>12, <1>14, <1>15, <1>16, <1>17, SaverStepKeeps

-----------------------------------------------------------------------------
(* claimDraftSave                                                          *)

\* A request takes the claim of its save, and gives up the expired ones.
LEMMA ClaimTakes ==
  ASSUME DraftInv, NEW s \in Savers, NEW old, spc[s] = "claim", To(s, "stale"),
         old = {x \in Claimed \cap lapsed : ops[x].base = base[s]},
         ops[KeyOf[s]].state # "committed",
         ~(ops[KeyOf[s]].state = "claimed" /\ KeyOf[s] \notin lapsed),
         ops' = [x \in Keys |->
                   IF x = KeyOf[s] THEN [NoOp EXCEPT !.state = "claimed", !.owner = {s},
                                                     !.base = base[s]]
                   ELSE IF x \in old THEN [ops[x] EXCEPT !.state = "aborted"]
                   ELSE ops[x]],
         intents' = intents \cup LeftBy(old), lapsed' = lapsed \ (old \cup {KeyOf[s]}),
         doomed' = [doomed EXCEPT ![s] = LeftBy(old)],
         UNCHANGED <<mailVars, deletions, objects, base, keep, flight, told, sfails>>
  PROVE  DraftInv'
<1> DEFINE k == KeyOf[s]
           row == [NoOp EXCEPT !.state = "claimed", !.owner = {s}, !.base = base[s]]
<1>1. TypeOK /\ LifeInv /\ BaseInv /\ ClaimInv /\ TokenInv /\ k \in Keys
  BY DraftAssumption DEF DraftInv
<1>2. UNCHANGED <<version, atts, created, commits>>
  BY DEF mailVars
<1>3. "stale" \in SPCs \ {"idle", "claim"}
  BY DEF SPCs
<1>4. /\ spc' \in [Savers -> SPCs] /\ spc'[s] = "stale"
      /\ \A t \in Savers \ {s} : spc'[t] = spc[t]
      /\ \A t \in Savers : Begun(t)' <=> Begun(t)
      /\ \A t \in Savers : spc[t] \notin {"idle", "claim"} => spc'[t] \notin {"idle", "claim"}
  BY <1>3, Moves
<1>5. /\ row \in OpRows /\ row.state = "claimed" /\ row.owner = {s} /\ row.base = base[s]
  <2>1. base[s] \in 0..MaxVersion /\ 0 \in 0..MaxVersion /\ {s} \in SUBSET Savers
    BY <1>1, DraftAssumption DEF TypeOK
  <2>2. NoOp \in OpRows
    BY <2>1 DEF NoOp, OpRows
  <2>3. row.state = "claimed" /\ row.owner = {s} /\ row.base = base[s]
    BY <2>2 DEF OpRows
  <2>4. row \in OpRows
    BY <2>1, <2>2 DEF OpRows
  <2> QED BY <2>3, <2>4
<1>6. \A x \in Keys : ops'[x] = IF x = k THEN row
                                ELSE IF x \in old THEN [ops[x] EXCEPT !.state = "aborted"]
                                ELSE ops[x]
  OBVIOUS
<1> HIDE DEF row
<1>7. ops'[k] = row
  BY <1>1, <1>6
<1>8. ASSUME NEW x \in Keys \ {k}
      PROVE  /\ ops'[x] \in OpRows /\ ops'[x].owner = ops[x].owner
             /\ x \in old => ops'[x].state = "aborted"
             /\ x \notin old => ops'[x] = ops[x]
  <2>1. ops[x] \in OpRows
    BY <1>1 DEF TypeOK
  <2> QED BY <1>6, <2>1 DEF OpRows
<1>9. old \subseteq Keys /\ \A x \in old : ops[x].state = "claimed"
  BY DEF Claimed
<1>10. ops' \in [Keys -> OpRows]
  BY <1>1, <1>5, <1>7, <1>8
<1>11. \A t : t \in LeftBy(old) <=> \E x \in old : ops[x].planned /\ t \in ops[x].owner
  BY DEF LeftBy
<1>12. Begun(s) /\ \A x \in Keys : x \in Claimed => x \notin old \/ ops[x].base = base[s]
  BY DEF Begun
\* An open claim of the save itself has expired, and starts from the same revision.
<1>13. ops[k].state = "claimed" => k \in old
  <2> SUFFICES ASSUME ops[k].state = "claimed" PROVE k \in old
    OBVIOUS
  <2>1. PICK t \in Savers : /\ KeyOf[t] = k /\ base[t] = ops[k].base
                            /\ spc[t] \notin {"idle", "claim"}
    BY <1>1 DEF ClaimInv
  <2>2. base[t] = base[s]
    BY <1>1, <1>12, <2>1 DEF BaseInv, Begun
  <2> QED BY <1>1, <2>1, <2>2 DEF Claimed
<1>14. ASSUME NEW t \in Savers \ {s}
       PROVE  /\ Holds(t)' <=> Holds(t) /\ KeyOf[t] \notin old
              /\ Holds(t)' => ops'[KeyOf[t]] = ops[KeyOf[t]]
              /\ ops[KeyOf[t]].state = "committed" =>
                   ops'[KeyOf[t]].state = "committed"
  <2>1. KeyOf[t] \in Keys
    BY DraftAssumption
  <2>2. CASE KeyOf[t] = k
    <3>1. ~Holds(t)'
      BY <1>5, <1>7, <2>2 DEF Holds
    <3>2. Holds(t) => KeyOf[t] \in old
      BY <1>13, <2>2 DEF Holds
    <3> QED BY <2>2, <3>1, <3>2
  <2>3. CASE KeyOf[t] # k
    BY <1>8, <1>9, <2>1, <2>3 DEF Holds
  <2> QED BY <2>2, <2>3
<1>15. ASSUME NEW t, t \in LeftBy(old)
       PROVE  /\ t \in Savers \ {s} /\ Holds(t) /\ KeyOf[t] \in old
              /\ spc[t] \notin {"idle", "claim"} /\ Retired(t)'
  <2>1. PICK x \in old : ops[x].planned /\ t \in ops[x].owner
    BY <1>11, <1>15
  <2>2. PICK u \in Savers : /\ ops[x].owner = {u} /\ KeyOf[u] = x
                            /\ spc[u] \notin {"idle", "claim"}
    BY <1>1, <1>9, <2>1 DEF ClaimInv
  <2>3. t \in Savers \ {s} /\ Holds(t) /\ KeyOf[t] \in old /\ spc[t] \notin {"idle", "claim"}
    BY <1>9, <2>1, <2>2 DEF Holds
  <2>4. t \notin atts
    BY <1>1, <2>3 DEF TokenInv, ObjectOf
  <2>5. ~Holds(t)'
    BY <1>14, <2>3
  <2>6. Retired(t)'
    BY <1>2, <1>4, <2>3, <2>4, <2>5 DEF Retired, MayCommit
  <2> QED BY <2>3, <2>6
<1>16. ClaimInv'
  <2> SUFFICES ASSUME NEW x \in Keys
               PROVE  /\ ops'[x].owner = {} \/ \E t \in Savers : ops'[x].owner = {t}
                      /\ ops'[x].state = "committed" => commits'[x] = 1
                      /\ ops'[x].state = "claimed" =>
                           \E t \in Savers :
                             /\ ops'[x].owner = {t} /\ KeyOf[t] = x /\ base'[t] = ops'[x].base
                             /\ spc'[t] \notin {"idle", "claim"}
    BY DEF ClaimInv
  <2>1. CASE x = k
    BY <1>4, <1>5, <1>7, <2>1
  <2>2. CASE x # k /\ x \in old
    <3>1. ops'[x].state = "aborted" /\ ops'[x].owner = ops[x].owner
      BY <1>8, <2>2
    <3>2. ops[x].owner = {} \/ \E t \in Savers : ops[x].owner = {t}
      BY <1>1 DEF ClaimInv
    <3> QED BY <3>1, <3>2
  <2>3. CASE x # k /\ x \notin old
    BY <1>1, <1>2, <1>4, <1>8, <2>3 DEF ClaimInv
  <2> QED BY <2>1, <2>2, <2>3
<1>17. /\ LeftBy(old) \subseteq Savers /\ doomed' \in [Savers -> SUBSET Savers]
       /\ doomed'[s] = LeftBy(old) /\ \A t \in Savers \ {s} : doomed'[t] = doomed[t]
  BY <1>1, <1>15 DEF TypeOK
<1>18. TypeOK'
  BY <1>1, <1>2, <1>4, <1>10, <1>16, <1>17, OwnersTyped DEF TypeOK
<1>19. LifeInv' /\ BaseInv'
  BY <1>1, <1>2, <1>4, LifeKept, BaseKept
<1>20. ASSUME NEW t \in Savers \ {s} PROVE Watches(t)
  <2>1. Holds(t) /\ ops[KeyOf[t]].planned =>
          t \in intents' \/ (Holds(t)' /\ ops'[KeyOf[t]].planned)
    <3> SUFFICES ASSUME Holds(t), ops[KeyOf[t]].planned, KeyOf[t] \in old PROVE t \in LeftBy(old)
      BY <1>14
    <3>1. t \in ops[KeyOf[t]].owner
      BY DEF Holds
    <3> QED BY <1>11, <3>1
  <2>2. t \in intents' => t \in intents \/ Retired(t)'
    BY <1>15
  <2> QED BY <1>2, <1>4, <1>14, <2>1, <2>2 DEF Watches
<1>21. ~Retired(s)
  BY DEF Retired, MayCommit
<1>22. RequestOf(s)' /\ ObjectOf(s)'
  <2>1. /\ s \notin flight /\ s \notin objects /\ s \notin intents \cup deletions
        /\ s \notin atts
    BY <1>1, <1>21 DEF TokenInv, RequestOf, ObjectOf
  <2>2. s \notin intents'
    BY <1>15, <2>1
  <2> QED BY <1>2, <1>4, <2>1, <2>2 DEF RequestOf, ObjectOf
<1>23. \A t \in Savers : spc'[t] = "stale" =>
         \/ spc[t] = "stale" /\ doomed'[t] = doomed[t]
         \/ \A u \in doomed'[t] : Retired(u)'
  BY <1>4, <1>15, <1>17
<1> HIDE DEF k
<1> QED BY <1>2, <1>16, <1>18, <1>19, <1>20, <1>21, <1>22, <1>23, SaverStepKeeps

(* A claim is answered from a committed row, refused, or gives up what has lapsed
   and takes the row for its own token. *)
LEMMA ClaimStep ==
  ASSUME DraftInv, NEW s \in Savers, Claim(s)
  PROVE  DraftInv'
<1> DEFINE k == KeyOf[s]
           old == {x \in Claimed \cap lapsed : ops[x].base = base[s]}
<1>1. TypeOK /\ ClaimInv /\ k \in Keys
  BY DraftAssumption DEF DraftInv
<1>2. spc[s] = "claim" /\ UNCHANGED <<mailVars, deletions, objects, base, keep, flight, sfails>>
  BY DEF Claim
<1>3. sfails' \in 0..MaxSaveFails /\ {} \subseteq Claimed /\ old \subseteq Claimed
  BY <1>1, <1>2 DEF TypeOK
<1>4. CASE /\ ops[k].state = "committed" /\ To(s, "done")
           /\ told' = told \cup {x \in {s} : ops[k].result = version}
           /\ UNCHANGED <<opVars, doomed>>
  <2>1. commits[KeyOf[s]] = 1
    BY <1>1, <1>4 DEF ClaimInv
  <2>2. told' \subseteq Savers /\ \A t \in told' : t \in told \/ commits[KeyOf[t]] = 1
    BY <1>1, <1>4, <2>1 DEF TypeOK
  <2> HIDE DEF k, old
  <2> QED BY <1>2, <1>3, <1>4, <2>2, Releases
<1>5. CASE /\ ops[k].state = "claimed" /\ k \notin lapsed
           /\ To(s, "done") /\ UNCHANGED <<opVars, doomed, told>>
  <2>1. told' \subseteq Savers
    BY <1>1, <1>5 DEF TypeOK
  <2> HIDE DEF k, old
  <2> QED BY <1>2, <1>3, <1>5, <2>1, Releases
<1>6. CASE GiveUp(old) /\ To(s, "done") /\ UNCHANGED <<doomed, told>>
  <2>1. told' \subseteq Savers
    BY <1>1, <1>6 DEF TypeOK
  <2> HIDE DEF k, old
  <2> QED BY <1>2, <1>3, <1>6, <2>1, Releases
<1>7. CASE /\ ops[k].state # "committed" /\ ~(ops[k].state = "claimed" /\ k \notin lapsed)
           /\ UNCHANGED told
           /\ ops' = [x \in Keys |->
                        IF x = k THEN [NoOp EXCEPT !.state = "claimed", !.owner = {s},
                                                   !.base = base[s]]
                        ELSE IF x \in old THEN [ops[x] EXCEPT !.state = "aborted"]
                        ELSE ops[x]]
           /\ intents' = intents \cup LeftBy(old) /\ lapsed' = lapsed \ (old \cup {k})
           /\ doomed' = [doomed EXCEPT ![s] = LeftBy(old)]
           /\ To(s, "stale")
  <2>1. PICK o : o = old
    OBVIOUS
  <2>2. /\ o = {x \in Claimed \cap lapsed : ops[x].base = base[s]}
        /\ intents' = intents \cup LeftBy(o) /\ lapsed' = lapsed \ (o \cup {KeyOf[s]})
        /\ doomed' = [doomed EXCEPT ![s] = LeftBy(o)]
        /\ ops' = [x \in Keys |->
                     IF x = KeyOf[s] THEN [NoOp EXCEPT !.state = "claimed", !.owner = {s},
                                                       !.base = base[s]]
                     ELSE IF x \in o THEN [ops[x] EXCEPT !.state = "aborted"]
                     ELSE ops[x]]
    BY <1>7, <2>1
  <2> QED BY <1>2, <1>7, <2>2, ClaimTakes
<1> QED BY <1>4, <1>5, <1>6, <1>7 DEF Claim

-----------------------------------------------------------------------------
(* upsertDraft commits                                                     *)

\* A commit, in time or late, is its save's only one, and makes the draft's only
\* what is in R2 and nobody deletes.
LEMMA CommitKeeps ==
  ASSUME DraftInv, NEW s \in Savers, NEW p \in {"outcome", "done"}, To(s, p),
         CommitsDraft(s), Committed(s),
         spc[s] = "commit" \/ (s \in flight /\ p = spc[s]),
         UNCHANGED <<objects, base, keep, doomed>>,
         flight' = flight \/ flight' = flight \ {s},
         told' = told \/ told' = told \cup {s}, sfails' \in 0..MaxSaveFails
  PROVE  DraftInv'
<1> DEFINE k == KeyOf[s]
<1>1. /\ TypeOK /\ LifeInv /\ BaseInv /\ ClaimInv /\ TokenInv /\ SavedOnce /\ ToldIsSaved
      /\ DoomedInv /\ k \in Keys
  BY DraftAssumption DEF DraftInv
<1>2. Holds(s) /\ version = base[s] /\ (k = NewKey => created = "none")
  BY DEF CommitsDraft, Recreates
<1>3. /\ version < MaxVersion /\ version' = version + 1
      /\ atts' = keep[s] \cup {s} /\ deletions' = deletions \cup (atts \ (keep[s] \cup {s}))
      /\ created' = IF k = NewKey THEN "active" ELSE created
      /\ ops' = [ops EXCEPT ![k].state = "committed", ![k].result = version + 1]
      /\ lapsed' = lapsed \ {k}
      /\ commits' = [commits EXCEPT ![k] = @ + 1]
      /\ UNCHANGED intents
  BY DEF Committed, Replace
<1>4. /\ version \in 0..MaxVersion /\ version \in Nat /\ version + 1 \in 0..MaxVersion
      /\ commits \in [Keys -> Nat] /\ base \in [Savers -> 0..MaxVersion] /\ MaxVersion \in Nat
  BY <1>1, <1>3, DraftAssumption DEF TypeOK
<1>5. /\ RequestOf(s) /\ ObjectOf(s) /\ spc[s] \in {"commit", "outcome", "done"} /\ s \in objects
      /\ Begun(s)
  BY <1>1, <1>2 DEF TokenInv, RequestOf, Begun
<1>6. p \in SPCs \ {"idle", "claim"}
  BY DEF SPCs
<1>7. /\ spc' \in [Savers -> SPCs] /\ spc'[s] = p
      /\ \A t \in Savers \ {s} : spc'[t] = spc[t]
      /\ \A t \in Savers : Begun(t)' <=> Begun(t)
      /\ \A t \in Savers : spc[t] \notin {"idle", "claim"} => spc'[t] \notin {"idle", "claim"}
  BY <1>5, <1>6, Moves DEF Begun
<1>8. k # NewKey => version > 0 /\ created = "active"
  BY <1>1, <1>2, <1>4, <1>5 DEF BaseInv, LifeInv, TypeOK
<1>9. commits[k] = 0
  <2>1. CASE k = NewKey
    BY <1>1, <1>2, <2>1 DEF LifeInv
  <2>2. CASE k # NewKey
    <3>1. s \in Attempts(k)
      BY <1>5 DEF Attempts
    <3>2. ~(base[s] < version)
      BY <1>2, <1>4
    <3> QED BY <1>1, <1>8, <2>2, <3>1, <3>2 DEF BaseInv
  <2> QED BY <2>1, <2>2
<1>10. commits' \in [Keys -> Nat] /\ commits'[k] = 1
       /\ \A x \in Keys \ {k} : commits'[x] = commits[x]
  BY <1>1, <1>3, <1>4, <1>9
<1>11. keep[s] \subseteq atts
  BY <1>1, <1>2, <1>5 DEF RequestOf, LifeInv
<1>12. /\ ops' \in [Keys -> OpRows]
       /\ ops'[k].state = "committed" /\ ops'[k].owner = ops[k].owner
       /\ \A x \in Keys \ {k} : ops'[x] = ops[x]
  <2>1. ops \in [Keys -> OpRows] /\ ops[k] \in OpRows
    BY <1>1 DEF TypeOK
  <2> DEFINE r == [ops[k] EXCEPT !.state = "committed", !.result = version + 1]
  <2>2. r \in OpRows /\ r.state = "committed" /\ r.owner = ops[k].owner
    BY <1>4, <2>1 DEF OpRows
  <2>3. ops' = [ops EXCEPT ![k] = r]
    BY <1>1, <1>3, <2>1
  <2> HIDE DEF r, k
  <2> QED BY <1>1, <2>1, <2>2, <2>3
<1>13. ClaimInv'
  <2> SUFFICES ASSUME NEW x \in Keys
               PROVE  /\ ops'[x].owner = {} \/ \E t \in Savers : ops'[x].owner = {t}
                      /\ ops'[x].state = "committed" => commits'[x] = 1
                      /\ ops'[x].state = "claimed" =>
                           \E t \in Savers :
                             /\ ops'[x].owner = {t} /\ KeyOf[t] = x /\ base'[t] = ops'[x].base
                             /\ spc'[t] \notin {"idle", "claim"}
    BY DEF ClaimInv
  <2>1. CASE x = k
    <3>1. ops[x].owner = {} \/ \E t \in Savers : ops[x].owner = {t}
      BY <1>1 DEF ClaimInv
    <3> QED BY <1>10, <1>12, <2>1, <3>1
  <2>2. CASE x # k
    BY <1>1, <1>7, <1>10, <1>12, <2>2 DEF ClaimInv
  <2> QED BY <2>1, <2>2
<1>14. TypeOK'
  <2>1. atts' \subseteq Savers /\ deletions' \subseteq Savers /\ lapsed' \subseteq Keys
        /\ created' \in {"none", "active", "gone"} /\ version' \in 0..MaxVersion
    BY <1>1, <1>3, <1>4, <1>11 DEF TypeOK
  <2>2. flight' \subseteq Savers /\ told' \subseteq Savers
    BY <1>1 DEF TypeOK
  <2> QED BY <1>1, <1>3, <1>7, <1>10, <1>12, <1>13, <2>1, <2>2, OwnersTyped DEF TypeOK
<1>15. LifeInv'
  BY <1>1, <1>3, <1>4, <1>8, <1>10 DEF LifeInv, TypeOK
<1>16. BaseInv'
  <2>1. \A t \in Savers :
          IF KeyOf[t] = NewKey THEN base'[t] = 0
          ELSE Begun(t)' => base'[t] > 0 /\ created' # "none" /\ (version' > 0 => base'[t] <= version')
    BY <1>1, <1>2, <1>3, <1>4, <1>7, <1>8 DEF BaseInv, LifeInv, TypeOK
  <2>2. \A t, u \in Savers :
          KeyOf[t] = KeyOf[u] /\ Begun(t)' /\ Begun(u)' => base'[t] = base'[u]
    BY <1>1, <1>7 DEF BaseInv
  <2>3. ASSUME NEW x \in Keys \ {NewKey}, commits'[x] # 0
        PROVE  Attempts(x)' # {} /\ \A t \in Attempts(x)' : base'[t] < version'
    <3>1. Attempts(x)' = Attempts(x) /\ Attempts(x) \subseteq Savers
      BY <1>7 DEF Attempts
    <3>2. CASE x = k
      <4>1. s \in Attempts(x)
        BY <1>5, <3>2 DEF Attempts
      <4>2. \A t \in Attempts(x) : base[t] = base[s]
        BY <1>1, <1>5, <3>2 DEF BaseInv, Attempts
      <4> QED BY <1>2, <1>3, <1>4, <3>1, <4>1, <4>2
    <3>3. CASE x # k
      <4>1. commits[x] # 0
        BY <1>10, <2>3, <3>3
      <4>2. Attempts(x) # {} /\ (version > 0 => \A t \in Attempts(x) : base[t] < version)
        BY <1>1, <4>1 DEF BaseInv
      <4>3. PICK t \in Savers : Begun(t) /\ KeyOf[t] = x
        BY <4>2 DEF Attempts
      <4>4. version > 0
        BY <1>1, <1>2, <1>8, <4>3 DEF BaseInv
      <4>5. \A u \in Attempts(x) : base[u] \in Nat
        BY <1>4, <3>1
      <4> QED BY <1>3, <1>4, <3>1, <4>2, <4>4, <4>5
    <3> QED BY <3>2, <3>3
  <2> QED BY <2>1, <2>2, <2>3 DEF BaseInv
<1>17. SavedOnce' /\ ToldIsSaved'
  <2>1. \A x \in Keys : commits'[x] <= 1
    BY <1>1, <1>4, <1>10 DEF SavedOnce
  <2>2. \A t \in told' : commits'[KeyOf[t]] = 1
    <3> SUFFICES ASSUME NEW t \in told' PROVE commits'[KeyOf[t]] = 1
      OBVIOUS
    <3>1. t \in Savers /\ KeyOf[t] \in Keys
      BY <1>1, DraftAssumption DEF TypeOK
    <3>2. CASE KeyOf[t] = k
      BY <1>10, <3>2
    <3>3. CASE KeyOf[t] # k
      BY <1>1, <1>10, <3>1, <3>3 DEF ToldIsSaved
    <3> QED BY <3>2, <3>3
  <2> QED BY <2>1, <2>2 DEF SavedOnce, ToldIsSaved
<1>18. ~Retired(s)
  BY <1>2 DEF Retired, MayCommit
<1>19. ASSUME NEW t \in Savers \ {s}
       PROVE  /\ Holds(t)' <=> Holds(t)
              /\ Holds(t) => ops'[KeyOf[t]] = ops[KeyOf[t]]
              /\ ops[KeyOf[t]].state = "committed" => ops'[KeyOf[t]].state = "committed"
  <2>1. KeyOf[t] \in Keys
    BY DraftAssumption
  <2>2. ops[k].owner = {s}
    BY <1>2 DEF Holds
  <2>3. CASE KeyOf[t] = k
    BY <1>12, <2>2, <2>3 DEF Holds
  <2>4. CASE KeyOf[t] # k
    BY <1>12, <2>1, <2>4 DEF Holds
  <2> QED BY <2>3, <2>4
<1>20. ASSUME NEW t \in Savers \ {s} PROVE Watches(t)
  <2>1. t \in deletions' => t \in deletions \/ Retired(t)'
    <3> SUFFICES ASSUME t \in atts, t \notin keep[s] PROVE Retired(t)'
      BY <1>3
    <3>1. ~Holds(t)' /\ spc'[t] \in {"outcome", "done"}
      BY <1>1, <1>7, <1>19 DEF TokenInv, ObjectOf
    <3>2. t \notin atts'
      BY <1>3
    <3> QED BY <3>1, <3>2 DEF Retired, MayCommit
  <2>2. spc[t] # "idle" /\ KeyOf[t] # NewKey => base[t] # version'
    BY <1>1, <1>2, <1>3, <1>4, <1>8 DEF BaseInv, Begun
  <2>3. t \in atts' => t \in atts
    BY <1>3, <1>11
  <2>4. t \in atts => t \in atts' \/ t \in deletions'
    BY <1>3
  <2> QED BY <1>3, <1>7, <1>19, <2>1, <2>2, <2>3, <2>4 DEF Watches
<1>21. RequestOf(s)' /\ ObjectOf(s)'
  <2>1. ~Holds(s)' /\ s \in atts' /\ base'[s] # version' /\ s \in objects'
    BY <1>2, <1>3, <1>4, <1>5, <1>12 DEF Holds
  <2>2. s \notin intents' \cup deletions'
    BY <1>3, <1>5, <1>18 DEF ObjectOf
  <2>3. RequestOf(s)'
    BY <1>7, <2>1 DEF RequestOf
  <2>4. ObjectOf(s)'
    BY <1>7, <1>12, <2>1, <2>2 DEF ObjectOf
  <2> QED BY <2>3, <2>4
<1>22. \A t \in Savers \ {s} :
         RequestOf(t)' /\ ObjectOf(t)' /\ (Retired(t) => Retired(t)')
  BY <1>1, <1>20, WatchingKeeps DEF TokenInv
<1>23. DoomedInv'
  <2>1. \A t \in Savers : Retired(t) => Retired(t)'
    BY <1>18, <1>22
  <2>2. \A t \in Savers : spc'[t] = "stale" => spc[t] = "stale" /\ doomed'[t] = doomed[t]
    BY <1>7
  <2> QED BY <1>1, <2>1, <2>2, DoomedKept
<1> QED BY <1>13, <1>14, <1>15, <1>16, <1>17, <1>21, <1>22, <1>23 DEF DraftInv, TokenInv

(* A commit replaces the draft, and every other attempt of that revision is
   left with a token that can no longer commit. *)
LEMMA CommitStep ==
  ASSUME DraftInv, NEW s \in Savers, Commit(s)
  PROVE  DraftInv'
<1>1. TypeOK /\ TokenInv
  BY DEF DraftInv
<1>2. spc[s] = "commit" /\ UNCHANGED <<objects, base, keep, doomed>>
  BY DEF Commit
<1>3. RequestOf(s) /\ s \notin flight /\ s \notin atts
  BY <1>1, <1>2 DEF TokenInv, RequestOf, ObjectOf
<1>4. ASSUME Works \/ Fails PROVE sfails' \in 0..MaxSaveFails
  BY <1>1, <1>4, DraftAssumption DEF TypeOK, Works, Fails
<1>5. CASE /\ CommitsDraft(s) /\ Committed(s) /\ To(s, "done") /\ told' = told \cup {s}
           /\ UNCHANGED flight /\ Works
  BY <1>2, <1>4, <1>5, CommitKeeps
<1>6. CASE /\ CommitsDraft(s) /\ Committed(s) /\ To(s, "outcome") /\ Fails
           /\ UNCHANGED <<told, flight>>
  BY <1>2, <1>4, <1>6, CommitKeeps
\* The commit is refused: the request may still hold its claim, but not use it.
<1>7. CASE /\ ~CommitsDraft(s) /\ To(s, "rollback") /\ Works
           /\ UNCHANGED <<mailVars, opVars, deletions, told, flight>>
  <2>1. spc' = [spc EXCEPT ![s] = "rollback"] /\ spc'[s] = "rollback"
    BY <1>1, <1>7 DEF To, TypeOK
  <2>2. UNCHANGED <<ops, atts, intents, version>> /\ (Holds(s)' <=> Holds(s))
    BY <1>7 DEF mailVars, opVars, Holds
  <2>3. Retired(s)'
    BY <1>3, <1>7, <2>1, <2>2 DEF Retired, MayCommit
  <2>4. RequestOf(s)'
    BY <1>2, <1>3, <1>7, <2>1, <2>2 DEF RequestOf
  <2>5. ObjectOf(s)'
    <3>1. ObjectOf(s)
      BY <1>1 DEF TokenInv
    <3> HIDE DEF Retired, Holds
    <3> QED BY <1>2, <1>3, <1>7, <2>1, <2>2, <2>3, <3>1 DEF ObjectOf
  <2>6. "rollback" \in SPCs \ {"idle", "claim", "stale"}
    BY DEF SPCs
  <2>7. /\ objects' \subseteq Savers /\ deletions' \subseteq Savers
        /\ \A t \in objects \ objects' : Retired(t)
        /\ \A t \in objects' \ objects : t = s
        /\ \A t \in deletions' \ deletions : Retired(t)'
        /\ deletions \subseteq deletions'
    BY <1>1, <1>2, <1>7 DEF TypeOK
  <2> QED BY <1>2, <1>4, <1>7, <2>3, <2>4, <2>5, <2>6, <2>7, ObjectStep
\* No answer, and the commit is still on its way.
<1>8. CASE /\ To(s, "outcome") /\ Fails /\ flight' = flight \cup {s}
           /\ UNCHANGED <<mailVars, opVars, deletions, told>>
  <2>1. TypeOK /\ LifeInv /\ BaseInv /\ ClaimInv
    BY DEF DraftInv
  <2>2. UNCHANGED <<version, atts, created, commits, ops, lapsed, intents>>
    BY <1>8 DEF mailVars, opVars
  <2>3. "outcome" \in SPCs \ {"idle", "claim"}
    BY DEF SPCs
  <2>4. /\ spc' \in [Savers -> SPCs] /\ spc'[s] = "outcome"
        /\ \A t \in Savers \ {s} : spc'[t] = spc[t]
        /\ \A t \in Savers : Begun(t)' <=> Begun(t)
        /\ \A t \in Savers : spc[t] \notin {"idle", "claim"} => spc'[t] \notin {"idle", "claim"}
    BY <1>2, <1>8, <2>3, Moves
  <2>5. TypeOK'
    BY <1>2, <1>4, <1>8, <2>1, <2>2, <2>4 DEF TypeOK
  <2>6. LifeInv' /\ BaseInv' /\ ClaimInv'
    BY <1>2, <1>8, <2>1, <2>2, <2>4, LifeKept, BaseKept, ClaimsKept
  <2>7. \A t : Holds(t)' <=> Holds(t)
    BY <2>2 DEF Holds
  <2>8. \A t \in Savers \ {s} : Watches(t)
    BY <1>2, <1>8, <2>2, <2>4, <2>7 DEF Watches
  <2>9. Retired(s) => Retired(s)'
    BY <1>2, <2>2, <2>4, <2>7 DEF Retired, MayCommit
  <2>10. RequestOf(s)'
    BY <1>2, <1>3, <1>8, <2>2, <2>4, <2>7 DEF RequestOf
  <2>11. ObjectOf(s)'
    <3>1. ObjectOf(s)
      BY <1>1 DEF TokenInv
    <3> QED BY <1>2, <1>3, <1>8, <2>2, <2>4, <2>7, <2>9, <3>1 DEF ObjectOf
  <2>12. \A t \in Savers : spc'[t] = "stale" => spc[t] = "stale" /\ doomed'[t] = doomed[t]
    BY <1>2, <2>4
  <2>13. \A t \in told' : t \in told
    BY <1>8
  <2> QED BY <2>2, <2>5, <2>6, <2>8, <2>9, <2>10, <2>11, <2>12, <2>13, SaverStepKeeps
<1> QED BY <1>5, <1>6, <1>7, <1>8 DEF Commit

\* A commit that arrives late finds its claim, or does nothing.
LEMMA LateCommitStep ==
  ASSUME DraftInv, NEW s \in Savers, LateCommit(s)
  PROVE  DraftInv'
<1>1. TypeOK /\ TokenInv
  BY DEF DraftInv
<1>2. /\ s \in flight /\ flight' = flight \ {s}
      /\ UNCHANGED <<objects, spc, base, keep, doomed, told, sfails>>
  BY DEF LateCommit
<1>3. RequestOf(s)
  BY <1>1 DEF TokenInv
<1>4. sfails' \in 0..MaxSaveFails
  BY <1>1, <1>2 DEF TypeOK
<1>5. CASE CommitsDraft(s) /\ Committed(s)
  <2>1. spc[s] \in {"outcome", "done"}
    BY <1>2, <1>3, <1>5 DEF RequestOf, CommitsDraft
  <2>2. To(s, spc[s])
    BY <1>1, <1>2 DEF To, TypeOK
  <2> QED BY <1>2, <1>4, <1>5, <2>1, <2>2, CommitKeeps
<1>6. CASE UNCHANGED <<mailVars, opVars, deletions>>
  <2>1. TypeOK /\ LifeInv /\ BaseInv /\ ClaimInv
    BY DEF DraftInv
  <2>2. UNCHANGED <<version, atts, created, commits, ops, lapsed, intents>>
    BY <1>6 DEF mailVars, opVars
  <2>3. TypeOK'
    BY <1>2, <1>6, <2>1, <2>2 DEF TypeOK
  <2>4. LifeInv' /\ BaseInv' /\ ClaimInv'
    BY <1>2, <1>6, <2>1, <2>2, LifeKept, BaseKept, ClaimsKept DEF Begun
  <2>5. \A t : Holds(t)' <=> Holds(t)
    BY <2>2 DEF Holds
  <2>6. \A t \in Savers \ {s} : Watches(t)
    BY <1>2, <1>6, <2>2, <2>5 DEF Watches
  <2>7. Retired(s) => Retired(s)'
    BY <1>2, <2>2, <2>5 DEF Retired, MayCommit
  <2>8. RequestOf(s)'
    BY <1>2, <1>3, <1>6, <2>2, <2>5 DEF RequestOf
  <2>9. ObjectOf(s)'
    <3>1. ObjectOf(s)
      BY <1>1 DEF TokenInv
    <3> QED BY <1>2, <1>6, <2>2, <2>5, <2>7, <3>1 DEF ObjectOf
  <2>10. \A t \in Savers : spc'[t] = "stale" => spc[t] = "stale" /\ doomed'[t] = doomed[t]
    BY <1>2
  <2>11. \A t \in told' : t \in told
    BY <1>2
  <2> QED BY <2>2, <2>3, <2>4, <2>6, <2>7, <2>8, <2>9, <2>10, <2>11, SaverStepKeeps
<1> QED BY <1>5, <1>6 DEF LateCommit

-----------------------------------------------------------------------------
(* The theorems                                                            *)

LEMMA DraftInit == Init => DraftInv
<1> SUFFICES ASSUME Init PROVE DraftInv
  OBVIOUS
<1>1. NoOp \in OpRows /\ NoOp.owner = {} /\ NoOp.state = "none"
  BY DraftAssumption DEF NoOp, OpRows
<1>2. \A k \in Keys : ops[k] = NoOp
  BY DEF Init
<1>3. ClaimInv
  BY <1>1, <1>2 DEF ClaimInv
<1>4. \A k \in Keys : Cardinality(ops[k].owner) <= 1
  BY <1>3, OneOwner DEF ClaimInv
<1>5. TypeOK
  BY <1>1, <1>4, DraftAssumption DEF Init, TypeOK, SPCs
<1>6. LifeInv /\ SavedOnce /\ ToldIsSaved
  BY DraftAssumption DEF Init, LifeInv, SavedOnce, ToldIsSaved
<1>7. BaseInv
  BY DraftAssumption DEF Init, BaseInv, Begun
<1>8. TokenInv /\ DoomedInv
  BY DEF Init, TokenInv, RequestOf, ObjectOf, DoomedInv
<1> QED BY <1>3, <1>5, <1>6, <1>7, <1>8 DEF DraftInv

(* Every step keeps the inductive invariant: one lemma for each action. *)
LEMMA DraftNext == DraftInv /\ [Next]_draftVars => DraftInv'
<1> SUFFICES ASSUME DraftInv, [Next]_draftVars PROVE DraftInv'
  OBVIOUS
<1>1. CASE \E s \in Savers : Begin(s) \/ SaverStep(s) \/ LateCommit(s) \/ Lost(s)
                             \/ Cleanup(s) \/ Delete(s)
  <2>1. PICK s \in Savers : Begin(s) \/ SaverStep(s) \/ LateCommit(s) \/ Lost(s)
                            \/ Cleanup(s) \/ Delete(s)
    BY <1>1
  <2>2. CASE Begin(s)
    BY <2>2, BeginStep
  <2>3. CASE Claim(s)
    BY <2>3, ClaimStep
  <2>4. CASE RollBackStale(s)
    BY <2>4, RollBackStaleStep
  <2>5. CASE ReadPrior(s)
    BY <2>5, ReadPriorStep
  <2>6. CASE Record(s)
    BY <2>6, RecordStep
  <2>7. CASE Promote(s)
    BY <2>7, PromoteStep
  <2>8. CASE Commit(s)
    BY <2>8, CommitStep
  <2>9. CASE Outcome(s)
    BY <2>9, OutcomeStep
  <2>10. CASE RollBack(s)
    BY <2>10, RollBackStep
  <2>11. CASE Abort(s)
    BY <2>11, AbortStep
  <2>12. CASE LateCommit(s)
    BY <2>12, LateCommitStep
  <2>13. CASE Lost(s)
    BY <2>13, LostStep
  <2>14. CASE Cleanup(s)
    BY <2>14, CleanupStep
  <2>15. CASE Delete(s)
    BY <2>15, DeleteStep
  <2> QED BY <2>1, <2>2, <2>3, <2>4, <2>5, <2>6, <2>7, <2>8, <2>9, <2>10, <2>11, <2>12, <2>13,
             <2>14, <2>15 DEF SaverStep
<1>2. CASE \E k \in Keys : ClaimLapses(k) \/ Prune(k)
  BY <1>2, ClaimLapsesStep, PruneStep
<1>3. CASE SweepClaims
  BY <1>3, SweepClaimsStep
<1>4. CASE UpdateDraft
  BY <1>4, UpdateDraftStep
<1>5. CASE EndDraft
  BY <1>5, EndDraftStep
<1>6. CASE UNCHANGED draftVars
  <2>1. UNCHANGED <<mailVars, opVars, reqVars, deletions, objects, sfails>> /\ Quiet
    BY <1>6 DEF draftVars, Quiet
  <2>2. TypeOK /\ LifeInv /\ BaseInv /\ ClaimInv
    BY DEF DraftInv
  <2>3. TypeOK' /\ LifeInv' /\ BaseInv' /\ ClaimInv'
    BY <2>1, <2>2, LifeKept, BaseKept, ClaimsKept DEF TypeOK, mailVars, opVars, reqVars, Begun
  <2>4. \A t \in Savers : Watches(t)
    BY <2>1 DEF Watches, mailVars, opVars, reqVars, Holds
  <2> QED BY <2>1, <2>3, <2>4, QuietStep DEF mailVars
<1> QED BY <1>1, <1>2, <1>3, <1>4, <1>5, <1>6 DEF Next

\* DraftInv is an invariant of every behaviour, whatever the requests, keys and
\* bounds are.
THEOREM DraftInvariant == Spec => []DraftInv
<1>1. Init => DraftInv
  BY DraftInit
<1>2. DraftInv /\ [Next]_draftVars => DraftInv'
  BY DraftNext
<1> QED BY <1>1, <1>2, PTL DEF Spec

\* Every attachment of the draft is in R2, and a promoted object that is not the
\* draft's is recorded for deletion, whatever is given up, late or lost.
THEOREM DraftObjectsStaySafe == Spec => []DraftObjectsAreSafe
<1>1. DraftInv => DraftObjectsAreSafe
  <2> SUFFICES ASSUME DraftInv PROVE DraftObjectsAreSafe
    OBVIOUS
  <2>1. TypeOK /\ TokenInv
    BY DEF DraftInv
  <2>2. atts \subseteq Savers /\ objects \subseteq Savers
    BY <2>1 DEF TypeOK
  <2>3. AttachmentsAreStored
    BY <2>1, <2>2 DEF AttachmentsAreStored, TokenInv, ObjectOf
  <2>4. StraysAreTracked
    BY <2>1, <2>2 DEF StraysAreTracked, TokenInv, ObjectOf
  <2> QED BY <2>1, <2>3, <2>4 DEF DraftObjectsAreSafe
<1> QED BY <1>1, DraftInvariant, PTL

\* A save is committed at most once, and whoever is told that the draft is saved
\* has it saved.
THEOREM SavesStayTruthful == Spec => []SavesAreTruthful
<1>1. DraftInv => SavesAreTruthful
  BY DEF DraftInv, SavesAreTruthful
<1> QED BY <1>1, DraftInvariant, PTL

-----------------------------------------------------------------------------
(* Bulk sends: the invariant                                               *)

\* The objects that cleanup intents name.
CleanupKeys == {i.key : i \in cleanups}

\* A job that is still sending.
Going == {"queued", "running"}

\* A job, its admission and what it has done.
JobParts(o) ==
  LET j == job[o]
  IN /\ adm[o] = "none" <=> j.status = "none"
     /\ adm[o] = "preparing" <=> j.status = "preparing"
     /\ adm[o] = "failed" <=> j.status = "failed"
     /\ o \in active <=> j.status \in Going \cup {"preparing"}
     /\ j.cursor <= j.total /\ j.enqueued + j.failed = j.cursor
     /\ j.status \in Going => j.cursor < j.total
     /\ prep[o] # 0 => j.status \in Going
     /\ j.status \in {"none", "preparing", "failed"} =>
          /\ j.cursor = 0 /\ j.enqueued = 0 /\ j.failed = 0 /\ messages[o] = 0
          /\ \A r \in 1..Rows : deliv[o][r] = NoDelivery
     /\ adm[o] = "none" => age[o] = 0 /\ j.total = 0
     /\ adm[o] # "none" => j.total >= 1
     /\ o \in resv => adm[o] = "none"
     /\ prep[o] <= messages[o]

\* Every job goes with its admission.
JobInv == \A o \in Ops : JobParts(o)

\* No element comes twice.
Distinct(q) == \A i, j \in 1..Len(q) : q[i] = q[j] => i = j

\* The queue holds jobs that are sending, each once.
QueueInv ==
  /\ \A i \in 1..Len(queue) : job[queue[i]].status \in Going
  /\ Distinct(queue)

\* The ledger has recipients the job has come to, each with a message of its
\* own, and none that is still being prepared.
DelivInv ==
  /\ \A o \in Ops : \A r \in 1..Rows :
       IF deliv[o][r].state = "none" THEN deliv[o][r].msg = 0
       ELSE /\ r <= job[o].cursor + 1 /\ deliv[o][r].msg \in 1..messages[o]
            /\ deliv[o][r].msg # prep[o]
  /\ \A o \in Ops : prep[o] # 0 => ~InLedger(o)

\* An intent names the copy of an admitted job or of a prepared message, and a
\* message that is being prepared has one.
KeyInv ==
  /\ \A k \in CleanupKeys :
       /\ adm[k.op] # "none"
       /\ IF k.kind = "row" THEN k.msg \in 1..messages[k.op] ELSE k.msg = 0
  /\ \A k \in objs \cup slow : k.kind = "row" <=> k.msg # 0
  /\ \A o \in Ops : prep[o] # 0 => RowCopy(o, prep[o]) \in CleanupKeys

\* A job's copy is named by an intent until the job has ended and is old.
JobCopyInv ==
  \A o \in Ops :
    /\ adm[o] = "none" => JobCopy(o) \notin objs \cup slow
    /\ adm[o] = "none" \/ JobCopy(o) \in CleanupKeys \/ (age[o] = 2 /\ o \notin active)

\* The steps of one recipient.
AtRow == {"row", "copy", "enqueue", "queued", "refused"}

\* What a pass has found holds until it acts on it.
RunInv ==
  /\ run.pc # "delete" => run.cleanup = {}
  /\ run.pc \notin AtRow \cup {"copied"} => run.op = {}
  /\ \A o, p \in run.op : o = p
  /\ \A i \in run.cleanup : i.due /\ ~Protected(i.key) /\ ~Delivered(i.key)
  /\ \A o \in run.op :
       /\ run.pc = "copied" => adm[o] = "preparing" /\ JobCopy(o) \in objs
       /\ run.pc \in AtRow => job[o].status \in Going
       /\ run.pc \in {"copy", "enqueue"} => prep[o] # 0
       /\ run.pc = "enqueue" => RowCopy(o, prep[o]) \in objs
       /\ run.pc = "queued" => InLedger(o) /\ prep[o] = 0
       /\ run.pc = "refused" => ~InLedger(o)

\* CopiesAreTracked, by the keys of the intents
TrackInv ==
  \A k \in objs : k.kind # "upload" => Delivered(k) \/ k \in CleanupKeys \/ k \in stray

\* The invariant of bulk sends.
BulkInv ==
  /\ BulkTypeOK /\ JobInv /\ QueueInv /\ DelivInv /\ KeyInv /\ JobCopyInv /\ RunInv
  /\ RowsHaveBytes /\ JobsHaveBytes /\ TrackInv

\* Jobs that nothing touches stay as they are.
LEMMA JobKept ==
  ASSUME JobInv, UNCHANGED <<adm, job, active, age, prep, messages, deliv>>,
         \A o \in resv' : o \in resv \/ adm[o] = "none"
  PROVE  JobInv'
BY DEF JobInv, JobParts, Going

\* A step of one job.
LEMMA JobStep ==
  ASSUME JobInv, NEW o \in Ops, JobParts(o)',
         \A p \in Ops \ {o} :
           /\ adm'[p] = adm[p] /\ job'[p] = job[p] /\ (p \in active' <=> p \in active)
           /\ age'[p] = age[p] /\ prep'[p] = prep[p] /\ messages'[p] = messages[p]
           /\ deliv'[p] = deliv[p] /\ (p \in resv' => p \in resv)
  PROVE  JobInv'
<1> SUFFICES ASSUME NEW p \in Ops PROVE JobParts(p)'
  BY DEF JobInv
<1>1. CASE p = o
  BY <1>1
<1>2. CASE p # o
  <2>1. JobParts(p)
    BY DEF JobInv
  <2> QED BY <1>2, <2>1 DEF JobParts
<1> QED BY <1>1, <1>2

\* The queue stays while its jobs go on.
LEMMA QueueKept ==
  ASSUME QueueInv, BulkTypeOK, queue' = queue,
         \A o \in Ops : job[o].status \in Going => job'[o].status \in Going
  PROVE  QueueInv'
<1>1. \A i \in 1..Len(queue) : queue[i] \in Ops
  BY DEF BulkTypeOK
<1> QED BY <1>1 DEF QueueInv

\* Deliveries stay while no job begins a copy.
LEMMA DelivKept ==
  ASSUME DelivInv, UNCHANGED deliv, \A o \in Ops : job'[o].cursor = job[o].cursor,
         \A o \in Ops : messages'[o] = messages[o],
         \A o \in Ops : prep'[o] \in {0, prep[o]}, BulkTypeOK
  PROVE  DelivInv'
<1>1. \A o \in Ops : InLedger(o)' = InLedger(o)
  BY DEF InLedger, Row
<1>2. ASSUME NEW o \in Ops, NEW r \in 1..Rows
      PROVE  IF deliv'[o][r].state = "none" THEN deliv'[o][r].msg = 0
             ELSE /\ r <= job'[o].cursor + 1 /\ deliv'[o][r].msg \in 1..messages'[o]
                  /\ deliv'[o][r].msg # prep'[o]
  BY DEF DelivInv
<1>3. ASSUME NEW o \in Ops, prep'[o] # 0 PROVE ~InLedger(o)'
  BY <1>1, <1>3 DEF DelivInv
<1> QED BY <1>2, <1>3 DEF DelivInv

\* Intents name copies.
LEMMA KeysTyped ==
  ASSUME BulkTypeOK
  PROVE  \A k \in CleanupKeys : k \in CopyKeys
BY DEF BulkTypeOK, CleanupKeys

\* Due or not, intents name the same objects.
LEMMA MarkingKeeps ==
  ASSUME BulkTypeOK, NEW ks
  PROVE  /\ {i.key : i \in MarkedDue(cleanups, ks)} = CleanupKeys
         /\ MarkedDue(cleanups, ks) \subseteq [key : CopyKeys, due : BOOLEAN]
         /\ \A i \in cleanups : i.due => i \in MarkedDue(cleanups, ks)
<1> DEFINE M(i) == IF i.key \in ks THEN [i EXCEPT !.due = TRUE] ELSE i
<1>1. \A i \in cleanups : M(i) \in [key : CopyKeys, due : BOOLEAN] /\ M(i).key = i.key
  BY DEF BulkTypeOK
<1>2. \A i \in cleanups : i.due => M(i) = i
  BY DEF BulkTypeOK
<1>3. MarkedDue(cleanups, ks) = {M(i) : i \in cleanups}
  BY DEF MarkedDue
<1> HIDE DEF M
<1> QED BY <1>1, <1>2, <1>3 DEF CleanupKeys

\* An intent that is taken up or put off names the same object.
LEMMA Rearming ==
  ASSUME BulkTypeOK, NEW i \in cleanups, NEW b \in BOOLEAN,
         cleanups' = (cleanups \ {i}) \cup {[i EXCEPT !.due = b]}
  PROVE  /\ CleanupKeys' = CleanupKeys
         /\ cleanups' \subseteq [key : CopyKeys, due : BOOLEAN]
<1>1. /\ i \in [key : CopyKeys, due : BOOLEAN]
      /\ [i EXCEPT !.due = b] \in [key : CopyKeys, due : BOOLEAN]
      /\ [i EXCEPT !.due = b].key = i.key
  BY DEF BulkTypeOK
<1>2. CleanupKeys' = CleanupKeys
  BY <1>1 DEF CleanupKeys
<1> QED BY <1>1, <1>2 DEF BulkTypeOK

\* An upload is reserved, or its reservation ends.
LEMMA InvReserve ==
  ASSUME BulkInv, NEW o \in Ops, ReserveBulkOperation(o) \/ EndReservation(o)
  PROVE  BulkInv'
<1>1. BulkTypeOK'
  BY DEF BulkInv, BulkTypeOK, ReserveBulkOperation, EndReservation
<1>2. JobInv'
  BY JobKept DEF BulkInv, ReserveBulkOperation, EndReservation
<1>3. QueueInv'
  BY DEF BulkInv, QueueInv, ReserveBulkOperation, EndReservation
<1>4. DelivInv' /\ KeyInv' /\ JobCopyInv'
  BY DEF BulkInv, DelivInv, InLedger, Row, KeyInv, CleanupKeys, JobCopyInv, ReserveBulkOperation, EndReservation
<1>5. RunInv'
  BY DEF BulkInv, RunInv, InLedger, Row, Protected, Delivered, ReserveBulkOperation, EndReservation
<1>6. RowsHaveBytes' /\ JobsHaveBytes' /\ TrackInv'
  BY DEF BulkInv, RowsHaveBytes, JobsHaveBytes, TrackInv, Delivered, CleanupKeys, ReserveBulkOperation, EndReservation
<1> QED BY <1>1, <1>2, <1>3, <1>4, <1>5, <1>6 DEF BulkInv

\* A reserved operation becomes a job with an intent for its copy, or is refused.
LEMMA InvEnqueue ==
  ASSUME BulkAssumption, BulkInv, NEW o \in Ops, NEW n \in 1..Rows, EnqueueBulkJob(o, n)
  PROVE  BulkInv'
<1>1. CASE UNCHANGED <<adm, job, active, cleanups, objs>>
  <2>1. BulkTypeOK'
    BY <1>1 DEF BulkInv, BulkTypeOK, EnqueueBulkJob
  <2>2. JobInv'
    BY <1>1, JobKept DEF BulkInv, EnqueueBulkJob
  <2>3. QueueInv' /\ DelivInv' /\ KeyInv' /\ JobCopyInv'
    BY <1>1 DEF BulkInv, QueueInv, DelivInv, InLedger, Row, KeyInv, CleanupKeys, JobCopyInv, EnqueueBulkJob
  <2>4. RunInv'
    BY <1>1 DEF BulkInv, RunInv, InLedger, Row, Protected, Delivered, EnqueueBulkJob
  <2>5. RowsHaveBytes' /\ JobsHaveBytes' /\ TrackInv'
    BY <1>1 DEF BulkInv, RowsHaveBytes, JobsHaveBytes, TrackInv, Delivered, CleanupKeys, EnqueueBulkJob
  <2> QED BY <2>1, <2>2, <2>3, <2>4, <2>5 DEF BulkInv
<1>2. CASE
         /\ adm' = [adm EXCEPT ![o] = "preparing"]
         /\ job' = [job EXCEPT ![o].status = "preparing", ![o].total = n]
         /\ active' = active \cup {o}
         /\ cleanups' = cleanups \cup {Intent(JobCopy(o), FALSE)}
         /\ objs' = objs \cup {Upload(o)}
  <2> USE DEF BulkInv
  <2>0. /\ o \in resv /\ resv' = resv \ {o} /\ adm[o] = "none" /\ job[o].status = "none"
        /\ UNCHANGED <<queue, age, prep, messages, deliv, slow, stray, members, run, fails>>
        /\ JobParts(o)
    BY DEF EnqueueBulkJob, JobInv, JobParts
  <2>a. /\ job'[o] = [job[o] EXCEPT !.status = "preparing", !.total = n]
        /\ \A p \in Ops \ {o} : job'[p] = job[p]
    BY <1>2 DEF BulkTypeOK
  <2>d. /\ job'[o] \in BulkJobs /\ job'[o].status = "preparing"
        /\ job'[o].cursor = job[o].cursor
    <3>1. job[o] \in BulkJobs /\ n \in 0..Rows
      BY BulkAssumption DEF BulkTypeOK
    <3> QED BY <2>a, <3>1 DEF BulkJobs
  <2>b. JobCopy(o) \in CopyKeys /\ Upload(o) \in CopyKeys
    BY DEF JobCopy, Upload, CopyKeys
  <2>c. CleanupKeys' = CleanupKeys \cup {JobCopy(o)}
    <3>1. Intent(JobCopy(o), FALSE).key = JobCopy(o)
      BY DEF Intent
    <3> QED BY <1>2, <3>1 DEF CleanupKeys
  <2>1. BulkTypeOK'
    <3>1. Intent(JobCopy(o), FALSE) \in [key : CopyKeys, due : BOOLEAN]
      BY <2>b DEF Intent
    <3>2. job' \in [Ops -> BulkJobs]
      <4>1. job'[o] \in BulkJobs
        BY <2>a, <2>d
      <4> QED BY <1>2, <2>a, <4>1 DEF BulkTypeOK
    <3> QED BY <1>2, <2>0, <2>b, <3>1, <3>2 DEF BulkTypeOK
  <2>2. JobInv'
    <3>1. JobParts(o)'
      BY <1>2, <2>0, <2>a DEF JobParts, BulkTypeOK, Going
    <3> QED BY <1>2, <2>0, <2>a, <3>1, JobStep DEF BulkTypeOK
  <2>3. QueueInv'
    BY <2>0, <2>a, QueueKept DEF Going
  <2>4. DelivInv'
    <3>1. \A p \in Ops : job'[p].cursor = job[p].cursor
      BY <2>a, <2>d
    <3> QED BY <2>0, <3>1, DelivKept
  <2>5. KeyInv'
    BY <1>2, <2>0, <2>b, <2>c DEF KeyInv, JobCopy, Upload, BulkTypeOK
  <2>6. JobCopyInv'
    <3>1. \A p \in Ops : JobCopy(p) \in objs' => JobCopy(p) \in objs
      BY <1>2 DEF JobCopy, Upload
    <3>2. ASSUME NEW p \in Ops, p # o PROVE adm'[p] = adm[p] /\ (p \in active' <=> p \in active)
      BY <1>2, <3>2 DEF BulkTypeOK
    <3>3. age[o] = 0 /\ adm'[o] = "preparing" /\ JobCopy(o) \notin slow
      BY <1>2, <2>0 DEF JobParts, BulkTypeOK, JobCopyInv
    <3> QED BY <2>0, <2>c, <3>1, <3>2, <3>3 DEF JobCopyInv
  <2>7. RunInv'
    <3>1. \A p \in run.op : p # o
      BY <2>0 DEF RunInv, Going, AtRow, BulkTypeOK
    <3>2. \A p \in run.op : adm'[p] = adm[p] /\ job'[p] = job[p] /\ InLedger(p)' = InLedger(p)
      BY <1>2, <2>0, <2>a, <3>1 DEF BulkTypeOK, InLedger, Row
    <3>3. ASSUME NEW i \in run.cleanup PROVE ~Protected(i.key)' /\ ~Delivered(i.key)'
      <4>1. i \in cleanups /\ i.key \in CleanupKeys /\ i.key.op \in Ops /\ i.key.op # o
        BY <2>0, <3>3 DEF BulkTypeOK, CleanupKeys, KeyInv, CopyKeys
      <4>2. adm'[i.key.op] = adm[i.key.op] /\ job'[i.key.op] = job[i.key.op]
        BY <1>2, <2>a, <4>1 DEF BulkTypeOK
      <4>3. ~Protected(i.key) /\ ~Delivered(i.key)
        BY <3>3 DEF RunInv
      <4> QED BY <2>0, <4>2, <4>3 DEF Protected, Delivered
    <3> QED BY <1>2, <2>0, <3>1, <3>2, <3>3 DEF RunInv, BulkTypeOK
  <2>8. RowsHaveBytes' /\ JobsHaveBytes'
    <3>1. RowsHaveBytes'
      BY <1>2, <2>0 DEF RowsHaveBytes
    <3>2. \A p \in Ops : job'[p].status \in Going => job[p].status \in Going
      BY <2>a, <2>d DEF Going
    <3> QED BY <1>2, <2>0, <3>1, <3>2 DEF JobsHaveBytes, Going
  <2>9. TrackInv'
    BY <1>2, <2>0, <2>c DEF TrackInv, Upload, Delivered
  <2> QED BY <2>1, <2>2, <2>3, <2>4, <2>5, <2>6, <2>7, <2>8, <2>9
<1> QED BY <1>1, <1>2 DEF EnqueueBulkJob

\* A delivery settles, or its user has it sent again.
LEMMA InvDelivery ==
  ASSUME BulkAssumption, BulkInv, NEW o \in Ops, NEW r \in 1..Rows, DeliverySettles(o, r) \/ RetryDelivery(o, r)
  PROVE  BulkInv'
<1> USE DEF BulkInv
<1>1. PICK t \in {"open", "settled"} :
        /\ deliv' = [deliv EXCEPT ![o][r].state = t] /\ deliv[o][r].state # "none"
        /\ UNCHANGED <<resv, adm, job, queue, active, age, prep, messages, cleanups, objs, slow, stray,
                       members, run, fails>>
  BY DEF DeliverySettles, RetryDelivery
<1> HIDE DEF DeliverySettles, RetryDelivery
<1>a. deliv' \in [Ops -> [1..Rows -> BulkDeliveries]]
  <2>1. deliv[o] \in [1..Rows -> BulkDeliveries] /\ deliv[o][r] \in BulkDeliveries
    BY DEF BulkTypeOK
  <2>2. [deliv[o][r] EXCEPT !.state = t] \in BulkDeliveries
    BY <2>1 DEF BulkDeliveries
  <2>3. [deliv[o] EXCEPT ![r] = [deliv[o][r] EXCEPT !.state = t]] \in [1..Rows -> BulkDeliveries]
    BY <2>1, <2>2
  <2> QED BY <1>1, <2>3 DEF BulkTypeOK
<1>b. \A p \in Ops : \A q \in 1..Rows :
        /\ deliv'[p][q].state = "none" <=> deliv[p][q].state = "none"
        /\ deliv'[p][q].msg = deliv[p][q].msg
        /\ deliv[p][q].state = "none" => deliv'[p][q] = deliv[p][q]
  <2>1. deliv[o][r] \in BulkDeliveries
    BY DEF BulkTypeOK
  <2>a. \A p \in Ops : deliv[p] \in [1..Rows -> BulkDeliveries]
    BY DEF BulkTypeOK
  <2>2. /\ deliv'[o][r] = [deliv[o][r] EXCEPT !.state = t]
        /\ \A p \in Ops : \A q \in 1..Rows : p # o \/ q # r => deliv'[p][q] = deliv[p][q]
    BY <1>1, <2>a DEF BulkTypeOK
  <2>3. deliv'[o][r].state = t /\ deliv'[o][r].msg = deliv[o][r].msg
    BY <2>1, <2>2 DEF BulkDeliveries
  <2> QED BY <1>1, <2>2, <2>3
<1>c. \A p \in Ops : job[p].cursor + 1 \in 1..Rows => (InLedger(p)' <=> InLedger(p))
  BY <1>1, <1>b DEF InLedger, Row
<1>d. \A p \in Ops : job[p].status \in Going => job[p].cursor + 1 \in 1..Rows
  <2> SUFFICES ASSUME NEW p \in Ops, job[p].status \in Going PROVE job[p].cursor + 1 \in 1..Rows
    OBVIOUS
  <2>1. job[p] \in BulkJobs /\ JobParts(p)
    BY DEF BulkTypeOK, JobInv
  <2>2. job[p].cursor \in 0..Rows /\ job[p].total \in 0..Rows
    BY <2>1 DEF BulkJobs
  <2> QED BY <2>1, <2>2, BulkAssumption DEF JobParts
<1>e. \A k \in CopyKeys : Delivered(k)' <=> Delivered(k)
  BY <1>b DEF Delivered, CopyKeys
<1>1a. BulkTypeOK'
  BY <1>1, <1>a DEF BulkTypeOK
<1>2. JobInv'
  <2> SUFFICES ASSUME NEW p \in Ops PROVE JobParts(p)'
    BY DEF JobInv
  <2>1. JobParts(p)
    BY DEF JobInv
  <2>2. ASSUME \A q \in 1..Rows : deliv[p][q] = NoDelivery
        PROVE  \A q \in 1..Rows : deliv'[p][q] = NoDelivery
    BY <1>b, <2>2 DEF NoDelivery
  <2> QED BY <1>1, <2>1, <2>2 DEF JobParts
<1>3. QueueInv'
  BY <1>1, QueueKept
<1>4. DelivInv'
  <2>1. \A p \in Ops : \A q \in 1..Rows :
          IF deliv'[p][q].state = "none" THEN deliv'[p][q].msg = 0
          ELSE /\ q <= job'[p].cursor + 1 /\ deliv'[p][q].msg \in 1..messages'[p]
               /\ deliv'[p][q].msg # prep'[p]
    BY <1>1, <1>b DEF DelivInv
  <2>2. ASSUME NEW p \in Ops, prep'[p] # 0 PROVE ~InLedger(p)'
    <3>1. job[p].status \in Going
      BY <1>1, <2>2 DEF JobInv, JobParts
    <3> QED BY <1>1, <1>c, <1>d, <2>2, <3>1 DEF DelivInv
  <2> QED BY <2>1, <2>2 DEF DelivInv
<1>5. KeyInv' /\ JobCopyInv'
  BY <1>1 DEF KeyInv, JobCopyInv, CleanupKeys
<1>6. RunInv'
  <2>1. \A p \in run.op : run.pc \in AtRow => (InLedger(p)' <=> InLedger(p))
    BY <1>c, <1>d DEF RunInv, BulkTypeOK
  <2>2. \A i \in run.cleanup : i.key \in CopyKeys
    BY DEF BulkTypeOK
  <2>3. \A i \in run.cleanup : ~Protected(i.key)' /\ ~Delivered(i.key)'
    BY <1>1, <1>e, <2>2 DEF RunInv, Protected
  <2> QED BY <1>1, <2>1, <2>3 DEF RunInv, AtRow
<1>7. RowsHaveBytes' /\ JobsHaveBytes'
  BY <1>1, <1>b DEF RowsHaveBytes, JobsHaveBytes
<1>8. TrackInv'
  <2>1. \A k \in objs : k \in CopyKeys
    BY DEF BulkTypeOK
  <2> QED BY <1>1, <1>e, <2>1 DEF TrackInv, CleanupKeys
<1> QED BY <1>1a, <1>2, <1>3, <1>4, <1>5, <1>6, <1>7, <1>8

\* A member loses the mailbox.
LEMMA InvRevoke ==
  ASSUME BulkInv, NEW o \in Ops, RevokeMember(o)
  PROVE  BulkInv'
<1> USE DEF RevokeMember, BulkInv
<1>1. BulkTypeOK'
  BY DEF BulkTypeOK
<1>2. JobInv' /\ QueueInv' /\ DelivInv' /\ KeyInv' /\ JobCopyInv'
  BY JobKept DEF QueueInv, DelivInv, InLedger, Row, KeyInv, CleanupKeys, JobCopyInv
<1>3. RunInv'
  BY DEF RunInv, InLedger, Row, Protected, Delivered
<1>4. RowsHaveBytes' /\ JobsHaveBytes' /\ TrackInv'
  BY DEF RowsHaveBytes, JobsHaveBytes, TrackInv, Delivered, CleanupKeys
<1> QED BY <1>1, <1>2, <1>3, <1>4

\* A job grows older.
LEMMA InvGrowsOlder ==
  ASSUME BulkInv, NEW o \in Ops, GrowsOlder(o)
  PROVE  BulkInv'
<1> USE DEF BulkInv
<1>0. /\ adm[o] # "none" /\ age[o] \in 0..1 /\ age' = [age EXCEPT ![o] = age[o] + 1]
      /\ UNCHANGED <<resv, adm, job, queue, active, prep, messages, deliv, cleanups, objs, slow, stray,
                     members, run, fails>>
  BY DEF GrowsOlder, BulkTypeOK
<1>1. BulkTypeOK'
  BY <1>0 DEF BulkTypeOK
<1>2. JobInv'
  <2>1. JobParts(o)'
    BY <1>0 DEF JobInv, JobParts
  <2> QED BY <1>0, <2>1, JobStep DEF BulkTypeOK
<1>3. QueueInv' /\ DelivInv' /\ KeyInv'
  BY <1>0 DEF QueueInv, DelivInv, InLedger, Row, KeyInv, CleanupKeys
<1>4. JobCopyInv'
  <2>1. \A p \in Ops : age'[p] = IF p = o THEN age[o] + 1 ELSE age[p]
    BY <1>0 DEF BulkTypeOK
  <2>2. \A p \in Ops : age[p] = 2 => age'[p] = 2
    BY <1>0, <2>1
  <2> QED BY <1>0, <2>2 DEF JobCopyInv, CleanupKeys
<1>5. RunInv'
  BY <1>0 DEF RunInv, InLedger, Row, Protected, Delivered
<1>6. RowsHaveBytes' /\ JobsHaveBytes' /\ TrackInv'
  BY <1>0 DEF RowsHaveBytes, JobsHaveBytes, TrackInv, Delivered, CleanupKeys
<1> QED BY <1>1, <1>2, <1>3, <1>4, <1>5, <1>6

\* An intent falls due.
LEMMA InvFallsDue ==
  ASSUME BulkInv, NEW i \in cleanups, FallsDue(i)
  PROVE  BulkInv'
<1> USE DEF BulkInv
<1>0. /\ ~i.due /\ cleanups' = (cleanups \ {i}) \cup {[i EXCEPT !.due = TRUE]}
      /\ UNCHANGED <<resv, adm, job, queue, active, age, prep, messages, deliv, objs, slow, stray,
                     members, run, fails>>
  BY DEF FallsDue
<1>a. /\ CleanupKeys' = CleanupKeys /\ cleanups' \subseteq [key : CopyKeys, due : BOOLEAN]
  BY <1>0, Rearming
<1>b. run.cleanup \subseteq cleanups'
  BY <1>0 DEF BulkTypeOK, RunInv
<1>1. BulkTypeOK'
  BY <1>0, <1>a, <1>b DEF BulkTypeOK
<1>2. JobInv' /\ QueueInv' /\ DelivInv' /\ KeyInv' /\ JobCopyInv'
  BY <1>0, <1>a, JobKept DEF QueueInv, DelivInv, InLedger, Row, KeyInv, JobCopyInv
<1>3. RunInv'
  BY <1>0 DEF RunInv, InLedger, Row, Protected, Delivered
<1>4. RowsHaveBytes' /\ JobsHaveBytes' /\ TrackInv'
  BY <1>0, <1>a DEF RowsHaveBytes, JobsHaveBytes, TrackInv, Delivered
<1> QED BY <1>1, <1>2, <1>3, <1>4

\* A pass that finds nothing to do goes on.
LEMMA InvNothing ==
  ASSUME BulkInv, NothingToPrepare \/ NothingToClean
  PROVE  BulkInv'
<1> USE DEF BulkInv
<1>0. /\ run' = [pc |-> run'.pc, op |-> {}, cleanup |-> {}] /\ run'.pc \in {"cleanup", "head"}
      /\ UNCHANGED <<resv, adm, job, queue, active, age, prep, messages, deliv, cleanups, objs,
                     slow, stray, members, fails>>
  BY DEF NothingToPrepare, NothingToClean, Step, Idle
<1>1. BulkTypeOK'
  BY <1>0 DEF BulkTypeOK
<1>2. JobInv' /\ QueueInv' /\ DelivInv' /\ KeyInv' /\ JobCopyInv'
  BY <1>0, JobKept DEF QueueInv, DelivInv, InLedger, Row, KeyInv, CleanupKeys, JobCopyInv
<1>3. RunInv'
  BY <1>0 DEF RunInv, AtRow
<1>4. RowsHaveBytes' /\ JobsHaveBytes' /\ TrackInv'
  BY <1>0 DEF RowsHaveBytes, JobsHaveBytes, TrackInv, Delivered, CleanupKeys
<1> QED BY <1>1, <1>2, <1>3, <1>4

\* A pass begins, and gives up jobs that prepare for too long.
LEMMA InvStartPass ==
  ASSUME BulkInv, StartPass
  PROVE  BulkInv'
<1> USE DEF BulkInv
<1> DEFINE late == {o \in active : job[o].status = "preparing" /\ age[o] >= 1}
           New == {Intent(Upload(o), TRUE) : o \in late}
<1>0. /\ run.pc = "idle" /\ run' = [pc |-> "prepare", op |-> {}, cleanup |-> {}]
      /\ adm' = [o \in Ops |-> IF o \in late THEN "failed" ELSE adm[o]]
      /\ job' = [o \in Ops |-> IF o \in late THEN [job[o] EXCEPT !.status = "failed"] ELSE job[o]]
      /\ active' = active \ late
      /\ cleanups' = MarkedDue(cleanups, {JobCopy(o) : o \in late}) \cup New
      /\ UNCHANGED <<resv, queue, age, prep, messages, deliv, objs, slow, stray, members, fails>>
  BY DEF StartPass, Step, Idle
<1>a. \A o \in late : o \in Ops /\ adm[o] = "preparing" /\ job[o].status = "preparing"
  BY DEF BulkTypeOK, JobInv, JobParts
<1>b. \A o \in late : job'[o] = [job[o] EXCEPT !.status = "failed"]
  BY <1>0, <1>a
<1>c. \A o \in late : /\ job'[o] \in BulkJobs /\ job'[o].status = "failed"
                      /\ job'[o].cursor = job[o].cursor /\ job'[o].total = job[o].total
                      /\ job'[o].enqueued = job[o].enqueued /\ job'[o].failed = job[o].failed
  <2> SUFFICES ASSUME NEW o \in late
      PROVE /\ job'[o] \in BulkJobs /\ job'[o].status = "failed"
            /\ job'[o].cursor = job[o].cursor /\ job'[o].total = job[o].total
            /\ job'[o].enqueued = job[o].enqueued /\ job'[o].failed = job[o].failed
    OBVIOUS
  <2>1. job[o] \in BulkJobs
    BY <1>a DEF BulkTypeOK
  <2> QED BY <1>b, <2>1 DEF BulkJobs, Ended
<1>d. \A o \in Ops \ late : adm'[o] = adm[o] /\ job'[o] = job[o] /\ (o \in active' <=> o \in active)
  BY <1>0
<1>e. \A o \in late : adm'[o] = "failed" /\ o \notin active'
  BY <1>0, <1>a
<1>f. \A o \in Ops : job'[o].status \in Going <=> job[o].status \in Going
  BY <1>a, <1>c, <1>d DEF Going
<1>g. /\ CleanupKeys' = CleanupKeys \cup {Upload(o) : o \in late}
      /\ cleanups' \subseteq [key : CopyKeys, due : BOOLEAN]
  <2>1. \A i \in New : i.key \in {Upload(o) : o \in late} /\ i \in [key : CopyKeys, due : BOOLEAN]
    <3>1. \A o \in late : o \in Ops
      BY <1>a
    <3>2. ASSUME NEW o \in Ops
          PROVE  /\ Intent(Upload(o), TRUE).key = Upload(o)
                 /\ Intent(Upload(o), TRUE) \in [key : CopyKeys, due : BOOLEAN]
      BY DEF Intent, Upload, CopyKeys
    <3> QED BY <3>1, <3>2
  <2>2. \A o \in late : Intent(Upload(o), TRUE) \in New /\ Intent(Upload(o), TRUE).key = Upload(o)
    BY DEF Intent
  <2> HIDE DEF late, New
  <2>3. /\ {i.key : i \in MarkedDue(cleanups, {JobCopy(o) : o \in late})} = CleanupKeys
        /\ MarkedDue(cleanups, {JobCopy(o) : o \in late}) \subseteq [key : CopyKeys, due : BOOLEAN]
    BY MarkingKeeps
  <2> QED BY <1>0, <2>1, <2>2, <2>3 DEF CleanupKeys
<1> HIDE DEF New
<1>1. BulkTypeOK'
  <2>1. adm' \in [Ops -> {"none", "preparing", "queued", "failed"}]
    BY <1>0 DEF BulkTypeOK
  <2>2. job' \in [Ops -> BulkJobs]
    <3>1. \A o \in Ops : job'[o] \in BulkJobs
      BY <1>c, <1>d DEF BulkTypeOK
    <3> QED BY <1>0, <3>1
  <2> QED BY <1>0, <1>g, <2>1, <2>2 DEF BulkTypeOK
<1>2. JobInv'
  <2> SUFFICES ASSUME NEW o \in Ops PROVE JobParts(o)'
    BY DEF JobInv
  <2>1. JobParts(o)
    BY DEF JobInv
  <2>2. CASE o \in late
    <3> HIDE DEF late
    <3> QED BY <1>0, <1>a, <1>c, <1>e, <2>1, <2>2 DEF JobParts, Going
  <2>3. CASE o \notin late
    <3> HIDE DEF late
    <3> QED BY <1>0, <1>d, <2>1, <2>3 DEF JobParts
  <2> QED BY <2>2, <2>3
<1>3. QueueInv'
  BY <1>0, <1>f, QueueKept
<1>4. DelivInv'
  <2>1. \A o \in Ops : job'[o].cursor = job[o].cursor
    BY <1>c, <1>d
  <2> QED BY <1>0, <2>1, DelivKept
<1>5. KeyInv'
  <2>1. \A o \in late : Upload(o).kind = "upload" /\ Upload(o).msg = 0 /\ Upload(o).op = o
    BY DEF Upload
  <2>2. \A o \in Ops : adm[o] # "none" => adm'[o] # "none"
    BY <1>d, <1>e
  <2>3. \A k \in CleanupKeys : k.op \in Ops
    BY KeysTyped DEF CopyKeys
  <2> HIDE DEF late
  <2>4. ASSUME NEW k \in CleanupKeys'
        PROVE  /\ adm'[k.op] # "none"
               /\ IF k.kind = "row" THEN k.msg \in 1..messages[k.op] ELSE k.msg = 0
    BY <1>a, <1>e, <1>g, <2>1, <2>2, <2>3, <2>4 DEF KeyInv
  <2> QED BY <1>0, <1>g, <2>4 DEF KeyInv
<1>6. JobCopyInv'
  <2>1. \A o \in Ops : /\ adm'[o] = "none" <=> adm[o] = "none"
                       /\ adm'[o] = "preparing" => adm[o] = "preparing" /\ o \notin late
    BY <1>a, <1>d, <1>e
  <2> HIDE DEF late
  <2> QED BY <1>0, <1>g, <2>1 DEF JobCopyInv
<1>7. RunInv'
  BY <1>0 DEF RunInv, AtRow
<1>8. RowsHaveBytes' /\ JobsHaveBytes'
  BY <1>0, <1>f DEF RowsHaveBytes, JobsHaveBytes, Going
<1>9. TrackInv'
  BY <1>0, <1>g DEF TrackInv, Delivered
<1> QED BY <1>1, <1>2, <1>3, <1>4, <1>5, <1>6, <1>7, <1>8, <1>9

\* The upload is copied for its job.
LEMMA InvCopyUpload ==
  ASSUME BulkInv, NEW o \in Ops, CopyUpload(o)
  PROVE  BulkInv'
<1> USE DEF BulkInv
<1>0. /\ run.pc = "prepare" /\ o \in active /\ adm[o] = "preparing"
      /\ run' = [pc |-> "copied", op |-> {o}, cleanup |-> {}] /\ objs' = objs \cup {JobCopy(o)}
      /\ UNCHANGED <<resv, adm, job, queue, active, age, prep, messages, deliv, cleanups, slow, stray,
                     members, fails>>
  BY DEF CopyUpload, Step, Idle
<1>a. JobCopy(o) \in CopyKeys /\ JobCopy(o).kind = "job" /\ JobCopy(o).msg = 0
  BY DEF JobCopy, CopyKeys
<1>b. \A p \in Ops : JobCopy(p) = JobCopy(o) <=> p = o
  BY DEF JobCopy
<1>c. CleanupKeys' = CleanupKeys /\ JobCopy(o) \in CleanupKeys
  BY <1>0 DEF CleanupKeys, JobCopyInv
<1>1. BulkTypeOK'
  BY <1>0, <1>a DEF BulkTypeOK
<1>2. JobInv' /\ QueueInv' /\ DelivInv' /\ KeyInv'
  BY <1>0, <1>a, <1>c, JobKept DEF QueueInv, DelivInv, InLedger, Row, KeyInv
<1>3. JobCopyInv'
  BY <1>0, <1>b, <1>c DEF JobCopyInv
<1>4. RunInv'
  BY <1>0 DEF RunInv, AtRow
<1>5. RowsHaveBytes' /\ JobsHaveBytes'
  BY <1>0 DEF RowsHaveBytes, JobsHaveBytes
<1>6. TrackInv'
  BY <1>0, <1>c DEF TrackInv, Delivered
<1> QED BY <1>1, <1>2, <1>3, <1>4, <1>5, <1>6

\* A prepared job is queued.
LEMMA InvCommitPreparation ==
  ASSUME BulkInv, NEW o \in Ops, CommitPreparation(o)
  PROVE  BulkInv'
<1> USE DEF BulkInv
<1>0. /\ run.pc = "copied" /\ o \in run.op /\ adm[o] = "preparing" /\ JobCopy(o) \in objs
      /\ run' = [pc |-> "cleanup", op |-> {}, cleanup |-> {}]
      /\ adm' = [adm EXCEPT ![o] = "queued"] /\ job' = [job EXCEPT ![o].status = "queued"]
      /\ queue' = Append(queue, o)
      /\ cleanups' = cleanups \cup {Intent(Upload(o), FALSE)}
      /\ UNCHANGED <<resv, active, age, prep, messages, deliv, objs, slow, stray, members, fails>>
      /\ JobParts(o) /\ job[o] \in BulkJobs
  BY DEF CommitPreparation, Step, Idle, RunInv, JobInv, BulkTypeOK
<1>a. /\ job'[o] \in BulkJobs /\ job'[o].status = "queued"
      /\ job'[o].cursor = job[o].cursor /\ job'[o].total = job[o].total
      /\ job'[o].enqueued = job[o].enqueued /\ job'[o].failed = job[o].failed
      /\ \A p \in Ops \ {o} : job'[p] = job[p]
  <2>1. job'[o] = [job[o] EXCEPT !.status = "queued"] /\ \A p \in Ops \ {o} : job'[p] = job[p]
    BY <1>0 DEF BulkTypeOK
  <2>2. job[o] \in BulkJobs
    BY <1>0
  <2> QED BY <2>1, <2>2 DEF BulkJobs
<1>b. adm'[o] = "queued" /\ \A p \in Ops \ {o} : adm'[p] = adm[p]
  BY <1>0 DEF BulkTypeOK
<1>c. /\ CleanupKeys' = CleanupKeys \cup {Upload(o)} /\ Upload(o) \in CopyKeys
      /\ Upload(o).kind = "upload" /\ Upload(o).msg = 0 /\ Upload(o).op = o
      /\ cleanups' \subseteq [key : CopyKeys, due : BOOLEAN]
  <2>1. Intent(Upload(o), FALSE).key = Upload(o) /\ Upload(o) \in CopyKeys
    BY DEF Intent, Upload, CopyKeys
  <2>2. Intent(Upload(o), FALSE) \in [key : CopyKeys, due : BOOLEAN]
    BY <2>1 DEF Intent
  <2>3. Upload(o).kind = "upload" /\ Upload(o).msg = 0 /\ Upload(o).op = o
    BY DEF Upload
  <2>4. CleanupKeys' = CleanupKeys \cup {Upload(o)}
    BY <1>0, <2>1 DEF CleanupKeys
  <2> QED BY <1>0, <2>1, <2>2, <2>3, <2>4 DEF BulkTypeOK
<1>1. BulkTypeOK'
  <2>1. job' \in [Ops -> BulkJobs] /\ adm' \in [Ops -> {"none", "preparing", "queued", "failed"}]
    BY <1>0, <1>a DEF BulkTypeOK
  <2>2. queue' \in Seq(Ops)
    BY <1>0 DEF BulkTypeOK
  <2> QED BY <1>0, <1>c, <2>1, <2>2 DEF BulkTypeOK
<1>2. JobInv'
  <2>1. JobParts(o)'
    BY <1>0, <1>a, <1>b DEF JobParts, Going, BulkJobs
  <2> QED BY <1>0, <1>a, <1>b, <2>1, JobStep
<1>3. QueueInv'
  <2>1. \A i \in 1..Len(queue) : queue[i] \in Ops /\ job[queue[i]].status \in Going /\ queue[i] # o
    BY <1>0 DEF QueueInv, JobParts, Going, BulkTypeOK
  <2>2. /\ Len(queue') = Len(queue) + 1 /\ queue'[Len(queue) + 1] = o
        /\ \A i \in 1..Len(queue) : queue'[i] = queue[i]
    BY <1>0 DEF BulkTypeOK
  <2>3. Len(queue) \in Nat
    BY DEF BulkTypeOK
  <2>4. \A i \in 1..Len(queue') : i \in 1..Len(queue) \/ i = Len(queue) + 1
    BY <2>2, <2>3
  <2>5. job'[o].status \in Going
    BY <1>a DEF Going
  <2> QED BY <1>a, <2>1, <2>2, <2>4, <2>5 DEF QueueInv, Distinct
<1>4. DelivInv'
  BY <1>0, <1>a, DelivKept
<1>5. KeyInv'
  BY <1>0, <1>b, <1>c, KeysTyped DEF KeyInv, CopyKeys
<1>6. JobCopyInv'
  BY <1>0, <1>b, <1>c DEF JobCopyInv
<1>7. RunInv'
  BY <1>0 DEF RunInv, AtRow
<1>8. RowsHaveBytes' /\ JobsHaveBytes'
  BY <1>0, <1>a DEF RowsHaveBytes, JobsHaveBytes
<1>9. TrackInv'
  BY <1>0, <1>c DEF TrackInv, Delivered
<1> QED BY <1>1, <1>2, <1>3, <1>4, <1>5, <1>6, <1>7, <1>8, <1>9

\* A job that cannot be prepared fails, and its copy is due.
LEMMA InvFailPreparation ==
  ASSUME BulkInv, NEW o \in Ops, FailPreparation(o)
  PROVE  BulkInv'
<1> USE DEF BulkInv
<1>0. /\ run.pc \in {"prepare", "copied"} /\ adm[o] = "preparing"
      /\ run' = [pc |-> "cleanup", op |-> {}, cleanup |-> {}]
      /\ adm' = [adm EXCEPT ![o] = "failed"] /\ job' = [job EXCEPT ![o].status = "failed"]
      /\ active' = active \ {o}
      /\ cleanups' = MarkedDue(cleanups, {JobCopy(o)}) \cup {Intent(Upload(o), FALSE)}
      /\ slow' \subseteq slow \cup {JobCopy(o)}
      /\ UNCHANGED <<resv, queue, age, prep, messages, deliv, objs, stray, members, fails>>
      /\ JobParts(o) /\ job[o] \in BulkJobs
  <2>1. slow' \subseteq slow \cup {JobCopy(o)}
    BY DEF FailPreparation, CutOff
  <2> QED BY <2>1 DEF FailPreparation, Step, Idle, JobInv, BulkTypeOK
<1>e. JobCopy(o) \in CopyKeys /\ JobCopy(o).kind = "job" /\ JobCopy(o).msg = 0
  BY DEF JobCopy, CopyKeys
<1>f. \A p \in Ops : JobCopy(p) = JobCopy(o) => p = o
  BY DEF JobCopy
<1>a. /\ job'[o] \in BulkJobs /\ job'[o].status = "failed"
      /\ job'[o].cursor = job[o].cursor /\ job'[o].total = job[o].total
      /\ job'[o].enqueued = job[o].enqueued /\ job'[o].failed = job[o].failed
      /\ \A p \in Ops \ {o} : job'[p] = job[p]
  <2>1. job'[o] = [job[o] EXCEPT !.status = "failed"] /\ \A p \in Ops \ {o} : job'[p] = job[p]
    BY <1>0 DEF BulkTypeOK
  <2> QED BY <1>0, <2>1 DEF BulkJobs, Ended
<1>b. adm'[o] = "failed" /\ \A p \in Ops \ {o} : adm'[p] = adm[p]
  BY <1>0 DEF BulkTypeOK
<1>c. /\ CleanupKeys' = CleanupKeys \cup {Upload(o)} /\ Upload(o) \in CopyKeys
      /\ Upload(o).kind = "upload" /\ Upload(o).msg = 0 /\ Upload(o).op = o
      /\ cleanups' \subseteq [key : CopyKeys, due : BOOLEAN]
  <2>1. Intent(Upload(o), FALSE).key = Upload(o) /\ Upload(o) \in CopyKeys
    BY DEF Intent, Upload, CopyKeys
  <2>2. Intent(Upload(o), FALSE) \in [key : CopyKeys, due : BOOLEAN]
    BY <2>1 DEF Intent
  <2>3. Upload(o).kind = "upload" /\ Upload(o).msg = 0 /\ Upload(o).op = o
    BY DEF Upload
  <2>4. /\ {i.key : i \in MarkedDue(cleanups, {JobCopy(o)})} = CleanupKeys
        /\ MarkedDue(cleanups, {JobCopy(o)}) \subseteq [key : CopyKeys, due : BOOLEAN]
    BY MarkingKeeps
  <2> QED BY <1>0, <2>1, <2>2, <2>3, <2>4 DEF CleanupKeys
<1>d. \A p \in Ops : job'[p].status \in Going <=> job[p].status \in Going
  BY <1>0, <1>a DEF Going, JobParts
<1>1. BulkTypeOK'
  <2>1. job' \in [Ops -> BulkJobs] /\ adm' \in [Ops -> {"none", "preparing", "queued", "failed"}]
    BY <1>0, <1>a DEF BulkTypeOK
  <2> QED BY <1>0, <1>c, <1>e, <2>1 DEF BulkTypeOK
<1>2. JobInv'
  <2>1. JobParts(o)'
    BY <1>0, <1>a, <1>b DEF JobParts, Going, BulkJobs
  <2> QED BY <1>0, <1>a, <1>b, <2>1, JobStep
<1>3. QueueInv'
  BY <1>0, <1>d, QueueKept
<1>4. DelivInv'
  BY <1>0, <1>a, DelivKept
<1>5. KeyInv'
  BY <1>0, <1>b, <1>c, <1>e, KeysTyped DEF KeyInv, CopyKeys
<1>6. JobCopyInv'
  BY <1>0, <1>b, <1>c, <1>f DEF JobCopyInv
<1>7. RunInv'
  BY <1>0 DEF RunInv, AtRow
<1>8. RowsHaveBytes' /\ JobsHaveBytes'
  BY <1>0, <1>d DEF RowsHaveBytes, JobsHaveBytes, Going
<1>9. TrackInv'
  BY <1>0, <1>c DEF TrackInv, Delivered
<1> QED BY <1>1, <1>2, <1>3, <1>4, <1>5, <1>6, <1>7, <1>8, <1>9

\* A pass claims a cleanup, or puts it off.
LEMMA InvClaimCleanup ==
  ASSUME BulkInv, NEW i \in cleanups, ClaimCleanup(i)
  PROVE  BulkInv'
<1> USE DEF BulkInv
<1>0. /\ i.due /\ i \in [key : CopyKeys, due : BOOLEAN] /\ run.pc = "cleanup"
      /\ UNCHANGED <<resv, adm, job, queue, active, age, prep, messages, deliv, objs, slow, stray, members,
                     fails>>
  BY DEF ClaimCleanup, BulkTypeOK
<1>a. CASE Protected(i.key)
  <2>1. /\ cleanups' = (cleanups \ {i}) \cup {[i EXCEPT !.due = FALSE]}
        /\ run' = [pc |-> "head", op |-> {}, cleanup |-> {}]
    BY <1>a DEF ClaimCleanup, Step, Idle
  <2>2. CleanupKeys' = CleanupKeys /\ cleanups' \subseteq [key : CopyKeys, due : BOOLEAN]
    BY <2>1, Rearming
  <2>3. BulkTypeOK'
    BY <1>0, <2>1, <2>2 DEF BulkTypeOK
  <2>4. JobInv' /\ QueueInv' /\ DelivInv' /\ KeyInv' /\ JobCopyInv'
    BY <1>0, <2>1, <2>2, JobKept DEF QueueInv, DelivInv, InLedger, Row, KeyInv, JobCopyInv
  <2>5. RunInv'
    BY <2>1 DEF RunInv, AtRow
  <2>6. RowsHaveBytes' /\ JobsHaveBytes' /\ TrackInv'
    BY <1>0, <2>2 DEF RowsHaveBytes, JobsHaveBytes, TrackInv, Delivered
  <2> QED BY <2>3, <2>4, <2>5, <2>6
<1>b. CASE ~Protected(i.key) /\ Delivered(i.key)
  <2>1. cleanups' = cleanups \ {i} /\ run' = [pc |-> "head", op |-> {}, cleanup |-> {}]
    BY <1>b DEF ClaimCleanup, Step, Idle
  <2>2. CleanupKeys' \subseteq CleanupKeys /\ CleanupKeys \ {i.key} \subseteq CleanupKeys'
    BY <2>1 DEF CleanupKeys
  <2>3. BulkTypeOK'
    BY <1>0, <2>1 DEF BulkTypeOK
  <2>4. JobInv' /\ QueueInv' /\ DelivInv'
    BY <1>0, JobKept DEF QueueInv, DelivInv, InLedger, Row
  <2>5. KeyInv'
    <3>1. ASSUME NEW o \in Ops, prep[o] # 0 PROVE RowCopy(o, prep[o]) # i.key
      BY <1>b, <3>1 DEF Delivered, DelivInv, RowCopy
    <3> QED BY <1>0, <2>2, <3>1 DEF KeyInv
  <2>6. JobCopyInv'
    <3>1. \A o \in Ops : JobCopy(o) # i.key
      BY <1>b DEF Delivered, JobCopy
    <3> QED BY <1>0, <2>1, <2>2, <3>1 DEF JobCopyInv
  <2>7. RunInv'
    BY <2>1 DEF RunInv, AtRow
  <2>8. RowsHaveBytes' /\ JobsHaveBytes' /\ TrackInv'
    BY <1>0, <1>b, <2>2 DEF RowsHaveBytes, JobsHaveBytes, TrackInv, Delivered
  <2> QED BY <2>3, <2>4, <2>5, <2>6, <2>7, <2>8
<1>c. CASE ~Protected(i.key) /\ ~Delivered(i.key)
  <2>1. cleanups' = cleanups /\ run' = [pc |-> "delete", op |-> {}, cleanup |-> {i}]
    BY <1>c DEF ClaimCleanup, Idle
  <2>2. BulkTypeOK'
    BY <1>0, <2>1 DEF BulkTypeOK
  <2>3. JobInv' /\ QueueInv' /\ DelivInv' /\ KeyInv' /\ JobCopyInv'
    BY <1>0, <2>1, JobKept DEF QueueInv, DelivInv, InLedger, Row, KeyInv, JobCopyInv, CleanupKeys
  <2>4. RunInv'
    BY <1>0, <1>c, <2>1 DEF RunInv, AtRow, Protected, Delivered
  <2>5. RowsHaveBytes' /\ JobsHaveBytes' /\ TrackInv'
    BY <1>0, <2>1 DEF RowsHaveBytes, JobsHaveBytes, TrackInv, Delivered, CleanupKeys
  <2> QED BY <2>2, <2>3, <2>4, <2>5
<1> QED BY <1>a, <1>b, <1>c

\* A copy that nobody needs is deleted.
LEMMA InvDeleteCopy ==
  ASSUME BulkAssumption, BulkInv, NEW i \in cleanups, DeleteCopy(i)
  PROVE  BulkInv'
<1> USE DEF BulkInv
<1>0. /\ i \in run.cleanup /\ run' = [pc |-> "head", op |-> {}, cleanup |-> {}]
      /\ ~Protected(i.key) /\ ~Delivered(i.key)
      /\ i \in [key : CopyKeys, due : BOOLEAN] /\ i.key \in CleanupKeys
      /\ UNCHANGED <<resv, adm, job, queue, active, age, prep, messages, deliv, slow, members>>
  BY DEF DeleteCopy, BulkTypeOK, Step, Idle, RunInv, CleanupKeys
<1>1. \/ objs' = objs \ {i.key} /\ stray' = stray \ {i.key} /\ Deleted(i) /\ fails' = fails
      \/ /\ UNCHANGED <<objs, stray>> /\ cleanups' = (cleanups \ {i}) \cup {[i EXCEPT !.due = FALSE]}
         /\ fails' \in {fails, fails + 1} /\ fails < MaxFails
  BY DEF DeleteCopy
<1>2. \/ /\ objs' \in {objs, objs \ {i.key}}
         /\ cleanups' = (cleanups \ {i}) \cup {[i EXCEPT !.due = FALSE]}
      \/ /\ objs' = objs \ {i.key} /\ cleanups' = cleanups \ {i}
         /\ i.key.kind = "job" => age[i.key.op] = 2
  <2>1. CASE Deleted(i)
    <3>1. i.key.op \in Ops
      BY <1>0 DEF CopyKeys
    <3>2. age[i.key.op] \in 0..2
      BY <3>1 DEF BulkTypeOK
    <3> QED BY <1>1, <2>1, <3>2 DEF Deleted
  <2> QED BY <1>1, <2>1
<1>3. fails' \in 0..MaxFails
  BY <1>1, BulkAssumption DEF BulkTypeOK
<1>4. /\ cleanups' \subseteq [key : CopyKeys, due : BOOLEAN]
      /\ CleanupKeys' \subseteq CleanupKeys
      /\ CleanupKeys \ {i.key} \subseteq CleanupKeys'
  <2>1. CASE cleanups' = (cleanups \ {i}) \cup {[i EXCEPT !.due = FALSE]}
    BY <2>1, Rearming
  <2>2. CASE cleanups' = cleanups \ {i}
    BY <2>2 DEF CleanupKeys, BulkTypeOK
  <2> QED BY <1>2, <2>1, <2>2
<1>5. \/ CleanupKeys' = CleanupKeys
      \/ i.key \notin objs' /\ (i.key.kind = "job" => age[i.key.op] = 2)
  <2>1. CASE cleanups' = (cleanups \ {i}) \cup {[i EXCEPT !.due = FALSE]}
    BY <2>1, Rearming
  <2> QED BY <1>2, <2>1
<1>6. objs \ {i.key} \subseteq objs' /\ objs' \subseteq objs
  BY <1>2
<1>7. stray' \subseteq stray /\ \A k \in objs' : k \in stray => k \in stray'
  BY <1>1
<1> HIDE DEF DeleteCopy
<1>a. BulkTypeOK'
  BY <1>0, <1>3, <1>4, <1>6, <1>7 DEF BulkTypeOK
<1>b. JobInv' /\ QueueInv' /\ DelivInv'
  BY <1>0, JobKept DEF QueueInv, DelivInv, InLedger, Row
<1>c. KeyInv'
  <2>1. ASSUME NEW o \in Ops, prep[o] # 0 PROVE RowCopy(o, prep[o]) # i.key
    <3>1. job[o].status \in Going
      BY <2>1 DEF JobInv, JobParts
    <3> QED BY <1>0, <3>1 DEF Protected, RowCopy, Going
  <2> QED BY <1>0, <1>4, <1>6, <2>1 DEF KeyInv
<1>d. JobCopyInv'
  <2> SUFFICES ASSUME NEW o \in Ops, adm[o] # "none"
      PROVE \/ JobCopy(o) \in CleanupKeys'
            \/ age[o] = 2 /\ o \notin active
    BY <1>0, <1>6 DEF JobCopyInv
  <2>1. CASE JobCopy(o) = i.key
    <3>1. i.key.kind = "job" /\ i.key.op = o
      BY <2>1 DEF JobCopy
    <3>2. o \notin active
      BY <1>0, <3>1 DEF Protected, JobInv, JobParts, Going
    <3> QED BY <1>0, <1>5, <2>1, <3>1, <3>2
  <2>2. CASE JobCopy(o) # i.key
    BY <1>4, <1>6, <2>2 DEF JobCopyInv
  <2> QED BY <2>1, <2>2
<1>e. RunInv'
  BY <1>0 DEF RunInv, AtRow
<1>f. RowsHaveBytes'
  <2>1. \A o \in Ops : \A r \in 1..Rows : RowCopy(o, deliv[o][r].msg) # i.key
    BY <1>0 DEF Delivered, RowCopy
  <2> QED BY <1>0, <1>6, <2>1 DEF RowsHaveBytes
<1>g. JobsHaveBytes'
  <2>1. \A o \in Ops : job[o].status \in Going => JobCopy(o) # i.key
    BY <1>0 DEF Protected, JobCopy, Going
  <2> QED BY <1>0, <1>6, <2>1 DEF JobsHaveBytes, Going
<1>h. TrackInv'
  BY <1>0, <1>4, <1>5, <1>6, <1>7 DEF TrackInv, Delivered
<1> QED BY <1>a, <1>b, <1>c, <1>d, <1>e, <1>f, <1>g, <1>h

\* The sequence t is q without its n-th element.
Drops(q, n, t) ==
  /\ Len(t) = Len(q) - 1
  /\ \A i \in 1..Len(t) : t[i] = IF i < n THEN q[i] ELSE q[i + 1]

\* What is around an element of a sequence is the sequence without it.
LEMMA Dropping ==
  ASSUME NEW S, NEW q \in Seq(S), NEW n \in 1..Len(q)
  PROVE  /\ SubSeq(q, 1, n - 1) \o SubSeq(q, n + 1, Len(q)) \in Seq(S)
         /\ Drops(q, n, SubSeq(q, 1, n - 1) \o SubSeq(q, n + 1, Len(q)))
<1>1. PICK a : a = SubSeq(q, 1, n - 1)
  OBVIOUS
<1>2. PICK b : b = SubSeq(q, n + 1, Len(q))
  OBVIOUS
<1>3. a \in Seq(S) /\ Len(a) = n - 1 /\ \A i \in 1..(n - 1) : a[i] = q[i]
  BY <1>1
<1>4. b \in Seq(S) /\ Len(b) = Len(q) - n /\ \A i \in 1..(Len(q) - n) : b[i] = q[n + i]
  BY <1>2
<1>5. a \o b \in Seq(S) /\ Len(a \o b) = Len(q) - 1
  <2>1. a \in Seq(S) /\ b \in Seq(S)
    BY <1>3, <1>4
  <2>2. a \o b \in Seq(S) /\ Len(a \o b) = Len(a) + Len(b)
    BY <2>1
  <2>3. Len(a) + Len(b) = Len(q) - 1
    BY <1>3, <1>4
  <2> QED BY <2>2, <2>3
<1>6. ASSUME NEW i \in 1..(Len(q) - 1)
      PROVE  (a \o b)[i] = IF i < n THEN q[i] ELSE q[i + 1]
  <2>1. CASE i < n
    BY <1>3, <1>4, <2>1
  <2>2. CASE ~(i < n)
    <3>1. (a \o b)[i] = b[i - (n - 1)] /\ i - (n - 1) \in 1..(Len(q) - n)
      BY <1>3, <1>4, <2>2
    <3>2. b[i - (n - 1)] = q[n + (i - (n - 1))] /\ n + (i - (n - 1)) = i + 1
      BY <1>4, <3>1
    <3> QED BY <2>2, <3>1, <3>2
  <2> QED BY <2>1, <2>2
<1> QED BY <1>1, <1>2, <1>5, <1>6 DEF Drops

\* A sequence without an element has no copy of it and nothing new.
LEMMA Dropped ==
  ASSUME NEW S, NEW q \in Seq(S), Distinct(q), NEW n \in 1..Len(q), NEW t \in Seq(S), Drops(q, n, t)
  PROVE  /\ \A i \in 1..Len(t) : t[i] # q[n] /\ \E k \in 1..Len(q) : t[i] = q[k]
         /\ Distinct(t)
<1> DEFINE At(i) == IF i < n THEN i ELSE i + 1
<1>1. \A i \in 1..Len(t) : At(i) \in 1..Len(q) /\ At(i) # n /\ t[i] = q[At(i)]
  BY DEF Drops
<1>2. \A i, j \in 1..Len(t) : At(i) = At(j) => i = j
  OBVIOUS
<1> HIDE DEF At
<1>3. ASSUME NEW i \in 1..Len(t) PROVE t[i] # q[n] /\ \E k \in 1..Len(q) : t[i] = q[k]
  <2>1. At(i) \in 1..Len(q) /\ At(i) # n /\ t[i] = q[At(i)]
    BY <1>1
  <2>2. q[At(i)] # q[n]
    BY <2>1 DEF Distinct
  <2> QED BY <2>1, <2>2
<1>4. ASSUME NEW i \in 1..Len(t), NEW j \in 1..Len(t), t[i] = t[j] PROVE i = j
  <2>1. At(i) \in 1..Len(q) /\ At(j) \in 1..Len(q) /\ q[At(i)] = q[At(j)]
    BY <1>1, <1>4
  <2>2. At(i) = At(j)
    BY <2>1 DEF Distinct
  <2> QED BY <1>2, <2>2
<1> QED BY <1>3, <1>4 DEF Distinct

\* RemoveFirst takes the element out of a queue that has it once.
LEMMA Removal ==
  ASSUME NEW S, NEW q \in Seq(S), Distinct(q), NEW e
  PROVE  /\ RemoveFirst(q, e) \in Seq(S) /\ Distinct(RemoveFirst(q, e))
         /\ \A i \in 1..Len(RemoveFirst(q, e)) :
              RemoveFirst(q, e)[i] # e /\ \E k \in 1..Len(q) : RemoveFirst(q, e)[i] = q[k]
<1>1. CASE \A i \in 1..Len(q) : q[i] # e
  <2>1. RemoveFirst(q, e) = q
    BY <1>1 DEF RemoveFirst
  <2> QED BY <1>1, <2>1
<1>2. CASE \E n \in 1..Len(q) : q[n] = e
  <2>1. PICK n \in 1..Len(q) : q[n] = e
    BY <1>2
  <2>2. {i \in 1..Len(q) : q[i] = e} = {n}
    BY <2>1 DEF Distinct
  <2>3. SelectInSeq(q, LAMBDA v : v = e) = n
    BY <2>2 DEF SelectInSeq, Min
  <2>4. PICK t : t = SubSeq(q, 1, n - 1) \o SubSeq(q, n + 1, Len(q))
    OBVIOUS
  <2>5. RemoveFirst(q, e) = t
    BY <2>1, <2>3, <2>4 DEF RemoveFirst, RemoveAt
  <2>6. t \in Seq(S) /\ Drops(q, n, t)
    BY <2>4, Dropping
  <2>7. /\ \A i \in 1..Len(t) : t[i] # q[n] /\ \E k \in 1..Len(q) : t[i] = q[k]
        /\ Distinct(t)
    BY <2>6, Dropped
  <2> QED BY <2>1, <2>5, <2>6, <2>7
<1> QED BY <1>1, <1>2

\* A job that ends leaves the queue, and its copy is due.
LEMMA EndingJob ==
  ASSUME BulkAssumption, BulkInv, NEW o \in Ops, job[o].status \in Going, NEW j \in BulkJobs,
         j.status \in {"done", "cancelled"}, j.total = job[o].total,
         job[o].cursor <= j.cursor, j.cursor <= j.total, j.enqueued + j.failed = j.cursor,
         EndJob(o, j), run' = [pc |-> "idle", op |-> {}, cleanup |-> {}],
         UNCHANGED <<resv, adm, age, messages, deliv, objs, slow, stray, members, fails>>
  PROVE  BulkInv'
<1> USE DEF BulkInv
<1>0. /\ job' = [job EXCEPT ![o] = j] /\ queue' = RemoveFirst(queue, o)
      /\ active' = active \ {o} /\ prep' = [prep EXCEPT ![o] = 0]
      /\ JobParts(o)
      /\ Distinct(queue)
      /\ queue \in Seq(Ops)
  BY DEF EndJob, JobInv, QueueInv, BulkTypeOK
<1>a. job'[o] = j /\ \A p \in Ops \ {o} : job'[p] = job[p]
  BY <1>0 DEF BulkTypeOK
<1>b. prep'[o] = 0 /\ \A p \in Ops \ {o} : prep'[p] = prep[p]
  BY <1>0 DEF BulkTypeOK
<1>c. /\ CleanupKeys' = CleanupKeys /\ cleanups' \subseteq [key : CopyKeys, due : BOOLEAN]
  <2>1. cleanups' = MarkedDue(cleanups, {JobCopy(o), RowCopy(o, prep[o])})
    BY DEF EndJob
  <2> QED BY <2>1, MarkingKeeps DEF CleanupKeys
<1>d. /\ queue' \in Seq(Ops)
      /\ \A i \in 1..Len(queue') : queue'[i] # o /\ \E k \in 1..Len(queue) : queue'[i] = queue[k]
      /\ Distinct(queue')
  <2>1. /\ RemoveFirst(queue, o) \in Seq(Ops)
        /\ \A i \in 1..Len(RemoveFirst(queue, o)) :
             RemoveFirst(queue, o)[i] # o
             /\ \E k \in 1..Len(queue) : RemoveFirst(queue, o)[i] = queue[k]
        /\ Distinct(RemoveFirst(queue, o))
    <3> HIDE DEF BulkInv
    <3> QED BY <1>0, Removal
  <2> QED BY <1>0, <2>1
<1>1. BulkTypeOK'
  <2>1. job' \in [Ops -> BulkJobs] /\ prep' \in [Ops -> Nat]
    BY <1>0 DEF BulkTypeOK
  <2> QED BY <1>0, <1>c, <1>d, <2>1 DEF BulkTypeOK
<1>2. JobInv'
  <2>1. JobParts(o)'
    BY <1>0, <1>a, <1>b DEF JobParts, Going, BulkTypeOK
  <2> QED BY <1>0, <1>a, <1>b, <2>1, JobStep
<1>3. QueueInv'
  <2>1. \A i \in 1..Len(queue') : queue'[i] \in Ops
    BY <1>d
  <2> QED BY <1>a, <1>d, <2>1 DEF QueueInv
<1>4. DelivInv'
  <2>1. job[o].cursor \in Nat /\ j.cursor \in Nat
    BY DEF BulkTypeOK, BulkJobs
  <2>2. ASSUME NEW p \in Ops, NEW r \in 1..Rows
        PROVE  IF deliv'[p][r].state = "none" THEN deliv'[p][r].msg = 0
               ELSE /\ r <= job'[p].cursor + 1 /\ deliv'[p][r].msg \in 1..messages'[p]
                    /\ deliv'[p][r].msg # prep'[p]
    <3>1. messages[p] \in Nat
      BY DEF BulkTypeOK
    <3>2. CASE p = o
      BY <1>a, <1>b, <2>1, <3>1, <3>2 DEF DelivInv
    <3>3. CASE p # o
      BY <1>a, <1>b, <3>3 DEF DelivInv
    <3> QED BY <3>2, <3>3
  <2>3. ASSUME NEW p \in Ops, prep'[p] # 0 PROVE ~InLedger(p)'
    <3>1. p # o
      BY <1>b, <2>3
    <3> QED BY <1>a, <1>b, <2>3, <3>1 DEF DelivInv, InLedger, Row
  <2> QED BY <2>2, <2>3 DEF DelivInv
<1>5. KeyInv'
  BY <1>b, <1>c DEF KeyInv
<1>6. JobCopyInv'
  BY <1>0, <1>c DEF JobCopyInv
<1>7. RunInv'
  BY DEF RunInv, AtRow
<1>8. RowsHaveBytes' /\ JobsHaveBytes'
  BY <1>a DEF RowsHaveBytes, JobsHaveBytes
<1>9. TrackInv'
  BY <1>c DEF TrackInv, Delivered
<1> QED BY <1>1, <1>2, <1>3, <1>4, <1>5, <1>6, <1>7, <1>8, <1>9

\* A pass takes up the first job of the queue, or cancels it when its sender is gone.
LEMMA InvTakeHead ==
  ASSUME BulkAssumption, BulkInv, TakeHead
  PROVE  BulkInv'
<1>0. /\ run.pc = "head"
      /\ UNCHANGED <<resv, adm, age, messages, deliv, objs, slow, stray, members, fails>>
  BY DEF TakeHead
<1>1. ASSUME UNCHANGED <<job, queue, active, cleanups, prep>>,
             NEW taken \in SUBSET Ops, NEW pc \in {"idle", "row"},
             run' = [pc |-> pc, op |-> taken, cleanup |-> {}],
             taken = {} \/ \E o \in Ops : taken = {o} /\ job[o].status \in Going /\ pc = "row"
      PROVE  BulkInv'
  <2> USE DEF BulkInv
  <2>1. BulkTypeOK'
    BY <1>0, <1>1 DEF BulkTypeOK
  <2>2. JobInv' /\ QueueInv' /\ DelivInv' /\ KeyInv' /\ JobCopyInv'
    BY <1>0, <1>1, JobKept DEF QueueInv, DelivInv, InLedger, Row, KeyInv, CleanupKeys, JobCopyInv
  <2>3. RunInv'
    BY <1>0, <1>1 DEF RunInv, AtRow
  <2>4. RowsHaveBytes' /\ JobsHaveBytes' /\ TrackInv'
    BY <1>0, <1>1 DEF RowsHaveBytes, JobsHaveBytes, TrackInv, Delivered, CleanupKeys
  <2> QED BY <2>1, <2>2, <2>3, <2>4
<1>2. CASE queue = <<>>
  BY <1>1, <1>2 DEF TakeHead, Step, Idle
<1>3. CASE queue # <<>>
  <2>1. PICK o : o = Head(queue)
    OBVIOUS
  <2>2. o \in Ops /\ job[o].status \in Going
    <3>1. queue \in Seq(Ops) /\ 1 \in 1..Len(queue) /\ o = queue[1]
      BY <1>3, <2>1 DEF BulkInv, BulkTypeOK
    <3> QED BY <3>1 DEF BulkInv, QueueInv
  <2>3. CASE o \in members
    <3>1. /\ UNCHANGED <<job, queue, active, cleanups, prep>>
          /\ run' = [pc |-> "row", op |-> {o}, cleanup |-> {}]
      BY <1>3, <2>1, <2>3 DEF TakeHead, Step, Idle
    <3> QED BY <1>1, <2>2, <3>1
  <2>4. CASE o \notin members
    <3>1. PICK j : j = [job[o] EXCEPT !.status = "cancelled"]
      OBVIOUS
    <3>2. EndJob(o, j) /\ run' = [pc |-> "idle", op |-> {}, cleanup |-> {}]
      BY <1>3, <2>1, <2>4, <3>1 DEF TakeHead, Step, Idle
    <3>3. job[o] \in BulkJobs /\ JobParts(o)
      BY <2>2 DEF BulkInv, BulkTypeOK, JobInv
    <3>4. /\ j \in BulkJobs /\ j.status = "cancelled" /\ j.total = job[o].total
          /\ j.cursor = job[o].cursor /\ j.enqueued = job[o].enqueued /\ j.failed = job[o].failed
      BY <3>1, <3>3 DEF BulkJobs, Ended
    <3>5. job[o].cursor <= j.cursor /\ j.cursor <= j.total /\ j.enqueued + j.failed = j.cursor
      BY <3>3, <3>4 DEF JobParts, BulkJobs
    <3> QED BY <1>0, <2>2, <3>2, <3>4, <3>5, EndingJob
  <2> QED BY <2>3, <2>4
<1> QED BY <1>2, <1>3

\* A row gets a message and an intent, unless the ledger has it.
LEMMA InvPrepareRow ==
  ASSUME BulkAssumption, BulkInv, NEW o \in Ops, PrepareRow(o)
  PROVE  BulkInv'
<1> USE DEF BulkInv
<1>0. /\ run.pc = "row" /\ o \in run.op /\ job[o].status \in Going
      /\ UNCHANGED <<resv, adm, job, queue, active, age, deliv, objs, slow, stray, members, fails>>
      /\ JobParts(o) /\ messages[o] \in Nat
  BY DEF PrepareRow, RunInv, AtRow, JobInv, BulkTypeOK
<1>1. ASSUME UNCHANGED <<prep, messages, cleanups>>, NEW pc \in {"queued", "copy"},
             run' = [pc |-> pc, op |-> {o}, cleanup |-> {}],
             pc = "queued" => InLedger(o) /\ prep[o] = 0,
             pc = "copy" => prep[o] # 0
      PROVE  BulkInv'
  <2>1. BulkTypeOK'
    BY <1>0, <1>1 DEF BulkTypeOK
  <2>2. JobInv' /\ QueueInv' /\ DelivInv' /\ KeyInv' /\ JobCopyInv'
    BY <1>0, <1>1, JobKept DEF QueueInv, DelivInv, InLedger, Row, KeyInv, CleanupKeys, JobCopyInv
  <2>3. RunInv'
    BY <1>0, <1>1 DEF RunInv, AtRow, InLedger, Row
  <2>4. RowsHaveBytes' /\ JobsHaveBytes' /\ TrackInv'
    BY <1>0, <1>1 DEF RowsHaveBytes, JobsHaveBytes, TrackInv, Delivered, CleanupKeys
  <2> QED BY <2>1, <2>2, <2>3, <2>4
<1>2. CASE InLedger(o)
  <2>1. prep[o] = 0
    BY <1>2 DEF DelivInv
  <2>2. UNCHANGED <<prep, messages, cleanups>> /\ run' = [pc |-> "queued", op |-> {o}, cleanup |-> {}]
    BY <1>2 DEF PrepareRow, Known, Step, Idle
  <2> QED BY <1>1, <1>2, <2>1, <2>2
<1>3. CASE ~InLedger(o) /\ prep[o] # 0
  <2>2. UNCHANGED <<prep, messages, cleanups>> /\ run' = [pc |-> "copy", op |-> {o}, cleanup |-> {}]
    BY <1>3 DEF PrepareRow, Step, Idle
  <2> QED BY <1>1, <1>3, <2>2
<1>4. CASE ~InLedger(o) /\ prep[o] = 0
  <2>0. PICK n \in Nat : n = messages[o] + 1
    BY <1>0
  <2>1. /\ prep' = [prep EXCEPT ![o] = n] /\ messages' = [messages EXCEPT ![o] = n]
        /\ cleanups' = cleanups \cup {Intent(RowCopy(o, n), FALSE)}
        /\ run' = [pc |-> "copy", op |-> {o}, cleanup |-> {}]
    BY <1>4, <2>0 DEF PrepareRow, Step, Idle
  <2>a. /\ prep'[o] = n /\ messages'[o] = n
        /\ \A p \in Ops \ {o} : prep'[p] = prep[p] /\ messages'[p] = messages[p]
    BY <2>1 DEF BulkTypeOK
  <2>b. /\ RowCopy(o, n) \in CopyKeys /\ RowCopy(o, n).kind = "row"
        /\ RowCopy(o, n).msg = n /\ RowCopy(o, n).op = o
    BY DEF RowCopy, CopyKeys
  <2>c. /\ CleanupKeys' = CleanupKeys \cup {RowCopy(o, n)}
        /\ cleanups' \subseteq [key : CopyKeys, due : BOOLEAN]
    <3>1. Intent(RowCopy(o, n), FALSE).key = RowCopy(o, n)
      BY DEF Intent
    <3>2. CleanupKeys' = CleanupKeys \cup {RowCopy(o, n)}
      BY <2>1, <3>1 DEF CleanupKeys
    <3>3. Intent(RowCopy(o, n), FALSE) \in [key : CopyKeys, due : BOOLEAN]
      BY <2>b DEF Intent
    <3> QED BY <2>1, <3>2, <3>3 DEF BulkTypeOK
  <2>d. \A p \in Ops : messages[p] \in Nat /\ messages'[p] \in Nat /\ messages[p] <= messages'[p]
    <3> SUFFICES ASSUME NEW p \in Ops
        PROVE  messages[p] \in Nat /\ messages'[p] \in Nat /\ messages[p] <= messages'[p]
      OBVIOUS
    <3>1. messages[p] \in Nat
      BY DEF BulkTypeOK
    <3> QED BY <1>0, <2>0, <2>a, <3>1
  <2>2. BulkTypeOK'
    <3>1. prep' \in [Ops -> Nat] /\ messages' \in [Ops -> Nat]
      BY <2>1 DEF BulkTypeOK
    <3> QED BY <1>0, <2>1, <2>c, <3>1 DEF BulkTypeOK
  <2>3. JobInv'
    <3>1. JobParts(o)'
      BY <1>0, <2>a DEF JobParts, Going
    <3> QED BY <1>0, <2>a, <3>1, JobStep
  <2>4. QueueInv'
    BY <1>0, QueueKept
  <2>5. DelivInv'
    <3>1. ASSUME NEW p \in Ops, NEW r \in 1..Rows
          PROVE  IF deliv'[p][r].state = "none" THEN deliv'[p][r].msg = 0
                 ELSE /\ r <= job'[p].cursor + 1 /\ deliv'[p][r].msg \in 1..messages'[p]
                      /\ deliv'[p][r].msg # prep'[p]
      <4>1. CASE p = o
        BY <1>0, <2>0, <2>a, <4>1 DEF DelivInv
      <4>2. CASE p # o
        BY <1>0, <2>a, <4>2 DEF DelivInv
      <4> QED BY <4>1, <4>2
    <3>2. ASSUME NEW p \in Ops, prep'[p] # 0 PROVE ~InLedger(p)'
      BY <1>0, <1>4, <2>a, <3>2 DEF DelivInv, InLedger, Row
    <3> QED BY <3>1, <3>2 DEF DelivInv
  <2>6. KeyInv'
    <3>1. ASSUME NEW k \in CleanupKeys'
          PROVE  /\ adm'[k.op] # "none"
                 /\ IF k.kind = "row" THEN k.msg \in 1..messages'[k.op] ELSE k.msg = 0
      <4>1. CASE k = RowCopy(o, n)
        <5>1. n \in 1..n
          BY <1>0, <2>0
        <5> QED BY <1>0, <2>a, <2>b, <4>1, <5>1 DEF JobParts, Going
      <4>2. CASE k \in CleanupKeys
        <5>1. k.op \in Ops
          BY <4>2, KeysTyped DEF CopyKeys
        <5> QED BY <1>0, <2>d, <4>2, <5>1 DEF KeyInv
      <4> QED BY <2>c, <4>1, <4>2
    <3>2. \A p \in Ops : prep'[p] # 0 => RowCopy(p, prep'[p]) \in CleanupKeys'
      BY <2>a, <2>c DEF KeyInv
    <3> QED BY <1>0, <3>1, <3>2 DEF KeyInv
  <2>7. JobCopyInv'
    BY <1>0, <2>1, <2>c DEF JobCopyInv
  <2>8. RunInv'
    <3>1. n # 0
      BY <1>0, <2>0
    <3> QED BY <1>0, <2>1, <2>a, <3>1 DEF RunInv, AtRow
  <2>9. RowsHaveBytes' /\ JobsHaveBytes' /\ TrackInv'
    BY <1>0, <2>c DEF RowsHaveBytes, JobsHaveBytes, TrackInv, Delivered
  <2> QED BY <2>2, <2>3, <2>4, <2>5, <2>6, <2>7, <2>8, <2>9
<1> QED BY <1>2, <1>3, <1>4

\* The attachments are copied for a row.
LEMMA InvCopyForRow ==
  ASSUME BulkInv, NEW o \in Ops, CopyForRow(o)
  PROVE  BulkInv'
<1> USE DEF BulkInv
<1>0. /\ run.pc = "copy" /\ o \in run.op /\ prep[o] # 0 /\ job[o].status \in Going
      /\ ~InLedger(o)
      /\ UNCHANGED <<resv, adm, job, queue, active, age, prep, messages, deliv, cleanups, slow, stray,
                     members, fails>>
  BY DEF CopyForRow, RunInv, AtRow, DelivInv
<1>1. /\ run' \in {[pc |-> "enqueue", op |-> {o}, cleanup |-> {}],
                   [pc |-> "refused", op |-> {o}, cleanup |-> {}]}
      /\ \/ objs' = objs /\ run'.pc = "refused"
         \/ objs' = objs \cup {RowCopy(o, prep[o])} /\ run'.pc = "enqueue"
  BY DEF CopyForRow, Copies, Step, Idle
<1>2. /\ RowCopy(o, prep[o]) \in CleanupKeys /\ RowCopy(o, prep[o]) \in CopyKeys
      /\ RowCopy(o, prep[o]).kind = "row" /\ RowCopy(o, prep[o]).msg # 0
  <2>1. prep[o] \in Nat
    BY DEF BulkTypeOK
  <2> QED BY <1>0, <2>1 DEF KeyInv, RowCopy, CopyKeys
<1>a. BulkTypeOK'
  BY <1>0, <1>1, <1>2 DEF BulkTypeOK
<1>b. JobInv' /\ QueueInv' /\ DelivInv'
  BY <1>0, JobKept DEF QueueInv, DelivInv, InLedger, Row
<1>c. KeyInv'
  BY <1>0, <1>1, <1>2 DEF KeyInv, CleanupKeys
<1>d. JobCopyInv'
  <2>1. \A p \in Ops : JobCopy(p) # RowCopy(o, prep[o])
    BY DEF JobCopy, RowCopy
  <2> QED BY <1>0, <1>1, <2>1 DEF JobCopyInv, CleanupKeys
<1>e. RunInv'
  BY <1>0, <1>1 DEF RunInv, AtRow, InLedger, Row
<1>f. RowsHaveBytes' /\ JobsHaveBytes'
  BY <1>0, <1>1 DEF RowsHaveBytes, JobsHaveBytes
<1>g. TrackInv'
  BY <1>0, <1>1, <1>2 DEF TrackInv, Delivered, CleanupKeys
<1> QED BY <1>a, <1>b, <1>c, <1>d, <1>e, <1>f, <1>g

\* A row enters the ledger, or is refused.
LEMMA InvEnqueueRow ==
  ASSUME BulkAssumption, BulkInv, NEW o \in Ops, EnqueueRow(o)
  PROVE  BulkInv'
<1> USE DEF BulkInv
<1>0. /\ run.pc = "enqueue" /\ o \in run.op /\ prep[o] # 0 /\ job[o].status \in Going
      /\ ~InLedger(o) /\ RowCopy(o, prep[o]) \in objs
      /\ UNCHANGED <<resv, adm, job, queue, active, age, messages, objs, slow, stray, members, fails>>
      /\ JobParts(o) /\ job[o] \in BulkJobs /\ prep[o] \in Nat /\ messages[o] \in Nat
  BY DEF EnqueueRow, RunInv, AtRow, DelivInv, JobInv, BulkTypeOK
<1>r. Row(o) \in 1..Rows /\ job[o].cursor \in Nat
  BY <1>0, BulkAssumption DEF Row, JobParts, BulkJobs
<1>1. CASE UNCHANGED <<deliv, cleanups, prep>> /\ run' = [pc |-> "refused", op |-> {o}, cleanup |-> {}]
  <2>1. BulkTypeOK'
    BY <1>0, <1>1 DEF BulkTypeOK
  <2>2. JobInv' /\ QueueInv' /\ DelivInv' /\ KeyInv' /\ JobCopyInv'
    BY <1>0, <1>1, JobKept DEF QueueInv, DelivInv, InLedger, Row, KeyInv, CleanupKeys, JobCopyInv
  <2>3. RunInv'
    BY <1>0, <1>1 DEF RunInv, AtRow, InLedger, Row
  <2>4. RowsHaveBytes' /\ JobsHaveBytes' /\ TrackInv'
    BY <1>0, <1>1 DEF RowsHaveBytes, JobsHaveBytes, TrackInv, Delivered, CleanupKeys
  <2> QED BY <2>1, <2>2, <2>3, <2>4
<1>2. ASSUME deliv' = [deliv EXCEPT ![o][Row(o)] = [state |-> "open", msg |-> prep[o]]],
             cleanups' = {i \in cleanups : i.key # RowCopy(o, prep[o])},
             prep' = [prep EXCEPT ![o] = 0],
             run' = [pc |-> "queued", op |-> {o}, cleanup |-> {}]
      PROVE  BulkInv'
  <2>0. PICK d : d = [state |-> "open", msg |-> prep[o]]
    OBVIOUS
  <2>a. /\ deliv'[o][Row(o)] = d
        /\ \A p \in Ops : \A r \in 1..Rows : p # o \/ r # Row(o) => deliv'[p][r] = deliv[p][r]
        /\ \A p \in Ops \ {o} : deliv'[p] = deliv[p]
    <3>1. \A p \in Ops : deliv[p] \in [1..Rows -> BulkDeliveries]
      BY DEF BulkTypeOK
    <3>2. deliv \in [Ops -> [1..Rows -> BulkDeliveries]]
      BY DEF BulkTypeOK
    <3> HIDE DEF BulkInv
    <3> QED BY <1>2, <1>r, <2>0, <3>1, <3>2
  <2>b. d \in BulkDeliveries /\ d.state = "open" /\ d.msg = prep[o]
    BY <1>0, <2>0 DEF BulkDeliveries
  <2>c. prep'[o] = 0 /\ \A p \in Ops \ {o} : prep'[p] = prep[p]
    BY <1>2 DEF BulkTypeOK
  <2>d. /\ CleanupKeys' \subseteq CleanupKeys
        /\ CleanupKeys \ {RowCopy(o, prep[o])} \subseteq CleanupKeys'
    BY <1>2 DEF CleanupKeys
  <2>e. deliv[o][Row(o)].state = "none" /\ deliv[o][Row(o)].msg = 0
    BY <1>0, <1>r DEF InLedger, DelivInv
  <2>1. BulkTypeOK'
    <3>1. deliv' \in [Ops -> [1..Rows -> BulkDeliveries]]
      <4>1. deliv[o] \in [1..Rows -> BulkDeliveries] /\ deliv \in [Ops -> [1..Rows -> BulkDeliveries]]
        BY DEF BulkTypeOK
      <4>2. [deliv[o] EXCEPT ![Row(o)] = d] \in [1..Rows -> BulkDeliveries]
        BY <2>b, <4>1
      <4>3. deliv' = [deliv EXCEPT ![o] = [deliv[o] EXCEPT ![Row(o)] = d]]
        BY <1>2, <2>0
      <4> HIDE DEF BulkInv
      <4> QED BY <4>1, <4>2, <4>3
    <3>2. prep' \in [Ops -> Nat]
      BY <1>2 DEF BulkTypeOK
    <3>3. cleanups' \subseteq [key : CopyKeys, due : BOOLEAN]
      BY <1>2 DEF BulkTypeOK
    <3> QED BY <1>0, <1>2, <3>1, <3>2, <3>3 DEF BulkTypeOK
  <2>2. JobInv'
    <3>1. JobParts(o)'
      BY <1>0, <2>c DEF JobParts, Going
    <3> QED BY <1>0, <2>a, <2>c, <3>1, JobStep
  <2>3. QueueInv'
    BY <1>0, QueueKept
  <2>4. DelivInv'
    <3>1. ASSUME NEW p \in Ops, NEW r \in 1..Rows
          PROVE  IF deliv'[p][r].state = "none" THEN deliv'[p][r].msg = 0
                 ELSE /\ r <= job'[p].cursor + 1 /\ deliv'[p][r].msg \in 1..messages'[p]
                      /\ deliv'[p][r].msg # prep'[p]
      <4>1. CASE p = o /\ r = Row(o)
        <5>1. prep[o] \in 1..messages[o]
          BY <1>0 DEF JobParts
        <5>2. r <= job[o].cursor + 1
          BY <1>r, <4>1 DEF Row
        <5> QED BY <1>0, <2>a, <2>b, <2>c, <4>1, <5>1, <5>2
      <4>2. CASE p = o /\ r # Row(o)
        <5>1. deliv'[p][r] = deliv[p][r] /\ prep'[p] = 0 /\ job' = job /\ messages' = messages
          BY <1>0, <2>a, <2>c, <4>2
        <5>2. \A n \in 1..messages[p] : n # 0
          BY <1>0
        <5> QED BY <5>1, <5>2 DEF DelivInv
      <4>3. CASE p # o
        <5>1. /\ deliv'[p][r] = deliv[p][r] /\ prep'[p] = prep[p] /\ job' = job
              /\ messages' = messages
          BY <1>0, <2>a, <2>c, <4>3
        <5> QED BY <5>1 DEF DelivInv
      <4> QED BY <4>1, <4>2, <4>3
    <3>2. ASSUME NEW p \in Ops, prep'[p] # 0 PROVE ~InLedger(p)'
      <4>1. p # o /\ deliv'[p] = deliv[p] /\ prep'[p] = prep[p] /\ job' = job
        BY <1>0, <2>a, <2>c, <3>2
      <4> QED BY <3>2, <4>1 DEF DelivInv, InLedger, Row
    <3> QED BY <3>1, <3>2 DEF DelivInv
  <2>5. KeyInv'
    <3>1. ASSUME NEW p \in Ops, prep'[p] # 0 PROVE RowCopy(p, prep'[p]) \in CleanupKeys'
      <4>1. p # o /\ prep'[p] = prep[p] /\ RowCopy(p, prep[p]) # RowCopy(o, prep[o])
        BY <2>c, <3>1 DEF RowCopy
      <4> QED BY <2>d, <3>1, <4>1 DEF KeyInv
    <3> QED BY <1>0, <2>d, <3>1 DEF KeyInv
  <2>6. JobCopyInv'
    <3>1. \A p \in Ops : JobCopy(p) # RowCopy(o, prep[o])
      BY DEF JobCopy, RowCopy
    <3> QED BY <1>0, <1>2, <2>d, <3>1 DEF JobCopyInv
  <2>7. RunInv'
    <3>1. InLedger(o)'
      BY <1>0, <1>r, <2>a, <2>b DEF InLedger, Row
    <3> QED BY <1>0, <1>2, <2>c, <3>1 DEF RunInv, AtRow
  <2>8. RowsHaveBytes'
    <3>1. \A p \in Ops : \A r \in 1..Rows : deliv'[p][r] = deliv[p][r] \/ (p = o /\ deliv'[p][r] = d)
      BY <2>a
    <3> QED BY <1>0, <2>b, <3>1 DEF RowsHaveBytes
  <2>9. JobsHaveBytes'
    BY <1>0 DEF JobsHaveBytes
  <2>10. TrackInv'
    <3> SUFFICES ASSUME NEW k \in objs, k.kind # "upload" PROVE Delivered(k)' \/ k \in CleanupKeys' \/ k \in stray'
      BY <1>0 DEF TrackInv
    <3>1. k \in CopyKeys
      BY DEF BulkTypeOK
    <3>2. CASE k = RowCopy(o, prep[o])
      <4>1. k.kind = "row" /\ k.op = o /\ k.msg = prep[o]
        BY <3>2 DEF RowCopy
      <4> QED BY <1>r, <2>a, <2>b, <4>1 DEF Delivered
    <3>3. CASE k # RowCopy(o, prep[o]) /\ k \in CleanupKeys
      BY <2>d, <3>3
    <3>4. CASE Delivered(k)
      <4>1. k.kind = "row" /\ k.msg # 0 /\ k.op \in Ops
        BY <3>1, <3>4 DEF Delivered, KeyInv, CopyKeys
      <4>2. PICK r \in 1..Rows : deliv[k.op][r].msg = k.msg
        BY <3>4 DEF Delivered
      <4>3. k.op # o \/ r # Row(o)
        BY <2>e, <4>1, <4>2
      <4> QED BY <2>a, <4>1, <4>2, <4>3 DEF Delivered
    <3>5. CASE k \in stray
      BY <1>0, <3>5
    <3> QED BY <3>2, <3>3, <3>4, <3>5 DEF TrackInv
  <2> QED BY <2>1, <2>2, <2>3, <2>4, <2>5, <2>6, <2>7, <2>8, <2>9, <2>10
<1> QED BY <1>1, <1>2 DEF EnqueueRow, Step, Idle

\* A refused row gives up its copy.
LEMMA InvRefuse ==
  ASSUME BulkInv, NEW o \in Ops, Refuse(o)
  PROVE  BulkInv'
<1> USE DEF BulkInv
<1>0. /\ run.pc = "refused" /\ o \in run.op /\ run.cleanup = {}
      /\ prep' = [prep EXCEPT ![o] = 0]
      /\ UNCHANGED <<resv, adm, job, queue, active, age, messages, deliv, objs, slow, stray, members, run,
                     fails>>
      /\ JobParts(o) /\ messages[o] \in Nat
  BY DEF Refuse, RunInv, JobInv, BulkTypeOK
<1>a. /\ CleanupKeys' = CleanupKeys /\ cleanups' \subseteq [key : CopyKeys, due : BOOLEAN]
  <2>1. cleanups' = MarkedDue(cleanups, {RowCopy(o, prep[o])})
    BY DEF Refuse
  <2> QED BY <2>1, MarkingKeeps DEF CleanupKeys
<1>b. prep'[o] = 0 /\ \A p \in Ops \ {o} : prep'[p] = prep[p]
  BY <1>0 DEF BulkTypeOK
<1>1. BulkTypeOK'
  <2>1. prep' \in [Ops -> Nat]
    BY <1>0 DEF BulkTypeOK
  <2> QED BY <1>0, <1>a, <2>1 DEF BulkTypeOK
<1>2. JobInv'
  <2>1. JobParts(o)'
    BY <1>0, <1>b DEF JobParts, Going
  <2> QED BY <1>0, <1>b, <2>1, JobStep
<1>3. QueueInv' /\ DelivInv'
  BY <1>0, <1>b, QueueKept, DelivKept
<1>4. KeyInv'
  BY <1>0, <1>a, <1>b DEF KeyInv
<1>5. JobCopyInv'
  BY <1>0, <1>a DEF JobCopyInv
<1>6. RunInv'
  BY <1>0, <1>b DEF RunInv, AtRow, InLedger, Row
<1>7. RowsHaveBytes' /\ JobsHaveBytes' /\ TrackInv'
  BY <1>0, <1>a DEF RowsHaveBytes, JobsHaveBytes, TrackInv, Delivered
<1> QED BY <1>1, <1>2, <1>3, <1>4, <1>5, <1>6, <1>7

\* The cursor moves past a row.
LEMMA InvAdvance ==
  ASSUME BulkAssumption, BulkInv, NEW o \in Ops, Advance(o)
  PROVE  BulkInv'
<1>0. /\ run.pc \in {"queued", "refused"} /\ o \in run.op /\ prep[o] = 0
      /\ job[o].status \in Going /\ run' = [pc |-> "idle", op |-> {}, cleanup |-> {}]
      /\ UNCHANGED <<resv, adm, age, messages, deliv, objs, slow, stray, members, fails>>
      /\ JobParts(o) /\ job[o] \in BulkJobs
  BY DEF Advance, BulkInv, RunInv, AtRow, Step, Idle, JobInv, BulkTypeOK
<1>1. PICK j : j = [job[o] EXCEPT !.cursor = @ + 1, !.status = "running",
                          !.enqueued = @ + (IF run.pc = "queued" THEN 1 ELSE 0),
                          !.failed = @ + (IF run.pc = "refused" THEN 1 ELSE 0)]
  OBVIOUS
<1>2. /\ j \in BulkJobs /\ j.status = "running" /\ j.total = job[o].total
      /\ j.cursor = job[o].cursor + 1 /\ j.cursor <= j.total
      /\ j.enqueued + j.failed = j.cursor
  <2>1. /\ job[o].cursor \in Nat /\ job[o].enqueued \in Nat /\ job[o].failed \in Nat
        /\ job[o].total \in 0..Rows /\ job[o].cursor < job[o].total
        /\ job[o].enqueued + job[o].failed = job[o].cursor
    BY <1>0 DEF BulkJobs, JobParts
  <2>2. /\ j.status = "running" /\ j.total = job[o].total /\ j.cursor = job[o].cursor + 1
        /\ j.enqueued = job[o].enqueued + (IF run.pc = "queued" THEN 1 ELSE 0)
        /\ j.failed = job[o].failed + (IF run.pc = "refused" THEN 1 ELSE 0)
    BY <1>0, <1>1 DEF BulkJobs
  <2>3. j.cursor <= j.total /\ j.enqueued + j.failed = j.cursor
    BY <1>0, <2>1, <2>2
  <2>4. j.cursor \in 0..Rows /\ j.enqueued \in 0..Rows /\ j.failed \in 0..Rows
    BY <2>1, <2>2, <2>3, BulkAssumption
  <2>5. j = [status |-> j.status, total |-> j.total, cursor |-> j.cursor,
             enqueued |-> j.enqueued, failed |-> j.failed]
    BY <1>0, <1>1 DEF BulkJobs
  <2> QED BY <2>1, <2>2, <2>3, <2>4, <2>5 DEF BulkJobs
<1>3. CASE j.cursor = j.total
  <2>1. PICK e : e = [j EXCEPT !.status = "done"]
    OBVIOUS
  <2>2. EndJob(o, e)
    BY <1>1, <1>3, <2>1 DEF Advance
  <2>3. /\ e \in BulkJobs /\ e.status = "done" /\ e.total = j.total /\ e.cursor = j.cursor
        /\ e.enqueued = j.enqueued /\ e.failed = j.failed
    BY <1>2, <2>1 DEF BulkJobs, Ended
  <2>4. job[o].cursor <= e.cursor
    BY <1>0, <1>2, <2>3 DEF BulkJobs
  <2> QED BY <1>0, <1>2, <2>2, <2>3, <2>4, EndingJob
<1>4. CASE j.cursor # j.total
  <2> USE DEF BulkInv
  <2>0. job' = [job EXCEPT ![o] = j] /\ UNCHANGED <<queue, active, cleanups, prep>>
    BY <1>1, <1>4 DEF Advance
  <2>a. job'[o] = j /\ \A p \in Ops \ {o} : job'[p] = job[p]
    BY <2>0 DEF BulkTypeOK
  <2>b. j.cursor < j.total /\ job[o].cursor \in Nat /\ j.cursor \in Nat
    BY <1>0, <1>2, <1>4 DEF BulkJobs
  <2>1. BulkTypeOK'
    <3>1. job' \in [Ops -> BulkJobs]
      BY <1>2, <2>0 DEF BulkTypeOK
    <3> QED BY <1>0, <2>0, <3>1 DEF BulkTypeOK
  <2>2. JobInv'
    <3>1. JobParts(o)'
      BY <1>0, <1>2, <2>0, <2>a, <2>b DEF JobParts, Going
    <3> QED BY <1>0, <2>0, <2>a, <3>1, JobStep
  <2>3. QueueInv'
    BY <1>2, <2>0, <2>a, QueueKept DEF Going
  <2>4. DelivInv'
    <3>1. ASSUME NEW p \in Ops, NEW r \in 1..Rows
          PROVE  IF deliv'[p][r].state = "none" THEN deliv'[p][r].msg = 0
                 ELSE /\ r <= job'[p].cursor + 1 /\ deliv'[p][r].msg \in 1..messages'[p]
                      /\ deliv'[p][r].msg # prep'[p]
      <4>1. CASE p = o
        BY <1>0, <1>2, <2>0, <2>a, <2>b, <4>1 DEF DelivInv
      <4>2. CASE p # o
        BY <1>0, <2>0, <2>a, <4>2 DEF DelivInv
      <4> QED BY <4>1, <4>2
    <3>2. ASSUME NEW p \in Ops, prep'[p] # 0 PROVE ~InLedger(p)'
      <4>1. p # o /\ job'[p] = job[p] /\ prep' = prep /\ deliv' = deliv
        BY <1>0, <2>0, <2>a, <3>2
      <4> QED BY <3>2, <4>1 DEF DelivInv, InLedger, Row
    <3> QED BY <3>1, <3>2 DEF DelivInv
  <2>5. KeyInv' /\ JobCopyInv'
    BY <1>0, <2>0 DEF KeyInv, JobCopyInv, CleanupKeys
  <2>6. RunInv'
    BY <1>0 DEF RunInv, AtRow
  <2>7. RowsHaveBytes'
    BY <1>0 DEF RowsHaveBytes
  <2>8. JobsHaveBytes'
    BY <1>0, <2>a DEF JobsHaveBytes, Going
  <2>9. TrackInv'
    BY <1>0, <2>0 DEF TrackInv, Delivered, CleanupKeys
  <2> QED BY <2>1, <2>2, <2>3, <2>4, <2>5, <2>6, <2>7, <2>8, <2>9
<1> QED BY <1>3, <1>4

\* A pass stops at any step; a put of its own may come late.
LEMMA InvPassStops ==
  ASSUME BulkAssumption, BulkInv, PassStops
  PROVE  BulkInv'
<1> USE DEF BulkInv
<1>0. /\ fails < MaxFails /\ fails' = fails + 1
      /\ run' = [pc |-> "idle", op |-> {}, cleanup |-> {}]
      /\ slow' \subseteq slow \cup PutsUnderWay
      /\ UNCHANGED <<resv, adm, job, queue, active, age, prep, messages, deliv, cleanups, objs,
                     stray, members>>
  <2>1. slow' \subseteq slow \cup PutsUnderWay
    BY DEF PassStops, CutOff
  <2> QED BY <2>1 DEF PassStops, Idle
<1>1. ASSUME NEW k \in PutsUnderWay
      PROVE  /\ k \in CopyKeys /\ (k.kind = "row" <=> k.msg # 0)
             /\ \A o \in Ops : k = JobCopy(o) => adm[o] # "none"
  <2>1. CASE run.pc = "prepare"
    <3>1. PICK o \in active : adm[o] = "preparing" /\ k = JobCopy(o)
      BY <1>1, <2>1 DEF PutsUnderWay
    <3>2. o \in Ops
      BY DEF BulkTypeOK
    <3> QED BY <3>1, <3>2 DEF JobCopy, CopyKeys
  <2>2. CASE run.pc = "copy"
    <3>1. PICK o \in run.op : k = RowCopy(o, prep[o])
      BY <1>1, <2>2 DEF PutsUnderWay
    <3>2. o \in Ops /\ prep[o] \in Nat /\ prep[o] # 0
      BY <2>2 DEF BulkTypeOK, RunInv
    <3> QED BY <3>1, <3>2 DEF RowCopy, JobCopy, CopyKeys
  <2> QED BY <1>1, <2>1, <2>2 DEF PutsUnderWay
<1>2. CleanupKeys' = CleanupKeys
  BY <1>0 DEF CleanupKeys
<1>a. BulkTypeOK'
  <2>1. fails' \in 0..MaxFails
    BY <1>0, BulkAssumption DEF BulkTypeOK
  <2> QED BY <1>0, <1>1, <2>1 DEF BulkTypeOK
<1>b. JobInv' /\ QueueInv' /\ DelivInv'
  BY <1>0, JobKept DEF QueueInv, DelivInv, InLedger, Row
<1>c. KeyInv'
  BY <1>0, <1>1, <1>2 DEF KeyInv
<1>d. JobCopyInv'
  BY <1>0, <1>1, <1>2 DEF JobCopyInv
<1>e. RunInv'
  BY <1>0 DEF RunInv, AtRow
<1>f. RowsHaveBytes' /\ JobsHaveBytes' /\ TrackInv'
  BY <1>0, <1>2 DEF RowsHaveBytes, JobsHaveBytes, TrackInv, Delivered
<1> QED BY <1>a, <1>b, <1>c, <1>d, <1>e, <1>f

\* A put that was cut off lands.  While its object is protected, or may still be
\* cleaned up a second time, an intent names it.
LEMMA InvSlowPut ==
  ASSUME BulkInv, NEW k \in slow, SlowPut(k)
  PROVE  BulkInv'
<1> USE DEF BulkInv
<1>0. /\ slow' = slow \ {k} /\ objs' = objs \cup {k}
      /\ stray \subseteq stray' /\ stray' \subseteq stray \cup {k}
      /\ InTime(k) \/ Named(k) \/ k \in stray'
      /\ UNCHANGED <<resv, adm, job, queue, active, age, prep, messages, deliv, cleanups, members,
                     run, fails>>
  BY DEF SlowPut
<1>1. k \in CopyKeys /\ k.op \in Ops /\ (k.kind = "row" <=> k.msg # 0)
  BY DEF KeyInv, BulkTypeOK, CopyKeys
<1>2. CleanupKeys' = CleanupKeys
  BY <1>0 DEF CleanupKeys
<1>3. k.kind # "upload" => Delivered(k) \/ k \in CleanupKeys \/ k \in stray'
  <2>1. CASE Named(k)
    BY <2>1 DEF Named, CleanupKeys
  <2>2. CASE k.kind = "job"
    <3>1. k = JobCopy(k.op)
      BY <1>1, <2>2 DEF CopyKeys, JobCopy
    <3>2. adm[k.op] # "none"
      BY <1>1, <3>1 DEF JobCopyInv
    <3>3. Protected(k) => k.op \in active
      BY <1>1, <2>2 DEF Protected, JobInv, JobParts, Going
    <3>4. InTime(k) => k \in CleanupKeys
      BY <1>1, <2>2, <3>1, <3>2, <3>3 DEF InTime, Delivered, JobCopyInv
    <3> QED BY <1>0, <2>1, <3>4
  <2>3. CASE k.kind = "row"
    <3>1. Protected(k) => k \in CleanupKeys
      <4> SUFFICES ASSUME Protected(k) PROVE k \in CleanupKeys
        OBVIOUS
      <4>1. prep[k.op] = k.msg /\ k.msg # 0
        BY <1>1, <2>3 DEF Protected
      <4>2. k = RowCopy(k.op, prep[k.op])
        BY <1>1, <2>3, <4>1 DEF CopyKeys, RowCopy
      <4> QED BY <1>1, <4>1, <4>2 DEF KeyInv
    <3> QED BY <1>0, <2>1, <2>3, <3>1 DEF InTime
  <2> QED BY <1>1, <2>2, <2>3 DEF CopyKeys
<1>a. BulkTypeOK'
  BY <1>0, <1>1 DEF BulkTypeOK
<1>b. JobInv' /\ QueueInv' /\ DelivInv' /\ KeyInv'
  BY <1>0, <1>1, <1>2, JobKept DEF QueueInv, DelivInv, InLedger, Row, KeyInv
<1>c. JobCopyInv'
  BY <1>0, <1>1, <1>2 DEF JobCopyInv
<1>d. RunInv'
  BY <1>0 DEF RunInv, InLedger, Row, Protected, Delivered
<1>e. RowsHaveBytes' /\ JobsHaveBytes'
  BY <1>0 DEF RowsHaveBytes, JobsHaveBytes
<1>f. TrackInv'
  BY <1>0, <1>2, <1>3 DEF TrackInv, Delivered
<1> QED BY <1>a, <1>b, <1>c, <1>d, <1>e, <1>f

\* Every step keeps the invariant.
LEMMA InvNext ==
  ASSUME BulkAssumption, BulkInv, [BulkNext]_bulkVars
  PROVE  BulkInv'
<1>1. CASE UNCHANGED bulkVars
  <2> USE <1>1 DEF bulkVars, BulkInv
  <2>1. BulkTypeOK'
    BY DEF BulkTypeOK
  <2>2. JobInv' /\ QueueInv' /\ DelivInv' /\ KeyInv' /\ JobCopyInv'
    BY JobKept DEF QueueInv, DelivInv, InLedger, Row, KeyInv, CleanupKeys, JobCopyInv
  <2>3. RunInv'
    BY DEF RunInv, InLedger, Row, Protected, Delivered
  <2>4. RowsHaveBytes' /\ JobsHaveBytes' /\ TrackInv'
    BY DEF RowsHaveBytes, JobsHaveBytes, TrackInv, Delivered, CleanupKeys
  <2> QED BY <2>1, <2>2, <2>3, <2>4
<1>2. CASE BulkNext
  <2> HIDE DEF BulkInv
  <2>1. CASE StartPass \/ NothingToPrepare \/ NothingToClean \/ TakeHead \/ PassStops
    BY <2>1, InvStartPass, InvNothing, InvTakeHead, InvPassStops
  <2>2. CASE \E i \in cleanups : ClaimCleanup(i) \/ DeleteCopy(i) \/ FallsDue(i)
    BY <2>2, InvClaimCleanup, InvDeleteCopy, InvFallsDue
  <2>3. CASE \E k \in slow : SlowPut(k)
    BY <2>3, InvSlowPut
  <2>4. CASE \E o \in Ops : CopyUpload(o) \/ CommitPreparation(o) \/ FailPreparation(o)
    BY <2>4, InvCopyUpload, InvCommitPreparation, InvFailPreparation
  <2>5. CASE \E o \in Ops :
          PrepareRow(o) \/ CopyForRow(o) \/ EnqueueRow(o) \/ Refuse(o) \/ Advance(o)
    BY <2>5, InvPrepareRow, InvCopyForRow, InvEnqueueRow, InvRefuse, InvAdvance
  <2>6. CASE \E o \in Ops :
          \/ ReserveBulkOperation(o) \/ EndReservation(o) \/ RevokeMember(o) \/ GrowsOlder(o)
          \/ \E n \in 1..Rows : EnqueueBulkJob(o, n)
          \/ \E r \in 1..Rows : DeliverySettles(o, r) \/ RetryDelivery(o, r)
    BY <2>6, InvReserve, InvRevoke, InvGrowsOlder, InvEnqueue, InvDelivery
  <2> QED BY <1>2, <2>1, <2>2, <2>3, <2>4, <2>5, <2>6 DEF BulkNext, PassStep
<1> QED BY <1>1, <1>2

\* Nothing is reserved, admitted or copied at first.
LEMMA InvInit ==
  ASSUME BulkAssumption, BulkInit
  PROVE  BulkInv
<1> USE DEF BulkInit
<1>1. /\ NoJob \in BulkJobs /\ NoJob.status = "none" /\ NoJob.total = 0 /\ NoJob.cursor = 0
      /\ NoJob.enqueued = 0 /\ NoJob.failed = 0
  BY BulkAssumption DEF NoJob, BulkJobs
<1>2. NoDelivery \in BulkDeliveries /\ NoDelivery.state = "none" /\ NoDelivery.msg = 0
  BY DEF NoDelivery, BulkDeliveries
<1>3. run = [pc |-> "idle", op |-> {}, cleanup |-> {}]
  BY DEF Idle
<1>4. BulkTypeOK
  BY <1>1, <1>2, <1>3, BulkAssumption DEF BulkTypeOK
<1>5. JobInv
  BY <1>1 DEF JobInv, JobParts, Going
<1>6. QueueInv /\ DelivInv
  BY <1>1, <1>2 DEF QueueInv, Distinct, DelivInv
<1>7. KeyInv /\ JobCopyInv /\ RunInv
  BY <1>3 DEF KeyInv, CleanupKeys, JobCopyInv, RunInv, AtRow
<1>8. RowsHaveBytes /\ JobsHaveBytes /\ TrackInv
  BY <1>1, <1>2 DEF RowsHaveBytes, JobsHaveBytes, TrackInv
<1> QED BY <1>4, <1>5, <1>6, <1>7, <1>8 DEF BulkInv

\* A recipient's message in the ledger, and a job that is still sending, have
\* their attachment; every copy belongs to a message or is named by a cleanup
\* intent, but for a put that was cut off and landed when the code looks for it
\* no more: for any number of jobs, recipients and failures (the alarm's pass
\* may stop at any step, and any put of it may land at any later time).
THEOREM BulkCopies == BulkSpec => []BulkCopiesAreSafe
<1>1. BulkInit => BulkInv
  BY BulkAssumption, InvInit
<1>2. BulkInv /\ [BulkNext]_bulkVars => BulkInv'
  BY BulkAssumption, InvNext
<1>3. BulkInv => BulkCopiesAreSafe
  BY DEF BulkInv, BulkCopiesAreSafe, CopiesAreTracked, TrackInv, CleanupKeys, Named
<1> QED BY <1>1, <1>2, <1>3, PTL DEF BulkSpec

\* The recipients up to one are as many as it says.
LEMMA UpToFinite ==
  ASSUME NEW n \in Nat
  PROVE  IsFiniteSet(1..n) /\ Cardinality(1..n) = n
<1>1. 1 \in Int /\ n \in Int
  OBVIOUS
<1>2. IsFiniteSet(1..n) /\ Cardinality(1..n) = IF 1 > n THEN 0 ELSE n - 1 + 1
  BY <1>1, FS_Interval
<1> QED BY <1>2

\* What has become of the recipients a job has come to
LEMMA CountsStep ==
  ASSUME BulkAssumption, BulkInv, BulkInv', CountsAreTrue, [BulkNext]_bulkVars
  PROVE  CountsAreTrue'
<1> DEFINE Sent(o) == {r \in 1..job[o].cursor : deliv[o][r].state # "none"}
<1>0. ASSUME NEW o \in Ops
      PROVE  /\ job[o].cursor \in Nat /\ job[o].cursor <= Rows /\ job[o].enqueued \in Nat
             /\ job'[o].enqueued + job'[o].failed = job'[o].cursor
  BY BulkAssumption DEF BulkInv, BulkTypeOK, BulkJobs, JobInv, JobParts
<1>s. ASSUME NEW o \in Ops PROVE job[o].enqueued = Cardinality(Sent(o))
  BY DEF CountsAreTrue
<1>1. ASSUME NEW o \in Ops, job'[o].cursor = job[o].cursor, job'[o].enqueued = job[o].enqueued,
             \A r \in 1..job[o].cursor : deliv'[o][r].state = "none" <=> deliv[o][r].state = "none"
      PROVE  job'[o].enqueued = Cardinality(Sent(o)')
  <2>1. Sent(o)' = Sent(o)
    BY <1>1
  <2> QED BY <1>s, <1>1, <2>1
<1>2. ASSUME UNCHANGED <<job, deliv>> PROVE CountsAreTrue'
  BY <1>2 DEF CountsAreTrue
<1>3. ASSUME UNCHANGED deliv, \A o \in Ops : job'[o].cursor = job[o].cursor
                                             /\ job'[o].enqueued = job[o].enqueued
      PROVE  CountsAreTrue'
  BY <1>0, <1>1, <1>3 DEF CountsAreTrue
<1>4. ASSUME NEW o \in Ops, Advance(o) PROVE CountsAreTrue'
  <2>1. /\ run.pc \in {"queued", "refused"} /\ o \in run.op
        /\ deliv' = deliv /\ \A p \in Ops \ {o} : job'[p] = job[p]
        /\ job[o] \in BulkJobs
    BY <1>4 DEF Advance, EndJob, BulkInv, BulkTypeOK
  <2>2. /\ job'[o].cursor = job[o].cursor + 1
        /\ job'[o].enqueued = job[o].enqueued + (IF run.pc = "queued" THEN 1 ELSE 0)
    <3>1. PICK j : j = [job[o] EXCEPT !.cursor = @ + 1, !.status = "running",
                          !.enqueued = @ + (IF run.pc = "queued" THEN 1 ELSE 0),
                          !.failed = @ + (IF run.pc = "refused" THEN 1 ELSE 0)]
      OBVIOUS
    <3>2. /\ j.cursor = job[o].cursor + 1
          /\ j.enqueued = job[o].enqueued + (IF run.pc = "queued" THEN 1 ELSE 0)
      BY <2>1, <3>1 DEF BulkJobs
    <3>3. PICK e : e = [j EXCEPT !.status = "done"]
      OBVIOUS
    <3>4. e.cursor = j.cursor /\ e.enqueued = j.enqueued
      BY <2>1, <3>1, <3>3 DEF BulkJobs
    <3>5. job' = [job EXCEPT ![o] = j] \/ job' = [job EXCEPT ![o] = e]
      BY <1>4, <3>1, <3>3 DEF Advance, EndJob
    <3>6. job'[o] = j \/ job'[o] = e
      BY <3>5 DEF BulkInv, BulkTypeOK
    <3> QED BY <3>2, <3>4, <3>6
  <2>3. InLedger(o) <=> run.pc = "queued"
    BY <2>1 DEF BulkInv, RunInv
  <2>4. Sent(o)' = IF run.pc = "queued" THEN Sent(o) \cup {job[o].cursor + 1} ELSE Sent(o)
    <3>1. \A r \in 1..job'[o].cursor : r \in 1..job[o].cursor \/ r = job[o].cursor + 1
      BY <1>0, <2>2
    <3>2. \A r \in 1..job[o].cursor : r \in 1..job'[o].cursor
      BY <1>0, <2>2
    <3>3. job[o].cursor + 1 \in 1..job'[o].cursor /\ job[o].cursor + 1 \notin 1..job[o].cursor
      BY <1>0, <2>2
    <3> QED BY <2>1, <2>3, <3>1, <3>2, <3>3 DEF InLedger, Row
  <2>5. IsFiniteSet(Sent(o)) /\ job[o].cursor + 1 \notin Sent(o)
    <3>1. IsFiniteSet(1..job[o].cursor)
      <4>1. job[o].cursor \in Nat
        BY <1>0, <2>1
      <4> QED BY <4>1, UpToFinite
    <3>2. Sent(o) \subseteq 1..job[o].cursor /\ job[o].cursor + 1 \notin 1..job[o].cursor
      BY <1>0
    <3> QED BY <3>1, <3>2, FS_Subset
  <2>6. Cardinality(Sent(o)') = job'[o].enqueued
    <3>1. CASE run.pc = "queued"
      <4> HIDE DEF Sent
      <4>1. Cardinality(Sent(o) \cup {job[o].cursor + 1}) = Cardinality(Sent(o)) + 1
        BY <2>5, FS_AddElement
      <4> QED BY <1>s, <2>2, <2>4, <3>1, <4>1
    <3>2. CASE run.pc # "queued"
      <4> HIDE DEF Sent
      <4> QED BY <1>0, <1>s, <2>2, <2>4, <3>2
    <3> QED BY <3>1, <3>2
  <2>7. ASSUME NEW p \in Ops \ {o} PROVE job'[p].enqueued = Cardinality(Sent(p)')
    BY <1>1, <2>1
  <2> QED BY <1>0, <2>6, <2>7 DEF CountsAreTrue
<1>5. ASSUME NEW o \in Ops, EnqueueRow(o) PROVE CountsAreTrue'
  <2>1. job' = job /\ deliv \in [Ops -> [1..Rows -> BulkDeliveries]]
        /\ \A p \in Ops : deliv[p] \in [1..Rows -> BulkDeliveries]
    BY <1>5 DEF EnqueueRow, BulkInv, BulkTypeOK
  <2>2. ASSUME NEW p \in Ops, NEW r \in 1..job[p].cursor
        PROVE  deliv'[p][r].state = "none" <=> deliv[p][r].state = "none"
    <3>1. r \in 1..Rows /\ (p = o => r # Row(o))
      BY <1>0, BulkAssumption DEF Row
    <3>2. deliv'[p][r] = deliv[p][r]
      BY <1>5, <2>1, <3>1 DEF EnqueueRow
    <3> QED BY <3>2
  <2> QED BY <1>0, <1>1, <2>1, <2>2 DEF CountsAreTrue
<1>6. ASSUME NEW o \in Ops, NEW r \in 1..Rows, DeliverySettles(o, r) \/ RetryDelivery(o, r)
      PROVE  CountsAreTrue'
  <2>1. PICK t \in {"open", "settled"} :
        /\ deliv' = [deliv EXCEPT ![o][r].state = t] /\ deliv[o][r].state # "none" /\ job' = job
    BY <1>6 DEF DeliverySettles, RetryDelivery
  <2>2. ASSUME NEW p \in Ops, NEW q \in 1..Rows
        PROVE  deliv'[p][q].state = "none" <=> deliv[p][q].state = "none"
    <3>1. deliv[p] \in [1..Rows -> BulkDeliveries] /\ deliv[p][q] \in BulkDeliveries
      BY DEF BulkInv, BulkTypeOK
    <3>2. CASE p = o /\ q = r
      <4>1. deliv'[p][q] = [deliv[p][q] EXCEPT !.state = t]
        BY <2>1, <3>1, <3>2 DEF BulkInv, BulkTypeOK
      <4> QED BY <2>1, <3>1, <3>2, <4>1 DEF BulkDeliveries
    <3>3. CASE ~(p = o /\ q = r)
      <4>1. deliv'[p][q] = deliv[p][q]
        BY <2>1, <3>1, <3>3 DEF BulkInv, BulkTypeOK
      <4> QED BY <4>1
    <3> QED BY <3>2, <3>3
  <2>3. \A p \in Ops : \A q \in 1..job[p].cursor : q \in 1..Rows
    BY <1>0
  <2> QED BY <1>0, <1>1, <2>1, <2>2, <2>3 DEF CountsAreTrue
<1>7. ASSUME NEW o \in Ops, NEW n \in 1..Rows, EnqueueBulkJob(o, n) PROVE CountsAreTrue'
  <2>1. \A p \in Ops : job'[p].cursor = job[p].cursor /\ job'[p].enqueued = job[p].enqueued
    <3> SUFFICES ASSUME NEW p \in Ops
        PROVE job'[p].cursor = job[p].cursor /\ job'[p].enqueued = job[p].enqueued
      OBVIOUS
    <3>1. job[p] \in BulkJobs
      BY DEF BulkInv, BulkTypeOK
    <3>2. job' = [job EXCEPT ![o].status = "preparing", ![o].total = n] \/ job' = job
      BY <1>7 DEF EnqueueBulkJob
    <3>3. job \in [Ops -> BulkJobs]
      BY DEF BulkInv, BulkTypeOK
    <3>4. job'[p] = [job[p] EXCEPT !.status = "preparing", !.total = n] \/ job'[p] = job[p]
      BY <3>2, <3>3
    <3> QED BY <3>1, <3>4 DEF BulkJobs
  <2> QED BY <1>3, <1>7, <2>1 DEF EnqueueBulkJob
<1>8. ASSUME NEW o \in Ops, CommitPreparation(o) \/ FailPreparation(o) PROVE CountsAreTrue'
  <2>1. \A p \in Ops : job'[p].cursor = job[p].cursor /\ job'[p].enqueued = job[p].enqueued
    <3> SUFFICES ASSUME NEW p \in Ops
        PROVE job'[p].cursor = job[p].cursor /\ job'[p].enqueued = job[p].enqueued
      OBVIOUS
    <3>1. job[p] \in BulkJobs
      BY DEF BulkInv, BulkTypeOK
    <3>2. PICK t : job' = [job EXCEPT ![o].status = t]
      BY <1>8 DEF CommitPreparation, FailPreparation
    <3>3. job \in [Ops -> BulkJobs]
      BY DEF BulkInv, BulkTypeOK
    <3>4. job'[p] = [job[p] EXCEPT !.status = t] \/ job'[p] = job[p]
      BY <3>2, <3>3
    <3> QED BY <3>1, <3>4 DEF BulkJobs
  <2> QED BY <1>3, <1>8, <2>1 DEF CommitPreparation, FailPreparation
<1>9. ASSUME StartPass PROVE CountsAreTrue'
  <2>1. \A p \in Ops : job'[p].cursor = job[p].cursor /\ job'[p].enqueued = job[p].enqueued
    <3> SUFFICES ASSUME NEW p \in Ops
        PROVE job'[p].cursor = job[p].cursor /\ job'[p].enqueued = job[p].enqueued
      OBVIOUS
    <3>1. job'[p] = [job[p] EXCEPT !.status = "failed"] \/ job'[p] = job[p]
      BY <1>9 DEF StartPass
    <3>2. job[p] \in BulkJobs
      BY DEF BulkInv, BulkTypeOK
    <3> QED BY <3>1, <3>2 DEF BulkJobs
  <2> QED BY <1>3, <1>9, <2>1 DEF StartPass
<1>10. ASSUME TakeHead PROVE CountsAreTrue'
  <2>1. CASE UNCHANGED job
    BY <1>2, <1>10, <2>1 DEF TakeHead
  <2>2. ASSUME NEW o, EndJob(o, [job[o] EXCEPT !.status = "cancelled"]) PROVE CountsAreTrue'
    <3>1. \A p \in Ops : job'[p].cursor = job[p].cursor /\ job'[p].enqueued = job[p].enqueued
      BY <2>2 DEF EndJob, BulkInv, BulkTypeOK, BulkJobs
    <3> QED BY <1>3, <1>10, <3>1 DEF TakeHead
  <2> QED BY <1>10, <2>1, <2>2 DEF TakeHead
<1> USE <1>2 DEF PassStep
<1>11. CASE UNCHANGED bulkVars \/ NothingToPrepare \/ NothingToClean \/ PassStops
  BY <1>11 DEF bulkVars, NothingToPrepare, NothingToClean, PassStops
<1>12. CASE \E i \in cleanups : ClaimCleanup(i) \/ DeleteCopy(i) \/ FallsDue(i)
  BY <1>12 DEF ClaimCleanup, DeleteCopy, FallsDue
<1>13. CASE \E k \in slow : SlowPut(k)
  BY <1>13 DEF SlowPut
<1>14. CASE \E o \in Ops :
         \/ CopyUpload(o) \/ PrepareRow(o) \/ CopyForRow(o) \/ Refuse(o)
         \/ ReserveBulkOperation(o) \/ EndReservation(o) \/ RevokeMember(o) \/ GrowsOlder(o)
  BY <1>14 DEF CopyUpload, PrepareRow, CopyForRow, Refuse, ReserveBulkOperation, EndReservation,
               RevokeMember, GrowsOlder
<1> QED
  <2> HIDE <1>2 DEF CountsAreTrue
  <2> QED BY <1>4, <1>5, <1>6, <1>7, <1>8, <1>9, <1>10, <1>11, <1>12, <1>13, <1>14
      DEF BulkNext, PassStep

\* What is not yet served is finite, and no more than what is outstanding.
LEMMA UnservedFinite ==
  ASSUME BulkAssumption
  PROVE  /\ IsFiniteSet(Unserved) /\ IsFiniteSet(Waiting) /\ IsFiniteSet(Open)
         /\ Cardinality(Unserved) \in Nat /\ Cardinality(Waiting) \in Nat /\ Cardinality(Open) \in Nat
         /\ Cardinality(Unserved) <= Outstanding
<1>1. IsFiniteSet(Ops \X (1..Rows))
  <2>1. IsFiniteSet(1..Rows)
    BY UpToFinite, BulkAssumption
  <2> QED BY <2>1, FS_Product, BulkAssumption
<1>2. /\ Unserved \subseteq Ops \X (1..Rows) /\ Waiting \subseteq Ops \X (1..Rows)
      /\ Open \subseteq Ops \X (1..Rows) /\ Unserved \subseteq Waiting \cup Open
  BY DEF Unserved, Waiting, Open
<1>3. IsFiniteSet(Unserved) /\ IsFiniteSet(Waiting) /\ IsFiniteSet(Open)
  BY <1>1, <1>2, FS_Subset
<1>4. /\ Cardinality(Unserved) \in Nat /\ Cardinality(Waiting) \in Nat /\ Cardinality(Open) \in Nat
      /\ Cardinality(Waiting \cap Open) \in Nat
  BY <1>3, FS_CardinalityType, FS_Intersection
<1>5. /\ IsFiniteSet(Waiting \cup Open)
      /\ Cardinality(Waiting \cup Open)
           = Cardinality(Waiting) + Cardinality(Open) - Cardinality(Waiting \cap Open)
  BY <1>3, FS_Union
<1>6. Cardinality(Unserved) <= Cardinality(Waiting \cup Open)
  BY <1>2, <1>5, FS_Subset
<1> QED BY <1>3, <1>4, <1>5, <1>6 DEF Outstanding

\* Nothing is added to what is to be served.
LEMMA UnservedShrinks ==
  ASSUME BulkTypeOK, BulkTypeOK',
         \A p \in Ops : p \in active' => /\ p \in active /\ job[p].cursor <= job'[p].cursor
                                         /\ job'[p].total = job[p].total,
         \A p \in Ops : \A r \in 1..Rows :
           /\ deliv'[p][r].state = "open" => <<p, r>> \in Unserved
           /\ deliv'[p][r].state = "none" => deliv[p][r].state = "none"
  PROVE  Unserved' \subseteq Unserved
<1> SUFFICES ASSUME NEW p \in Ops, NEW r \in 1..Rows, <<p, r>> \in Unserved'
             PROVE  <<p, r>> \in Unserved
  BY DEF Unserved
<1>1. CASE deliv'[p][r].state = "open"
  BY <1>1
<1>2. CASE deliv'[p][r].state = "none" /\ <<p, r>> \in Waiting'
  <2>1. p \in active' /\ job'[p].cursor < r /\ r <= job'[p].total
    BY <1>2 DEF Waiting
  <2>2. job[p].cursor \in Int /\ job'[p].cursor \in Int
    <3>1. job[p] \in BulkJobs /\ job'[p] \in BulkJobs
      BY DEF BulkTypeOK
    <3> QED BY <3>1 DEF BulkJobs
  <2>3. p \in active /\ job[p].cursor < r /\ r <= job[p].total
    BY <2>1, <2>2
  <2> QED BY <1>2, <2>3 DEF Waiting, Unserved
<1> QED BY <1>1, <1>2 DEF Unserved

\* No step takes more recipients on than may be outstanding.
LEMMA LimitStep ==
  ASSUME BulkAssumption, BulkInv, BulkInv', OutstandingIsBounded, [BulkNext]_bulkVars
  PROVE  OutstandingIsBounded'
<1>t. /\ BulkTypeOK /\ BulkTypeOK' /\ job \in [Ops -> BulkJobs]
      /\ deliv \in [Ops -> [1..Rows -> BulkDeliveries]]
      /\ \A p \in Ops : job[p] \in BulkJobs /\ job[p].cursor \in Int /\ job[p].total \in Int
      /\ \A p \in Ops : deliv[p] \in [1..Rows -> BulkDeliveries]
  <2>1. /\ BulkTypeOK /\ BulkTypeOK' /\ job \in [Ops -> BulkJobs]
        /\ deliv \in [Ops -> [1..Rows -> BulkDeliveries]]
    BY DEF BulkInv, BulkTypeOK
  <2>2. \A p \in Ops : job[p] \in BulkJobs /\ deliv[p] \in [1..Rows -> BulkDeliveries]
    BY <2>1
  <2>3. \A p \in Ops : job[p].cursor \in Int /\ job[p].total \in Int
    BY <2>2 DEF BulkJobs
  <2> QED BY <2>1, <2>2, <2>3
<1>f. /\ IsFiniteSet(Unserved) /\ IsFiniteSet(Unserved') /\ Cardinality(Unserved) \in Nat
      /\ Cardinality(Unserved') \in Nat /\ Cardinality(Unserved) <= Outstanding
      /\ Cardinality(Unserved) <= MaxOutstanding /\ Outstanding \in Nat
  <2>1. /\ IsFiniteSet(Unserved) /\ Cardinality(Unserved) \in Nat
        /\ Cardinality(Unserved) <= Outstanding /\ Outstanding \in Nat
    BY UnservedFinite DEF Outstanding
  <2>2. IsFiniteSet(Ops \X (1..Rows)) /\ Unserved' \subseteq Ops \X (1..Rows)
    <3>1. IsFiniteSet(1..Rows) /\ IsFiniteSet(Ops)
      BY UpToFinite, BulkAssumption
    <3> QED BY <3>1, FS_Product DEF Unserved
  <2>3. IsFiniteSet(Unserved') /\ Cardinality(Unserved') \in Nat
    BY <2>2, FS_Subset, FS_CardinalityType
  <2> QED BY <2>1, <2>3 DEF OutstandingIsBounded
<1>1. ASSUME Unserved' \subseteq Unserved PROVE OutstandingIsBounded'
  <2>1. Cardinality(Unserved') <= Cardinality(Unserved)
    BY <1>1, <1>f, FS_Subset
  <2> QED BY <1>f, <2>1, BulkAssumption DEF OutstandingIsBounded
<1>2. ASSUME NEW X, IsFiniteSet(X), NEW n \in Nat, Cardinality(X) <= n,
             Unserved' \subseteq Unserved \cup X, Outstanding + n <= MaxOutstanding
      PROVE  OutstandingIsBounded'
  <2>1. /\ IsFiniteSet(Unserved \cup X)
        /\ Cardinality(Unserved \cup X)
             = Cardinality(Unserved) + Cardinality(X) - Cardinality(Unserved \cap X)
    BY <1>2, <1>f, FS_Union
  <2>2. Cardinality(X) \in Nat /\ Cardinality(Unserved \cap X) \in Nat
    BY <1>2, <1>f, FS_CardinalityType, FS_Intersection
  <2>3. Cardinality(Unserved') <= Cardinality(Unserved \cup X)
    BY <1>2, <2>1, FS_Subset
  <2> QED BY <1>2, <1>f, <2>1, <2>2, <2>3, BulkAssumption DEF OutstandingIsBounded
<1>3. ASSUME UNCHANGED deliv,
             \A p \in Ops : p \in active' => /\ p \in active /\ job[p].cursor <= job'[p].cursor
                                             /\ job'[p].total = job[p].total
      PROVE  OutstandingIsBounded'
  <2>1. Unserved' \subseteq Unserved
    BY <1>3, <1>t, UnservedShrinks DEF Unserved
  <2> QED BY <1>1, <2>1
<1>4. ASSUME UNCHANGED <<deliv, job, active>> PROVE OutstandingIsBounded'
  BY <1>3, <1>4, <1>t
<1>5. ASSUME NEW o \in Ops, NEW n \in 1..Rows, EnqueueBulkJob(o, n) PROVE OutstandingIsBounded'
  <2>0. n \in Nat
    BY BulkAssumption
  <2>1. CASE UNCHANGED <<job, active>>
    BY <1>4, <1>5, <2>1 DEF EnqueueBulkJob
  <2>2. CASE ~UNCHANGED <<job, active>>
    <3>1. /\ ~(Outstanding + n > MaxOutstanding) /\ deliv' = deliv
          /\ job' = [job EXCEPT ![o].status = "preparing", ![o].total = n]
          /\ active' = active \cup {o}
      BY <1>5, <2>2 DEF EnqueueBulkJob
    <3>2. /\ \A p \in Ops \ {o} : job'[p] = job[p] /\ (p \in active' <=> p \in active)
          /\ job'[o].cursor = job[o].cursor /\ job'[o].total = n /\ job[o].cursor \in 0..Rows
      BY <3>1, <1>t DEF BulkJobs
    <3>3. IsFiniteSet({o}) /\ Cardinality({o}) = 1 /\ IsFiniteSet(1..n) /\ Cardinality(1..n) = n
      <4>1. IsFiniteSet({o}) /\ Cardinality({o}) = 1
        BY FS_Singleton
      <4>2. IsFiniteSet(1..n) /\ Cardinality(1..n) = n
        BY <2>0, UpToFinite
      <4> QED BY <4>1, <4>2
    <3>4. IsFiniteSet({o} \X (1..n)) /\ Cardinality({o} \X (1..n)) = n
      <4>1. /\ IsFiniteSet({o} \X (1..n))
            /\ Cardinality({o} \X (1..n)) = Cardinality({o}) * Cardinality(1..n)
        BY <3>3, FS_Product
      <4> QED BY <2>0, <3>3, <4>1
    <3>5. Unserved' \subseteq Unserved \cup ({o} \X (1..n))
      <4> SUFFICES ASSUME NEW p \in Ops, NEW r \in 1..Rows, <<p, r>> \in Unserved'
                   PROVE  <<p, r>> \in Unserved \cup ({o} \X (1..n))
        BY DEF Unserved
      <4>1. CASE p = o
        <5>1. deliv[p][r].state = "open" \/ r <= n
          BY <3>1, <3>2, <4>1 DEF Unserved, Waiting
        <5> QED BY <4>1, <5>1, <2>0 DEF Unserved
      <4>2. CASE p # o
        BY <3>1, <3>2, <4>2 DEF Unserved, Waiting
      <4> QED BY <4>1, <4>2
    <3>6. Outstanding + n <= MaxOutstanding
      BY <1>f, <2>0, <3>1, BulkAssumption
    <3> QED BY <1>2, <2>0, <3>4, <3>5, <3>6
  <2> QED BY <2>1, <2>2
<1>6. ASSUME NEW o \in Ops, NEW r \in 1..Rows, RetryDelivery(o, r) PROVE OutstandingIsBounded'
  <2>1. /\ deliv' = [deliv EXCEPT ![o][r].state = "open"] /\ Outstanding < MaxOutstanding
        /\ UNCHANGED <<job, active>>
    BY <1>6 DEF RetryDelivery
  <2>2. Unserved' \subseteq Unserved \cup {<<o, r>>}
    <3> SUFFICES ASSUME NEW p \in Ops, NEW q \in 1..Rows, <<p, q>> \in Unserved', ~(p = o /\ q = r)
                 PROVE  <<p, q>> \in Unserved
      BY DEF Unserved
    <3>1. deliv'[p][q] = deliv[p][q]
      BY <2>1, <1>t
    <3> QED BY <2>1, <3>1 DEF Unserved, Waiting
  <2>3. IsFiniteSet({<<o, r>>}) /\ Cardinality({<<o, r>>}) = 1
    BY FS_Singleton
  <2>4. Outstanding + 1 <= MaxOutstanding
    BY <1>f, <2>1, BulkAssumption
  <2> QED BY <1>2, <2>2, <2>3, <2>4
<1>7. ASSUME NEW o \in Ops, NEW r \in 1..Rows, DeliverySettles(o, r) PROVE OutstandingIsBounded'
  <2>1. /\ deliv' = [deliv EXCEPT ![o][r].state = "settled"] /\ UNCHANGED <<job, active>>
    BY <1>7 DEF DeliverySettles
  <2>2. deliv'[o][r].state = "settled"
    BY <2>1, <1>t DEF BulkDeliveries
  <2>3. Unserved' \subseteq Unserved
    <3> SUFFICES ASSUME NEW p \in Ops, NEW q \in 1..Rows, <<p, q>> \in Unserved'
                 PROVE  <<p, q>> \in Unserved
      BY DEF Unserved
    <3>1. CASE p = o /\ q = r
      BY <2>2, <3>1 DEF Unserved
    <3>2. CASE ~(p = o /\ q = r)
      <4>1. deliv'[p][q] = deliv[p][q]
        BY <2>1, <3>2, <1>t
      <4> QED BY <2>1, <4>1 DEF Unserved, Waiting
    <3> QED BY <3>1, <3>2
  <2> QED BY <1>1, <2>3
<1>8. ASSUME NEW o \in Ops, EnqueueRow(o) PROVE OutstandingIsBounded'
  <2>0. /\ job[o].status \in Going /\ ~InLedger(o) /\ JobParts(o) /\ Row(o) \in 1..Rows
        /\ UNCHANGED <<job, active>>
    <3>1. run.pc = "enqueue" /\ o \in run.op /\ UNCHANGED <<job, active>>
      BY <1>8 DEF EnqueueRow
    <3>2. job[o].status \in Going /\ prep[o] # 0 /\ JobParts(o)
      BY <3>1 DEF BulkInv, RunInv, AtRow, JobInv
    <3>3. Row(o) \in 1..Rows
      BY <1>t, <3>2, BulkAssumption DEF Row, JobParts, BulkJobs
    <3> QED BY <3>1, <3>2, <3>3 DEF BulkInv, DelivInv
  <2>1. <<o, Row(o)>> \in Unserved
    <3>1. o \in active /\ job[o].cursor < Row(o) /\ Row(o) <= job[o].total
      <4>1. /\ o \in active /\ job[o].cursor < job[o].total /\ Row(o) = job[o].cursor + 1
            /\ job[o].cursor \in Int /\ job[o].total \in Int
        BY <1>t, <2>0 DEF JobParts, Row
      <4> QED BY <4>1
    <3> QED BY <2>0, <3>1 DEF Unserved, Waiting, InLedger
  <2>2. \A p \in Ops : \A q \in 1..Rows :
          ~(p = o /\ q = Row(o)) => deliv'[p][q] = deliv[p][q]
    BY <1>8, <1>t DEF EnqueueRow
  <2>3. Unserved' \subseteq Unserved
    <3> SUFFICES ASSUME NEW p \in Ops, NEW q \in 1..Rows, <<p, q>> \in Unserved'
                 PROVE  <<p, q>> \in Unserved
      BY DEF Unserved
    <3>1. CASE p = o /\ q = Row(o)
      BY <2>1, <3>1
    <3>2. CASE ~(p = o /\ q = Row(o))
      BY <2>0, <2>2, <3>2 DEF Unserved, Waiting
    <3> QED BY <3>1, <3>2
  <2> QED BY <1>1, <2>3
<1>9. ASSUME NEW o \in Ops, NEW j, j.total = job[o].total, job[o].cursor <= j.cursor,
             job' = [job EXCEPT ![o] = j], active' \subseteq active, UNCHANGED deliv
      PROVE  OutstandingIsBounded'
  <2>1. \A p \in Ops : job'[p] = IF p = o THEN j ELSE job[p]
    BY <1>9, <1>t
  <2> QED BY <1>3, <1>9, <1>t, <2>1
<1>10. ASSUME NEW o \in Ops, Advance(o) PROVE OutstandingIsBounded'
  <2>1. PICK j : j = [job[o] EXCEPT !.cursor = @ + 1, !.status = "running",
                          !.enqueued = @ + (IF run.pc = "queued" THEN 1 ELSE 0),
                          !.failed = @ + (IF run.pc = "refused" THEN 1 ELSE 0)]
    OBVIOUS
  <2>2. PICK e : e = [j EXCEPT !.status = "done"]
    OBVIOUS
  <2>3. j.cursor = job[o].cursor + 1 /\ j.total = job[o].total
    BY <2>1, <1>t DEF BulkJobs
  <2>4. e.cursor = j.cursor /\ e.total = j.total
    BY <2>1, <2>2, <1>t DEF BulkJobs
  <2>5. (job' = [job EXCEPT ![o] = j] \/ job' = [job EXCEPT ![o] = e])
        /\ active' \subseteq active /\ deliv' = deliv
    BY <1>10, <2>1, <2>2 DEF Advance, EndJob
  <2> QED BY <1>9, <1>t, <2>3, <2>4, <2>5
<1>11. ASSUME NEW o \in Ops, NEW t, job' = [job EXCEPT ![o].status = t], active' \subseteq active,
              UNCHANGED deliv
       PROVE  OutstandingIsBounded'
  <2>1. PICK j : j = [job[o] EXCEPT !.status = t]
    OBVIOUS
  <2>2. j.total = job[o].total /\ j.cursor = job[o].cursor
    BY <2>1, <1>t DEF BulkJobs
  <2>3. job' = [job EXCEPT ![o] = j]
    BY <1>11, <2>1
  <2>4. job[o].cursor <= j.cursor
    BY <1>t, <2>2
  <2> QED BY <1>9, <1>11, <2>2, <2>3, <2>4
<1>12. ASSUME NEW o \in Ops, CommitPreparation(o) \/ FailPreparation(o) PROVE OutstandingIsBounded'
  <2>1. PICK t : job' = [job EXCEPT ![o].status = t]
    BY <1>12 DEF CommitPreparation, FailPreparation
  <2>2. active' \subseteq active /\ deliv' = deliv
    BY <1>12 DEF CommitPreparation, FailPreparation
  <2> QED BY <1>11, <2>1, <2>2
<1>13. ASSUME StartPass PROVE OutstandingIsBounded'
  <2>1. /\ deliv' = deliv
        /\ \A p \in Ops : job'[p] = [job[p] EXCEPT !.status = "failed"] \/ job'[p] = job[p]
        /\ active' \subseteq active
    BY <1>13 DEF StartPass
  <2>2. \A p \in Ops : job'[p].cursor = job[p].cursor /\ job'[p].total = job[p].total
    <3> SUFFICES ASSUME NEW p \in Ops
        PROVE job'[p].cursor = job[p].cursor /\ job'[p].total = job[p].total
      OBVIOUS
    <3>1. job[p] \in BulkJobs
      BY <1>t
    <3> QED BY <2>1, <3>1 DEF BulkJobs
  <2> QED BY <1>3, <1>t, <2>1, <2>2
<1>14. ASSUME TakeHead PROVE OutstandingIsBounded'
  <2>1. CASE UNCHANGED <<job, active>>
    BY <1>4, <1>14, <2>1 DEF TakeHead
  <2>2. CASE ~UNCHANGED <<job, active>>
    <3>1. PICK o : /\ o = Head(queue) /\ queue # <<>>
                   /\ EndJob(o, [job[o] EXCEPT !.status = "cancelled"]) /\ deliv' = deliv
      BY <1>14, <2>2 DEF TakeHead
    <3>2. o \in Ops
      BY <3>1, <1>t DEF BulkTypeOK
    <3>3. job' = [job EXCEPT ![o].status = "cancelled"] /\ active' \subseteq active
      BY <3>1 DEF EndJob
    <3> QED BY <1>11, <3>1, <3>2, <3>3
  <2> QED BY <2>1, <2>2
<1>15. CASE UNCHANGED bulkVars \/ NothingToPrepare \/ NothingToClean \/ PassStops
  BY <1>4, <1>15 DEF bulkVars, NothingToPrepare, NothingToClean, PassStops
<1>16. CASE \E i \in cleanups : ClaimCleanup(i) \/ DeleteCopy(i) \/ FallsDue(i)
  BY <1>4, <1>16 DEF ClaimCleanup, DeleteCopy, FallsDue
<1>17. CASE \E k \in slow : SlowPut(k)
  BY <1>4, <1>17 DEF SlowPut
<1>18. CASE \E o \in Ops :
         \/ CopyUpload(o) \/ PrepareRow(o) \/ CopyForRow(o) \/ Refuse(o)
         \/ ReserveBulkOperation(o) \/ EndReservation(o) \/ RevokeMember(o) \/ GrowsOlder(o)
  BY <1>4, <1>18 DEF CopyUpload, PrepareRow, CopyForRow, Refuse, ReserveBulkOperation,
               EndReservation, RevokeMember, GrowsOlder
<1> QED
  <2> HIDE DEF OutstandingIsBounded
  <2> QED BY <1>5, <1>6, <1>7, <1>8, <1>10, <1>12, <1>13, <1>14, <1>15, <1>16, <1>17, <1>18
      DEF BulkNext, PassStep

\* A job's counters are what became of its recipients, and the recipients to be
\* served never exceed the limit, with new jobs and retries taken together
\* (Advance, enqueueBulkJob, #assertBulkRetryCapacitySync).
THEOREM BulkAccounts == BulkSpec => []BulkIsAccounted
<1> DEFINE All == BulkInv /\ CountsAreTrue /\ OutstandingIsBounded
<1>1. BulkInit => All
  <2> SUFFICES ASSUME BulkInit PROVE All
    OBVIOUS
  <2>1. BulkInv
    BY BulkAssumption, InvInit
  <2>2. /\ NoJob.cursor = 0 /\ NoJob.enqueued = 0 /\ NoJob.failed = 0
        /\ NoDelivery.state = "none"
    BY DEF NoJob, NoDelivery
  <2>3. CountsAreTrue
    <3>1. \A o \in Ops : {r \in 1..job[o].cursor : deliv[o][r].state # "none"} = {}
      BY <2>2 DEF BulkInit
    <3>2. Cardinality({}) = 0
      BY FS_EmptySet
    <3>3. \A o \in Ops : job[o] = NoJob
      BY DEF BulkInit
    <3> SUFFICES ASSUME NEW o \in Ops
        PROVE /\ job[o].enqueued = Cardinality({r \in 1..job[o].cursor : deliv[o][r].state # "none"})
              /\ job[o].enqueued + job[o].failed = job[o].cursor
      BY DEF CountsAreTrue
    <3>4. {r \in 1..job[o].cursor : deliv[o][r].state # "none"} = {}
      BY <3>1
    <3>5. job[o].cursor = 0 /\ job[o].enqueued = 0 /\ job[o].failed = 0
      BY <2>2, <3>3
    <3> QED BY <3>2, <3>4, <3>5
  <2>4. OutstandingIsBounded
    <3>1. Unserved = {}
      BY <2>2 DEF BulkInit, Unserved, Waiting
    <3> QED BY <3>1, FS_EmptySet, BulkAssumption DEF OutstandingIsBounded
  <2> QED BY <2>1, <2>3, <2>4
<1>2. All /\ [BulkNext]_bulkVars => All'
  <2> SUFFICES ASSUME All, [BulkNext]_bulkVars PROVE All'
    OBVIOUS
  <2>1. BulkInv'
    BY BulkAssumption, InvNext
  <2> QED BY <2>1, BulkAssumption, CountsStep, LimitStep
<1>3. All => BulkIsAccounted
  BY DEF BulkIsAccounted
<1> QED BY <1>1, <1>2, <1>3, PTL DEF BulkSpec
=============================================================================
