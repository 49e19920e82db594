------------------------- MODULE ImportClaimsProofs -------------------------
(* Proofs about imports: ImportInv is inductive, and it says that the      *)
(* objects of an imported message are stored and that no other object is   *)
(* forgotten.  What a step leaves alone is taken care of by the lemmas of  *)
(* the first part, so that an action owes what it changes itself.          *)
EXTENDS ImportClaims, TLAPS

-----------------------------------------------------------------------------
(* What a step leaves alone                                                *)

\* The request does nothing and nothing it asked for happens.
Rests(x) ==
  /\ ipc'[x] = ipc[x] /\ puts'[x] = puts[x]
  /\ x \in sealed' <=> x \in sealed
  /\ x \in late' <=> x \in late
  /\ \A i \in Ordinals : <<x, i>> \in late' <=> <<x, i>> \in late

\* What is past stays past, what is put stays put.
Ages(x) ==
  /\ IsPast(x) => IsPast(x)'
  /\ \A i \in Ordinals : IsPut(x, i) => IsPut(x, i)'

\* The outbox and the message keep what they know of an object that was put.
KeepsTrack(x) ==
  \A i \in Ordinals : IsPut(x, i) /\ Tracked(<<x, i>>) => Tracked(<<x, i>>)'

\* The intents that say nothing yet.
Blank == {NoIntent} \cup
  {[NoIntent EXCEPT !.state = q] : q \in {"staging", "recorded", "abandoned_watching"}}

(* The objects of a request, and those of the message, one by one. *)
LEMMA ObjectFacts ==
  ASSUME NEW w, NEW x
  PROVE  /\ \A i : <<x, i>> \in ObjectsOf(w) <=> x = w /\ i \in Ordinals
         /\ \A i : <<x, i>> \in Owned <=> x \in mail /\ i \in Ordinals
BY DEF ObjectsOf, Owned

(* An object is tracked if it is gone, the message's, or in the outbox. *)
LEMMA TrackFacts ==
  ASSUME NEW x, NEW i \in Ordinals
  PROVE  Tracked(<<x, i>>) <=>
           (<<x, i>> \in stored =>
              x \in mail \/ <<x, i>> \in rows \/ <<x, i>> \in deleting)
BY ObjectFacts DEF Tracked

(* The same after the step. *)
LEMMA TrackFactsNext ==
  ASSUME NEW x, NEW i \in Ordinals, size' = size
  PROVE  Tracked(<<x, i>>)' <=>
           (<<x, i>> \in stored' =>
              x \in mail' \/ <<x, i>> \in rows' \/ <<x, i>> \in deleting')
BY DEF Tracked, ObjectsOf, Owned, Ordinals

(* A request at rest does not become younger. *)
LEMMA RestingAges ==
  ASSUME NEW x, Rests(x), size' = size
  PROVE  Ages(x)
BY DEF Rests, Ages, IsPast, IsPut, AtWork, Ordinals

(* Where a request is does not change while it rests, unless its intent does. *)
LEMMA RequestKeeps ==
  ASSUME NEW x, RequestInv(x), Rests(x), size' = size,
         intent'[x].closed => intent[x].closed,
         Fresh(x) => intent'[x] \in {NoIntent, [NoIntent EXCEPT !.state = "staging"]},
         x \in sealed => intent'[x].state \in Sealed \cup {"finalized"}
  PROVE  RequestInv(x)'
<1>1. NoIntent' = NoIntent /\ Ordinals' = Ordinals /\ Sealed' = Sealed
  BY DEF NoIntent, Ordinals, Sealed
<1>2. (Fresh(x))' <=> Fresh(x)
  BY DEF Rests, Fresh
<1> HIDE DEF NoIntent, Sealed, Fresh
<1> QED BY <1>1, <1>2 DEF RequestInv, Rests

(* The objects of a request at rest are what they were, if nothing of it is
   put and the bucket loses nothing of it that is not fenced. *)
LEMMA ObjectsKeep ==
  ASSUME NEW x, ObjectInv(x), Rests(x), size' = size,
         size \in Nat, puts[x] \in 0..size,
         x \in mail' => x \in mail,
         \A i \in Ordinals : <<x, i>> \in stored' => <<x, i>> \in stored,
         AtWork(x) \/ x \in late =>
           \A i \in Ordinals : <<x, i>> \in stored \cup fenced =>
             <<x, i>> \in stored' \cup fenced',
         x \in mail' =>
           \A i \in Ordinals : <<x, i>> \in stored \ fenced => <<x, i>> \in stored' \ fenced'
  PROVE  ObjectInv(x)'
<1>1. Ordinals' = Ordinals /\ (AtWork(x)' <=> AtWork(x)) /\ (IsPast(x)' <=> IsPast(x))
      /\ \A i \in Ordinals : IsPut(x, i)' <=> IsPut(x, i)
  BY DEF Rests, AtWork, IsPast, IsPut, Ordinals
<1>2. \A i \in 1..puts[x] : i \in Ordinals
  BY DEF Ordinals
<1>3. ObjectsOf(x)' = ObjectsOf(x)
  BY <1>1 DEF ObjectsOf
<1>4. ObjectsOf(x) \subseteq stored \ fenced <=>
        \A i \in Ordinals : <<x, i>> \in stored \ fenced
  BY DEF ObjectsOf
<1>5. ObjectsOf(x) \subseteq stored' \ fenced' <=>
        \A i \in Ordinals : <<x, i>> \in stored' \ fenced'
  BY DEF ObjectsOf
<1> HIDE DEF ObjectsOf, IsPast, IsPut, AtWork
<1>6. puts'[x] = puts[x] /\ (x \in late' <=> x \in late) /\ (x \in sealed' <=> x \in sealed)
  BY DEF Rests
<1>7. (AtWork(x) \/ x \in late => \A i \in 1..puts[x] : <<x, i>> \in stored \cup fenced)'
  BY <1>1, <1>2, <1>6 DEF ObjectInv
<1>8. (x \in mail => IsPast(x) /\ ObjectsOf(x) \subseteq stored \ fenced)'
  BY <1>1, <1>3, <1>4, <1>5 DEF ObjectInv
<1>9. (\A i \in Ordinals : <<x, i>> \in stored => x \in sealed /\ IsPut(x, i))'
  BY <1>1, <1>6 DEF ObjectInv
<1> QED BY <1>7, <1>8, <1>9 DEF ObjectInv

(* What was seen stays true, as long as objects are kept track of, or nothing
   was seen that speaks of the outbox. *)
LEMMA SeenKeeps ==
  ASSUME NEW x, SeenInv(x), Ages(x), size' = size,
         intent'[x].phase = intent[x].phase, intent'[x].cursor = intent[x].cursor,
         intent'[x].seen = intent[x].seen,
         intent'[x].state # "integrity_blocked",
         intent'[x].state = "recorded" =>
           intent[x].state = "recorded" /\ intent'[x].closed = intent[x].closed,
         intent'[x].state = "finalized" =>
           intent[x].state = "finalized" /\ intent'[x].closed = intent[x].closed,
         KeepsTrack(x) \/ (~IsPast(x) /\ intent[x].phase = "validation"
                             /\ intent[x].state # "finalized")
  PROVE  SeenInv(x)'
<1>1. Ordinals' = Ordinals
  BY DEF Ordinals
<1>4. IsPast(x) => \A i \in Ordinals : IsPut(x, i)
  BY DEF IsPast, IsPut, AtWork
<1> HIDE DEF IsPast, IsPut, Tracked, Ordinals
<1>2. CASE KeepsTrack(x)
  BY <1>1, <1>2, <1>4 DEF SeenInv, Ages, KeepsTrack
<1>3. CASE ~IsPast(x) /\ intent[x].phase = "validation" /\ intent[x].state # "finalized"
  BY <1>1, <1>3 DEF SeenInv, Ages
<1> QED BY <1>2, <1>3

(* A blank intent has seen nothing. *)
LEMMA BlankSeen ==
  ASSUME NEW x, size' = size, size \in Nat, intent'[x] \in Blank
  PROVE  SeenInv(x)'
<1>1. Ordinals' = Ordinals
  BY DEF Ordinals
<1>2. \/ intent'[x] = NoIntent
      \/ \E q \in {"staging", "recorded", "abandoned_watching"} :
           intent'[x] = [NoIntent EXCEPT !.state = q]
  BY DEF Blank
<1>3. /\ intent'[x].state \in {"none", "staging", "recorded", "abandoned_watching"}
      /\ intent'[x].phase = "validation"
      /\ intent'[x].cursor = 0 /\ \A i \in Ordinals : intent'[x].seen[i] = "unseen"
  BY <1>2 DEF NoIntent
<1>4. \A i \in Ordinals : ~(i <= 0)
  BY DEF Ordinals
<1> HIDE DEF IsPast, IsPut, Tracked, Ordinals
<1> QED BY <1>1, <1>3, <1>4 DEF SeenInv

(* The call that holds a lease knows what it knew. *)
LEMMA CallKeeps ==
  ASSUME NEW x, CallInv(x), Ages(x), size' = size,
         lease'[x] = lease[x] \/ lease'[x] = "none",
         lease'[x] # "none" =>
           /\ intent'[x].state = "reconciling"
           /\ intent'[x].phase = intent[x].phase /\ intent'[x].cursor = intent[x].cursor,
         intent[x].cursor + 1 \in Ordinals,
         \A a \in {"own", "alarm"} : calls'[x][a] \in {calls[x][a], "none", "head"},
         x \in mail' => x \in mail \/ lease[x] = "none"
  PROVE  CallInv(x)'
<1>1. PICK i \in Ordinals : i = intent[x].cursor + 1
  OBVIOUS
<1>2. CASE lease'[x] = "none"
  BY <1>2 DEF CallInv
<1>3. CASE lease'[x] # "none"
  <2>1. intent'[x].cursor + 1 = i
    BY <1>1, <1>3
  <2>2. IsPut(x, i) => IsPut(x, i)'
    BY DEF Ages
  <2>3. lease'[x] = lease[x] /\ intent'[x].phase = intent[x].phase
    BY <1>3
  <2> HIDE DEF IsPut, Ages
  <2> QED BY <1>1, <1>3, <2>1, <2>2, <2>3 DEF CallInv
<1> QED BY <1>2, <1>3

-----------------------------------------------------------------------------
(* The outbox and the mailbox's user                                       *)

(* What the invariant says of the constants' part of a state. *)
LEMMA TypeFacts ==
  ASSUME ImportInv
  PROVE  /\ size \in Nat /\ size >= 1 /\ Ordinals = 1..size
         /\ \A x \in Importers :
              /\ puts[x] \in 0..size /\ intent[x] \in Intents
              /\ intent[x].cursor + 1 \in Ordinals
              /\ RequestInv(x) /\ ObjectInv(x) /\ SeenInv(x) /\ CallInv(x)
<1>1. size \in Nat /\ size >= 1
  BY ImportAssumption DEF ImportInv, ImportTypeOK
<1>2. ASSUME NEW x \in Importers
      PROVE  /\ puts[x] \in 0..size /\ intent[x] \in Intents
             /\ intent[x].cursor + 1 \in Ordinals
  <2>1. puts[x] \in 0..size /\ intent[x] \in Intents
    BY DEF ImportInv, ImportTypeOK
  <2>2. intent[x].cursor \in 0..(size - 1)
    BY <2>1 DEF Intents
  <2> QED BY <1>1, <2>1, <2>2 DEF Ordinals
<1> QED BY <1>1, <1>2 DEF ImportInv, Ordinals

(* A step that touches no request, intent or call. *)
LEMMA OutboxStep ==
  ASSUME ImportInv, size' = size, UNCHANGED <<intent, lease, calls, importerVars>>,
         ImportTypeOK', deleting' \subseteq fenced', mail' \subseteq mail,
         \A x \in Importers : \A i \in Ordinals :
           /\ <<x, i>> \in stored' => <<x, i>> \in stored
           /\ <<x, i>> \in stored \cup fenced => <<x, i>> \in stored' \cup fenced'
           /\ x \in mail' /\ <<x, i>> \in stored \ fenced => <<x, i>> \in stored' \ fenced'
           /\ Tracked(<<x, i>>) => Tracked(<<x, i>>)'
  PROVE  ImportInv'
<1>1. ASSUME NEW x \in Importers
      PROVE  RequestInv(x)' /\ ObjectInv(x)' /\ SeenInv(x)' /\ CallInv(x)'
  <2>1. /\ size \in Nat /\ puts[x] \in 0..size /\ intent[x].cursor + 1 \in Ordinals
        /\ RequestInv(x) /\ ObjectInv(x) /\ SeenInv(x) /\ CallInv(x)
    BY TypeFacts
  <2>2. Rests(x)
    BY DEF Rests, importerVars
  <2>3. Ages(x)
    BY <2>2, RestingAges
  <2>4. KeepsTrack(x)
    BY DEF KeepsTrack
  <2>5. intent' = intent /\ lease' = lease /\ calls' = calls
    OBVIOUS
  <2>6. RequestInv(x)'
    BY <2>1, <2>2, <2>5, RequestKeeps DEF RequestInv
  <2>7. ObjectInv(x)'
    BY <2>1, <2>2, ObjectsKeep
  <2>8. SeenInv(x)'
    BY <2>1, <2>3, <2>4, <2>5, SeenKeeps DEF SeenInv
  <2>9. CallInv(x)'
    BY <2>1, <2>3, <2>5, CallKeeps DEF CallInv
  <2> QED BY <2>6, <2>7, <2>8, <2>9
<1> QED BY <1>1 DEF ImportInv

(* The outbox fences what it is going to delete, unless it has become the
   message's. *)
LEMMA ClaimDeletionStep ==
  ASSUME ImportInv, size' = size, NEW o \in Objects, ClaimDeletion(o)
  PROVE  ImportInv'
<1>1. /\ UNCHANGED <<intent, lease, calls, importerVars, mail, stored>>
      /\ rows' = rows \ {o} /\ o \in rows
      /\ IF o \in Owned THEN UNCHANGED <<deleting, fenced>>
         ELSE deleting' = deleting \cup {o} /\ fenced' = fenced \cup {o}
  BY DEF ClaimDeletion, mboxVars, intentVars
<1>2. ImportTypeOK' /\ deleting' \subseteq fenced'
  <2>1. Objects' = Objects /\ Ordinals' = Ordinals /\ Intents' = Intents
    BY DEF Objects, Ordinals, Intents, Sealed
  <2>2. ImportTypeOK /\ deleting \subseteq fenced
    BY DEF ImportInv
  <2>3. UNCHANGED <<size, mail, claim, live, intent, lease, leaseOver, calls, stored, ipc,
                    puts, sealed, late, ifails>>
    BY DEF ClaimDeletion, mboxVars, intentVars, importerVars
  <2> QED BY <1>1, <2>1, <2>2, <2>3 DEF ImportTypeOK
<1>3. ASSUME NEW x \in Importers, NEW i \in Ordinals
      PROVE  /\ <<x, i>> \in stored' => <<x, i>> \in stored
             /\ <<x, i>> \in stored \cup fenced => <<x, i>> \in stored' \cup fenced'
             /\ x \in mail' /\ <<x, i>> \in stored \ fenced => <<x, i>> \in stored' \ fenced'
             /\ Tracked(<<x, i>>) => Tracked(<<x, i>>)'
  <2>1. <<x, i>> \in Owned <=> x \in mail
    BY ObjectFacts
  <2> QED BY <1>1, <2>1, TrackFacts, TrackFactsNext
<1> QED BY <1>1, <1>2, <1>3, OutboxStep

(* The bucket deletes what is fenced. *)
LEMMA DeleteObjectStep ==
  ASSUME ImportInv, size' = size, NEW o \in Objects, DeleteObject(o)
  PROVE  ImportInv'
<1>1. /\ UNCHANGED <<intent, lease, calls, importerVars, mail, rows, fenced>>
      /\ o \in deleting /\ deleting' = deleting \ {o} /\ stored' = stored \ {o}
  BY DEF DeleteObject, mboxVars, intentVars
<1>2. ImportTypeOK' /\ deleting' \subseteq fenced'
  <2>1. Objects' = Objects /\ Ordinals' = Ordinals /\ Intents' = Intents
    BY DEF Objects, Ordinals, Intents, Sealed
  <2>2. ImportTypeOK /\ deleting \subseteq fenced
    BY DEF ImportInv
  <2>3. UNCHANGED <<size, mail, claim, live, intent, lease, leaseOver, calls, rows, fenced,
                    ipc, puts, sealed, late, ifails>>
    BY DEF DeleteObject, mboxVars, intentVars, importerVars
  <2> QED BY <1>1, <2>1, <2>2, <2>3 DEF ImportTypeOK
<1>3. o \in fenced
  BY <1>1 DEF ImportInv
<1>4. ASSUME NEW x \in Importers, NEW i \in Ordinals
      PROVE  /\ <<x, i>> \in stored' => <<x, i>> \in stored
             /\ <<x, i>> \in stored \cup fenced => <<x, i>> \in stored' \cup fenced'
             /\ x \in mail' /\ <<x, i>> \in stored \ fenced => <<x, i>> \in stored' \ fenced'
             /\ Tracked(<<x, i>>) => Tracked(<<x, i>>)'
  BY <1>1, <1>3, TrackFacts, TrackFactsNext
<1> QED BY <1>1, <1>2, <1>4, OutboxStep

(* The objects of a message that is deleted go to the outbox. *)
LEMMA DeleteEmailStep ==
  ASSUME ImportInv, size' = size, DeleteEmail
  PROVE  ImportInv'
<1>1. /\ UNCHANGED <<intent, lease, calls, importerVars, deleting, fenced, stored>>
      /\ mail' = {} /\ rows' = rows \cup Owned
  BY DEF DeleteEmail, intentVars
<1>2. ImportTypeOK' /\ deleting' \subseteq fenced'
  <2>1. Objects' = Objects /\ Ordinals' = Ordinals /\ Intents' = Intents
    BY DEF Objects, Ordinals, Intents, Sealed
  <2>2. ImportTypeOK /\ deleting \subseteq fenced
    BY DEF ImportInv
  <2>3. UNCHANGED <<size, claim, live, intent, lease, leaseOver, calls, deleting, fenced,
                    stored, ipc, puts, sealed, late, ifails>>
    BY DEF DeleteEmail, intentVars, importerVars
  <2>4. Owned \subseteq Objects
    BY <2>2 DEF Owned, ObjectsOf, Objects, ImportTypeOK
  <2> QED BY <1>1, <2>1, <2>2, <2>3, <2>4 DEF ImportTypeOK
<1>3. ASSUME NEW x \in Importers, NEW i \in Ordinals
      PROVE  /\ <<x, i>> \in stored' => <<x, i>> \in stored
             /\ <<x, i>> \in stored \cup fenced => <<x, i>> \in stored' \cup fenced'
             /\ x \in mail' /\ <<x, i>> \in stored \ fenced => <<x, i>> \in stored' \ fenced'
             /\ Tracked(<<x, i>>) => Tracked(<<x, i>>)'
  <2>1. <<x, i>> \in Owned <=> x \in mail
    BY ObjectFacts
  <2> QED BY <1>1, <2>1, TrackFacts, TrackFactsNext
<1> QED BY <1>1, <1>2, <1>3, OutboxStep

(* A claim that expires is still the message's claim. *)
LEMMA ClaimExpiresStep ==
  ASSUME ImportInv, size' = size, ClaimExpires
  PROVE  ImportInv'
<1>1. /\ UNCHANGED <<intent, lease, leaseOver, calls, importerVars, rows, deleting, fenced,
                     stored, mail, claim>>
      /\ live' = FALSE /\ (ifails' = ifails \/ (ifails < MaxImportFails /\ ifails' = ifails + 1))
  BY DEF ClaimExpires, intentVars, r2Vars, NoFault, Fault
<1>2. ImportTypeOK' /\ deleting' \subseteq fenced'
  <2>1. Objects' = Objects /\ Ordinals' = Ordinals /\ Intents' = Intents
    BY DEF Objects, Ordinals, Intents, Sealed
  <2>2. ImportTypeOK /\ deleting \subseteq fenced
    BY DEF ImportInv
  <2>3. ifails' \in 0..MaxImportFails
    BY <1>1, <2>2, ImportAssumption DEF ImportTypeOK
  <2> HIDE DEF IPCs
  <2> QED BY <1>1, <2>1, <2>2, <2>3 DEF ImportTypeOK, importerVars
<1>3. ASSUME NEW x \in Importers, NEW i \in Ordinals
      PROVE  Tracked(<<x, i>>) => Tracked(<<x, i>>)'
  BY <1>1, TrackFacts, TrackFactsNext
<1> QED BY <1>1, <1>2, <1>3, OutboxStep

-----------------------------------------------------------------------------
(* Claims that are given up                                                *)

\* The intent of a claim that may have been given up.
MayBeGiven(x) ==
  \/ intent'[x] = intent[x] /\ lease'[x] = lease[x]
  \/ /\ intent'[x] = Given(intent[x])
     /\ lease'[x] = IF intent[x].state \in Sealed THEN "none" ELSE lease[x]

(* The intent of a claim that has expired keeps what was seen, or was not sealed
   and is forgotten: nothing has been put for it. *)
LEMMA GivenKeeps ==
  ASSUME ImportInv, size' = size, NEW x \in Importers, MayBeGiven(x),
         Ages(x), KeepsTrack(x), calls' = calls, x \in mail' => x \in mail
  PROVE  /\ SeenInv(x)' /\ CallInv(x)'
         /\ intent'[x] \in Intents
         /\ intent'[x].closed => intent[x].closed
         /\ Fresh(x) => intent'[x] \in {NoIntent, [NoIntent EXCEPT !.state = "staging"]}
         /\ x \in sealed => intent'[x].state \in Sealed \cup {"finalized"}
<1>1. /\ size \in Nat /\ intent[x] \in Intents /\ intent[x].cursor + 1 \in Ordinals
      /\ RequestInv(x) /\ SeenInv(x) /\ CallInv(x) /\ size >= 1
  BY TypeFacts
<1>2. \A a \in {"own", "alarm"} : calls'[x][a] = calls[x][a]
  OBVIOUS
<1>3. CASE intent'[x] = intent[x] /\ lease'[x] = lease[x]
  <2>1. SeenInv(x)'
    BY <1>1, <1>3, SeenKeeps DEF SeenInv
  <2>2. CallInv(x)'
    BY <1>1, <1>2, <1>3, CallKeeps DEF CallInv
  <2> QED BY <1>1, <1>3, <2>1, <2>2 DEF RequestInv
<1>4. CASE /\ intent'[x] = Given(intent[x]) /\ intent[x].state \in Sealed
           /\ lease'[x] = "none"
  <2>1. intent'[x] = [intent[x] EXCEPT !.state = "abandoned_watching"]
    BY <1>4 DEF Given
  <2>2. /\ intent'[x] \in Intents /\ intent'[x].state = "abandoned_watching"
        /\ intent'[x].closed = intent[x].closed /\ intent'[x].phase = intent[x].phase
        /\ intent'[x].cursor = intent[x].cursor /\ intent'[x].seen = intent[x].seen
    BY <1>1, <2>1 DEF Intents, Sealed
  <2>3. SeenInv(x)'
    BY <1>1, <2>2, SeenKeeps
  <2>4. CallInv(x)'
    BY <1>1, <1>2, <1>4, CallKeeps
  <2>5. ~Fresh(x)
    BY <1>1, <1>4 DEF RequestInv, NoIntent, Sealed
  <2> QED BY <2>2, <2>3, <2>4, <2>5 DEF Sealed
<1>5. CASE /\ intent'[x] = Given(intent[x]) /\ intent[x].state \notin Sealed
           /\ lease'[x] = lease[x]
  <2>1. lease'[x] = "none"
    BY <1>1, <1>5 DEF CallInv, Sealed
  <2>2. CallInv(x)'
    BY <1>1, <1>2, <2>1, CallKeeps
  <2>3. CASE intent[x].state = "staging"
    <3>1. intent'[x] = NoIntent
      BY <1>5, <2>3 DEF Given
    <3>2. NoIntent \in Intents
      <4>1. 0 \in 0..(size - 1)
        BY <1>1
      <4>2. [i \in Ordinals |-> "unseen"] \in
              [Ordinals -> {"unseen", "authoritative", "unowned_present", "absent"}]
        OBVIOUS
      <4> HIDE DEF Ordinals
      <4> QED BY <4>1, <4>2 DEF NoIntent, Intents
    <3>3. SeenInv(x)'
      BY <1>1, <3>1, BlankSeen DEF Blank
    <3>4. x \notin sealed
      BY <1>1, <2>3 DEF RequestInv, Sealed
    <3>5. ~NoIntent.closed
      BY DEF NoIntent
    <3> QED BY <2>2, <3>1, <3>2, <3>3, <3>4, <3>5
  <2>4. CASE intent[x].state # "staging"
    <3>1. intent'[x] = intent[x]
      BY <1>5, <2>4 DEF Given
    <3>2. SeenInv(x)'
      BY <1>1, <3>1, SeenKeeps DEF SeenInv
    <3> QED BY <1>1, <2>2, <3>1, <3>2 DEF RequestInv
  <2> QED BY <2>3, <2>4
<1> QED BY <1>3, <1>4, <1>5 DEF MayBeGiven

(* What Abandon does to one intent. *)
LEMMA AbandonGives ==
  ASSUME ImportInv, NEW ws \in SUBSET Importers, Abandon(ws)
  PROVE  /\ \A x \in Importers : MayBeGiven(x)
         /\ leaseOver' \subseteq Importers
         /\ lease' \in [Importers -> {"none", "own", "alarm"}]
         /\ DOMAIN intent' = Importers /\ intent' = [x \in Importers |-> intent'[x]]
<1>1. /\ lease \in [Importers -> {"none", "own", "alarm"}] /\ leaseOver \subseteq Importers
  BY DEF ImportInv, ImportTypeOK
<1> QED BY <1>1 DEF Abandon, MayBeGiven

(* The sweep gives up the claim that has expired. *)
LEMMA SweepImportClaimsStep ==
  ASSUME ImportInv, size' = size, SweepImportClaims
  PROVE  ImportInv'
<1>1. /\ Abandon(claim) /\ claim' \subseteq claim
      /\ UNCHANGED <<mail, live, calls, r2Vars, importerVars, ifails>>
  BY DEF SweepImportClaims
<1>2. ImportTypeOK /\ deleting \subseteq fenced /\ claim \in SUBSET Importers
  BY DEF ImportInv, ImportTypeOK
<1>3. /\ \A x \in Importers : MayBeGiven(x)
      /\ leaseOver' \subseteq Importers
      /\ lease' \in [Importers -> {"none", "own", "alarm"}]
      /\ intent' = [x \in Importers |-> intent'[x]]
  BY <1>1, <1>2, AbandonGives
<1>4. ASSUME NEW x \in Importers
      PROVE  /\ intent'[x] \in Intents
             /\ RequestInv(x)' /\ ObjectInv(x)' /\ SeenInv(x)' /\ CallInv(x)'
  <2>1. Rests(x) /\ mail' = mail
    BY <1>1 DEF Rests, importerVars
  <2>2. Ages(x)
    BY <2>1, RestingAges
  <2>3. KeepsTrack(x)
    BY <1>1, TrackFacts, TrackFactsNext DEF KeepsTrack, r2Vars
  <2>4. /\ SeenInv(x)' /\ CallInv(x)'
        /\ intent'[x] \in Intents
        /\ intent'[x].closed => intent[x].closed
        /\ Fresh(x) => intent'[x] \in {NoIntent, [NoIntent EXCEPT !.state = "staging"]}
        /\ x \in sealed => intent'[x].state \in Sealed \cup {"finalized"}
    BY <1>1, <1>3, <2>1, <2>2, <2>3, GivenKeeps
  <2>5. size \in Nat /\ puts[x] \in 0..size /\ RequestInv(x) /\ ObjectInv(x)
    BY TypeFacts
  <2>6. RequestInv(x)'
    BY <2>1, <2>4, <2>5, RequestKeeps
  <2>7. ObjectInv(x)'
    BY <1>1, <2>1, <2>5, ObjectsKeep DEF r2Vars
  <2> QED BY <2>4, <2>6, <2>7
<1>5. ImportTypeOK'
  <2>1. Objects' = Objects /\ Ordinals' = Ordinals /\ Intents' = Intents
    BY DEF Objects, Ordinals, Intents, Sealed
  <2>2. intent' \in [Importers -> Intents]
    BY <1>3, <1>4
  <2> HIDE DEF IPCs, Intents, Objects
  <2> QED BY <1>1, <1>2, <1>3, <2>1, <2>2 DEF ImportTypeOK, importerVars, r2Vars
<1>6. deleting' \subseteq fenced'
  BY <1>1, <1>2 DEF r2Vars
<1> QED BY <1>4, <1>5, <1>6 DEF ImportInv

-----------------------------------------------------------------------------
(* Requests                                                                *)

(* A request that is not concerned keeps everything. *)
LEMMA OtherKeeps ==
  ASSUME ImportInv, size' = size, NEW x \in Importers, Rests(x), x \in mail' <=> x \in mail,
         intent'[x] = intent[x], lease'[x] = lease[x],
         \A a \in {"own", "alarm"} : calls'[x][a] = calls[x][a],
         \A i \in Ordinals : /\ <<x, i>> \in stored' <=> <<x, i>> \in stored
                             /\ <<x, i>> \in rows' <=> <<x, i>> \in rows
                             /\ <<x, i>> \in deleting' <=> <<x, i>> \in deleting
                             /\ <<x, i>> \in fenced' <=> <<x, i>> \in fenced
  PROVE  RequestInv(x)' /\ ObjectInv(x)' /\ SeenInv(x)' /\ CallInv(x)'
<1>1. /\ size \in Nat /\ puts[x] \in 0..size /\ intent[x].cursor + 1 \in Ordinals
      /\ RequestInv(x) /\ ObjectInv(x) /\ SeenInv(x) /\ CallInv(x)
  BY TypeFacts
<1>2. Ages(x)
  BY RestingAges
<1>3. KeepsTrack(x)
  BY TrackFacts, TrackFactsNext DEF KeepsTrack
<1>4. RequestInv(x)'
  BY <1>1, RequestKeeps DEF RequestInv
<1>5. ObjectInv(x)'
  BY <1>1, ObjectsKeep
<1>6. SeenInv(x)'
  BY <1>1, <1>2, <1>3, SeenKeeps DEF SeenInv
<1>7. CallInv(x)'
  BY <1>1, <1>2, CallKeeps DEF CallInv
<1> QED BY <1>4, <1>5, <1>6, <1>7

(* A request that moves on, and may remove what it has put. *)
LEMMA RequestStep ==
  ASSUME ImportInv, size' = size, ImportTypeOK', NEW w \in Importers,
         UNCHANGED <<mail, rows, deleting, fenced, lease, calls>>,
         \A x \in Importers \ {w} : Rests(x) /\ intent'[x] = intent[x],
         RequestInv(w)', Ages(w), sealed \subseteq sealed',
         intent'[w] = intent[w] \/ (intent'[w] \in Blank /\ intent[w].state \notin Sealed),
         stored' \subseteq stored,
         \A x \in Importers \ {w} : \A i \in Ordinals :
           <<x, i>> \in stored => <<x, i>> \in stored',
         w \in mail => stored' = stored,
         AtWork(w)' \/ w \in late' =>
           \A i \in 1..puts'[w] : <<w, i>> \in stored' \cup fenced'
  PROVE  ImportInv'
<1>1. \A x \in Importers \ {w} : RequestInv(x)' /\ ObjectInv(x)' /\ SeenInv(x)' /\ CallInv(x)'
  BY OtherKeeps
<1>2. /\ size \in Nat /\ puts[w] \in 0..size /\ intent[w].cursor + 1 \in Ordinals
      /\ RequestInv(w) /\ ObjectInv(w) /\ SeenInv(w) /\ CallInv(w)
  BY TypeFacts
<1>3. Ordinals' = Ordinals /\ ObjectsOf(w)' = ObjectsOf(w)
  BY DEF Ordinals, ObjectsOf
<1>4. ObjectInv(w)'
  <2>1. (w \in mail => IsPast(w) /\ ObjectsOf(w) \subseteq stored \ fenced)'
    <3> SUFFICES ASSUME w \in mail PROVE IsPast(w)' /\ ObjectsOf(w) \subseteq stored' \ fenced'
      BY <1>3
    <3>1. IsPast(w) /\ ObjectsOf(w) \subseteq stored \ fenced
      BY <1>2 DEF ObjectInv
    <3> HIDE DEF IsPast
    <3> QED BY <3>1 DEF Ages
  <2>2. (\A i \in Ordinals : <<w, i>> \in stored => w \in sealed /\ IsPut(w, i))'
    <3> SUFFICES ASSUME NEW i \in Ordinals, <<w, i>> \in stored'
                 PROVE  w \in sealed' /\ IsPut(w, i)'
      BY <1>3
    <3>1. w \in sealed /\ IsPut(w, i)
      BY <1>2 DEF ObjectInv
    <3> HIDE DEF IsPut
    <3> QED BY <3>1 DEF Ages
  <2> HIDE DEF IsPast, IsPut, AtWork, ObjectsOf
  <2> QED BY <2>1, <2>2 DEF ObjectInv
<1>5. SeenInv(w)'
  <2>1. CASE intent'[w] = intent[w]
    <3>1. KeepsTrack(w)
      BY TrackFacts, TrackFactsNext DEF KeepsTrack
    <3> QED BY <1>2, <2>1, <3>1, SeenKeeps DEF SeenInv
  <2>2. CASE intent'[w] \in Blank
    BY <1>2, <2>2, BlankSeen
  <2> QED BY <2>1, <2>2
<1>6. CallInv(w)'
  <2>1. intent'[w] # intent[w] => lease[w] = "none"
    BY <1>2 DEF CallInv, Sealed
  <2>2. lease'[w] # "none" => intent'[w].state = "reconciling"
    BY <1>2, <2>1 DEF CallInv
  <2> QED BY <1>2, <2>1, <2>2, CallKeeps
<1>7. deleting' \subseteq fenced'
  BY DEF ImportInv
<1> QED BY <1>1, <1>2, <1>4, <1>5, <1>6, <1>7 DEF ImportInv

(* What a move of a request leaves as it is. *)
LEMMA OthersRest ==
  ASSUME ImportTypeOK, size' = size, NEW w \in Importers, NEW p \in IPCs, Moves(w, p),
         UNCHANGED <<puts, late>>, sealed \subseteq sealed', sealed' \subseteq sealed \cup {w}
  PROVE  /\ \A x \in Importers \ {w} : Rests(x)
         /\ ipc'[w] = p /\ puts'[w] = puts[w]
         /\ ipc' \in [Importers -> IPCs] /\ sealed' \subseteq Importers
BY DEF ImportTypeOK, Moves, Rests

(* A move that does not make a request younger. *)
LEMMA MovingAges ==
  ASSUME NEW w, size' = size, late' = late, sealed \subseteq sealed', puts'[w] = puts[w],
         ipc'[w] # "claim", AtWork(w)' => AtWork(w),
         IsPast(w) => ipc'[w] \in {"undo", "finalize", "done"}
  PROVE  Ages(w)
BY DEF Ages, IsPast, IsPut, AtWork, Ordinals

(* The bound on failures holds whatever a step does about it. *)
LEMMA FaultTypes ==
  ASSUME ImportTypeOK, NoFault \/ Fault
  PROVE  ifails' \in 0..MaxImportFails
BY ImportAssumption DEF ImportTypeOK, NoFault, Fault

(* The types of what a request may change by moving on. *)
LEMMA RequestTypes ==
  ASSUME ImportTypeOK, size' = size,
         UNCHANGED <<mail, rows, deleting, fenced, lease, leaseOver, calls>>,
         claim' \subseteq claim, live' \in BOOLEAN, intent' \in [Importers -> Intents],
         stored' \subseteq stored, ipc' \in [Importers -> IPCs], puts' = puts,
         sealed' \subseteq Importers, late' \subseteq Objects \cup Importers,
         NoFault \/ Fault
  PROVE  ImportTypeOK'
<1>1. Objects' = Objects /\ Ordinals' = Ordinals /\ Intents' = Intents /\ IPCs' = IPCs
  BY DEF Objects, Ordinals, Intents, Sealed, IPCs
<1>2. ifails' \in 0..MaxImportFails
  BY FaultTypes
<1> HIDE DEF IPCs, Intents, Objects
<1> QED BY <1>1, <1>2 DEF ImportTypeOK

(* With the claim a request goes on; without it it removes what it has put. *)
LEMMA RenewStep ==
  ASSUME ImportInv, size' = size, NEW w \in Importers, Renew(w)
  PROVE  ImportInv'
<1>1. /\ ipc[w] = "renew"
      /\ UNCHANGED <<mail, claim, live, intent, lease, leaseOver, calls, rows, deleting,
                     fenced, puts, sealed, late>>
  BY DEF Renew, mboxVars, intentVars
<1>2. ImportTypeOK /\ RequestInv(w) /\ ObjectInv(w) /\ size \in Nat /\ puts[w] \in 0..size
  BY TypeFacts DEF ImportInv
<1>3. PICK p \in {"begin", "put", "create", "undo"} :
        /\ Moves(w, p) /\ (NoFault \/ Fault)
        /\ p = "begin" => w \notin sealed
        /\ p = "put" => w \in sealed /\ puts[w] < size
        /\ p = "create" => w \in sealed /\ ~(puts[w] < size)
        /\ p # "undo" => stored' = stored
        /\ stored' \in {stored, stored \ ObjectsOf(w)}
  <2>1. CASE LiveClaim(w) /\ NoFault /\ UNCHANGED stored
             /\ Moves(w, IF w \notin sealed THEN "begin"
                         ELSE IF puts[w] < size THEN "put" ELSE "create")
    <3> HIDE DEF Moves, NoFault, Fault, ObjectsOf
    <3> QED BY <2>1
  <2>2. CASE ~LiveClaim(w) /\ DiscardsOf(w) /\ Moves(w, "undo")
    <3> HIDE DEF Moves, NoFault, Fault, ObjectsOf
    <3> QED BY <2>2 DEF DiscardsOf
  <2>3. CASE Fault /\ Moves(w, "undo") /\ UNCHANGED stored
    <3> HIDE DEF Moves, NoFault, Fault, ObjectsOf
    <3> QED BY <2>3
  <2> QED BY <2>1, <2>2, <2>3 DEF Renew
<1>4. /\ \A x \in Importers \ {w} : Rests(x)
      /\ ipc'[w] = p /\ puts'[w] = puts[w]
      /\ ipc' \in [Importers -> IPCs] /\ sealed' \subseteq Importers
  BY <1>1, <1>2, <1>3, OthersRest DEF IPCs
<1>5. Ages(w)
  BY <1>1, <1>3, <1>4, MovingAges DEF AtWork, IsPast
<1>6. stored' \subseteq stored
      /\ \A x \in Importers \ {w} : \A i \in Ordinals : <<x, i>> \in stored => <<x, i>> \in stored'
  BY <1>3, ObjectFacts
<1>7. ImportTypeOK'
  BY <1>1, <1>2, <1>3, <1>4, <1>6, RequestTypes DEF ImportTypeOK
<1>8. RequestInv(w)'
  <2>1. NoIntent' = NoIntent /\ Ordinals' = Ordinals /\ Sealed' = Sealed
    BY DEF NoIntent, Ordinals, Sealed
  <2>2. /\ w \notin late /\ (\A i \in Ordinals : <<w, i>> \notin late)
        /\ ~intent[w].closed
    BY <1>1, <1>2 DEF RequestInv
  <2> HIDE DEF NoIntent, Sealed, Ordinals
  <2> QED BY <1>1, <1>2, <1>3, <1>4, <2>1, <2>2 DEF RequestInv, Fresh
<1>9. w \notin mail
  BY <1>1, <1>2 DEF ObjectInv, IsPast
<1>10. AtWork(w)' \/ w \in late' =>
         \A i \in 1..puts'[w] : <<w, i>> \in stored' \cup fenced'
  <2>1. w \notin late'
    BY <1>1, <1>2 DEF RequestInv
  <2>2. AtWork(w)' => stored' = stored
    BY <1>3, <1>4 DEF AtWork
  <2>3. \A i \in 1..puts[w] : <<w, i>> \in stored \cup fenced
    BY <1>1, <1>2 DEF ObjectInv, AtWork
  <2> QED BY <1>1, <1>4, <2>1, <2>2, <2>3
<1> HIDE DEF Renew, Rests, Moves, RequestInv
<1> QED BY <1>1, <1>4, <1>5, <1>6, <1>7, <1>8, <1>9, <1>10, RequestStep

(* A request gives up before it has done anything, or removes what nobody has. *)
LEMMA UndoStep ==
  ASSUME ImportInv, size' = size, NEW w \in Importers, Undo(w)
  PROVE  ImportInv'
<1>1. /\ ipc[w] = "undo"
      /\ UNCHANGED <<mail, claim, live, intent, lease, leaseOver, calls, rows, deleting,
                     fenced, puts, sealed, late>>
  BY DEF Undo, mboxVars, intentVars
<1>2. ImportTypeOK /\ RequestInv(w)
  BY TypeFacts DEF ImportInv
<1>3. PICK p \in {"finalize", "release"} :
        /\ Moves(w, p) /\ (p = "finalize" <=> w \in sealed)
  BY DEF Undo
<1>4. /\ NoFault \/ Fault
      /\ stored' \in {stored, stored \ ObjectsOf(w)}
      /\ mail # {} => stored' = stored
  BY DEF Undo, DiscardsOf
<1>5. /\ \A x \in Importers \ {w} : Rests(x)
      /\ ipc'[w] = p /\ puts'[w] = puts[w]
      /\ ipc' \in [Importers -> IPCs] /\ sealed' \subseteq Importers
  BY <1>1, <1>2, <1>3, OthersRest DEF IPCs
<1>6. Ages(w)
  BY <1>1, <1>3, <1>5, MovingAges DEF AtWork, IsPast
<1>7. stored' \subseteq stored
      /\ \A x \in Importers \ {w} : \A i \in Ordinals : <<x, i>> \in stored => <<x, i>> \in stored'
  BY <1>4, ObjectFacts
<1>8. ImportTypeOK'
  BY <1>1, <1>2, <1>4, <1>5, <1>7, RequestTypes DEF ImportTypeOK
<1>9. RequestInv(w)' /\ w \notin late
  <2>1. NoIntent' = NoIntent /\ Ordinals' = Ordinals /\ Sealed' = Sealed
    BY DEF NoIntent, Ordinals, Sealed
  <2>2. /\ w \notin late /\ (\A i \in Ordinals : <<w, i>> \notin late)
        /\ ~intent[w].closed
    BY <1>1, <1>2 DEF RequestInv
  <2> HIDE DEF NoIntent, Sealed, Ordinals
  <2> QED BY <1>1, <1>2, <1>3, <1>5, <2>1, <2>2 DEF RequestInv, Fresh
<1>10. ~(AtWork(w)' \/ w \in late')
  BY <1>1, <1>3, <1>5, <1>9 DEF AtWork
<1> HIDE DEF Undo, Rests, Moves, RequestInv
<1> QED BY <1>1, <1>4, <1>5, <1>6, <1>7, <1>8, <1>9, <1>10, RequestStep

(* The finalizer ends; the alarm goes on. *)
LEMMA FinalizeEndsStep ==
  ASSUME ImportInv, size' = size, NEW w \in Importers, FinalizeEnds(w)
  PROVE  ImportInv'
<1>1. /\ ipc[w] = "finalize" /\ Moves(w, "done") /\ NoFault
      /\ UNCHANGED <<mail, claim, live, intent, lease, leaseOver, calls, rows, deleting,
                     fenced, stored, puts, sealed, late>>
  BY DEF FinalizeEnds, mboxVars, intentVars, r2Vars, NoFault
<1>2. ImportTypeOK /\ RequestInv(w)
  BY TypeFacts DEF ImportInv
<1>3. /\ \A x \in Importers \ {w} : Rests(x)
      /\ ipc'[w] = "done" /\ puts'[w] = puts[w]
      /\ ipc' \in [Importers -> IPCs] /\ sealed' \subseteq Importers
  BY <1>1, <1>2, OthersRest DEF IPCs
<1>4. Ages(w)
  BY <1>1, <1>3, MovingAges DEF AtWork, IsPast
<1>5. ImportTypeOK'
  BY <1>1, <1>2, <1>3, RequestTypes DEF ImportTypeOK
<1>6. RequestInv(w)' /\ w \notin late
  <2>1. NoIntent' = NoIntent /\ Ordinals' = Ordinals /\ Sealed' = Sealed
    BY DEF NoIntent, Ordinals, Sealed
  <2>2. w \notin late /\ (\A i \in Ordinals : <<w, i>> \notin late)
    BY <1>1, <1>2 DEF RequestInv
  <2> HIDE DEF NoIntent, Sealed, Ordinals
  <2> QED BY <1>1, <1>2, <1>3, <2>1, <2>2 DEF RequestInv, Fresh
<1>7. ~(AtWork(w)' \/ w \in late')
  BY <1>1, <1>3, <1>6 DEF AtWork
<1> HIDE DEF FinalizeEnds, Rests, Moves, RequestInv
<1> QED BY <1>1, <1>3, <1>4, <1>5, <1>6, <1>7, RequestStep

(* The fields of an intent that says nothing yet. *)
LEMMA BlankFacts ==
  ASSUME ImportInv
  PROVE  /\ Blank \subseteq Intents /\ NoIntent \in Blank
         /\ \A n \in Blank : n.state \in {"none", "staging", "recorded", "abandoned_watching"}
                             /\ ~n.closed
         /\ NoIntent.state = "none"
         /\ [NoIntent EXCEPT !.state = "staging"].state = "staging"
<1>1. size \in Nat /\ size >= 1
  BY TypeFacts
<1>2. 0 \in 0..(size - 1)
  BY <1>1
<1>3. [i \in Ordinals |-> "unseen"] \in
        [Ordinals -> {"unseen", "authoritative", "unowned_present", "absent"}]
  OBVIOUS
<1> HIDE DEF Ordinals
<1>4. NoIntent \in Intents /\ NoIntent.state = "none" /\ ~NoIntent.closed
  BY <1>2, <1>3 DEF NoIntent, Intents
<1>5. \A q \in {"staging", "recorded", "abandoned_watching"} :
        /\ [NoIntent EXCEPT !.state = q].state = q
        /\ ~[NoIntent EXCEPT !.state = q].closed
        /\ [NoIntent EXCEPT !.state = q] \in Intents
  BY <1>2, <1>3 DEF NoIntent, Intents, Sealed
<1> QED BY <1>4, <1>5 DEF Blank

(* A claim is released unless its intent has been sealed. *)
LEMMA ReleaseStep ==
  ASSUME ImportInv, size' = size, NEW w \in Importers, Release(w)
  PROVE  ImportInv'
<1>1. /\ ipc[w] = "release" /\ Moves(w, "done") /\ (NoFault \/ Fault)
      /\ UNCHANGED <<mail, lease, leaseOver, calls, rows, deleting, fenced, stored, puts,
                     sealed, late>>
  BY DEF Release, r2Vars
<1>2. /\ ImportTypeOK /\ RequestInv(w) /\ intent[w] \in Intents
      /\ intent \in [Importers -> Intents] /\ live \in BOOLEAN
  BY TypeFacts DEF ImportInv, ImportTypeOK
<1>3. \/ UNCHANGED <<intent, claim, live>>
      \/ /\ intent[w].state \notin Sealed \cup {"integrity_blocked"}
         /\ intent' = [intent EXCEPT ![w] = IF @.state = "staging" THEN NoIntent ELSE @]
         /\ claim' = claim \ {w} /\ live' = (live /\ claim # {w})
  BY DEF Release
<1>4. /\ claim' \subseteq claim /\ live' \in BOOLEAN
      /\ \A x \in Importers \ {w} : intent'[x] = intent[x]
      /\ intent'[w] = intent[w] \/ (intent'[w] = NoIntent /\ intent[w].state = "staging")
      /\ intent' \in [Importers -> Intents]
  <2>1. NoIntent \in Intents
    BY BlankFacts
  <2> HIDE DEF NoIntent, Intents, Sealed
  <2>2. CASE UNCHANGED <<intent, claim, live>>
    BY <1>2, <2>2
  <2>3. CASE /\ intent' = [intent EXCEPT ![w] = IF @.state = "staging" THEN NoIntent ELSE @]
             /\ claim' = claim \ {w} /\ live' = (live /\ claim # {w})
    <3>1. live' \in BOOLEAN
      BY <2>3
    <3>2. claim' \subseteq claim
      BY <2>3
    <3> QED BY <1>2, <2>1, <2>3, <3>1, <3>2
  <2> QED BY <1>3, <2>2, <2>3
<1>5. /\ \A x \in Importers \ {w} : Rests(x)
      /\ ipc'[w] = "done" /\ puts'[w] = puts[w]
      /\ ipc' \in [Importers -> IPCs] /\ sealed' \subseteq Importers
  BY <1>1, <1>2, OthersRest DEF IPCs
<1>6. Ages(w)
  BY <1>1, <1>5, MovingAges DEF AtWork, IsPast
<1>7. ImportTypeOK'
  BY <1>1, <1>2, <1>4, <1>5, RequestTypes DEF ImportTypeOK
<1>8. RequestInv(w)' /\ w \notin late
  <2>1. Ordinals' = Ordinals /\ Sealed' = Sealed
    BY DEF Ordinals, Sealed
  <2>2. /\ w \notin late /\ (\A i \in Ordinals : <<w, i>> \notin late)
        /\ ~intent[w].closed
    BY <1>1, <1>2 DEF RequestInv
  <2>3. ~intent'[w].closed
    BY <1>4, <2>2, BlankFacts
  <2>4. ~Fresh(w)'
    BY <1>5 DEF Fresh
  <2>5. w \in sealed' => intent'[w].state \in Sealed \cup {"finalized"}
    <3>1. "staging" \notin Sealed \cup {"finalized"}
      BY DEF Sealed
    <3> QED BY <1>1, <1>2, <1>4, <3>1 DEF RequestInv
  <2> HIDE DEF Fresh, Sealed, Ordinals
  <2> QED BY <1>1, <1>5, <2>1, <2>2, <2>3, <2>4, <2>5 DEF RequestInv
<1>9. ~(AtWork(w)' \/ w \in late')
  BY <1>1, <1>5, <1>8 DEF AtWork
<1>10. intent'[w] = intent[w] \/ (intent'[w] \in Blank /\ intent[w].state \notin Sealed)
  BY <1>4, BlankFacts DEF Sealed
<1> HIDE DEF Release, Rests, Moves, RequestInv
<1> QED BY <1>1, <1>4, <1>5, <1>6, <1>7, <1>8, <1>9, <1>10, RequestStep

(* Where a request that opens or seals its intent stands. *)
LEMMA FreshFacts ==
  ASSUME ImportInv, NEW w \in Importers, ipc[w] \in {"begin", "seal"}
  PROVE  /\ w \notin sealed /\ puts[w] = 0
         /\ intent[w] \in {NoIntent, [NoIntent EXCEPT !.state = "staging"]}
         /\ w \notin late /\ (\A i \in Ordinals : <<w, i>> \notin late)
         /\ ~intent[w].closed /\ w \notin mail
         /\ intent[w].state \in {"none", "staging"} /\ AtWork(w) /\ ~IsPast(w)
<1>1. RequestInv(w) /\ ObjectInv(w)
  BY TypeFacts
<1>2. Fresh(w) /\ AtWork(w) /\ ~IsPast(w)
  BY DEF Fresh, AtWork, IsPast
<1>3. /\ w \notin late /\ (\A i \in Ordinals : <<w, i>> \notin late)
      /\ ~intent[w].closed
  BY <1>1 DEF RequestInv
<1>4. w \notin mail
  BY <1>1, <1>2 DEF ObjectInv
<1>5. /\ w \notin sealed /\ puts[w] = 0
      /\ intent[w] \in {NoIntent, [NoIntent EXCEPT !.state = "staging"]}
  BY <1>1, <1>2 DEF RequestInv
<1> QED BY <1>2, <1>3, <1>4, <1>5, BlankFacts

(* The intent is opened. *)
LEMMA BeginIntentStep ==
  ASSUME ImportInv, size' = size, NEW w \in Importers, BeginIntent(w)
  PROVE  ImportInv'
<1> DEFINE n == [intent[w] EXCEPT !.state = "staging"]
<1>1. /\ ipc[w] = "begin" /\ (NoFault \/ Fault)
      /\ UNCHANGED <<mail, claim, live, lease, leaseOver, calls, rows, deleting, fenced,
                     stored, puts, sealed, late>>
      /\ Moves(w, "seal") \/ Moves(w, "undo")
      /\ intent' = intent \/ intent' = [intent EXCEPT ![w] = n]
  BY DEF BeginIntent, IntentCall, mboxVars, r2Vars
<1>2. ImportTypeOK /\ intent \in [Importers -> Intents]
  BY DEF ImportInv, ImportTypeOK
<1>3. PICK p \in {"seal", "undo"} : Moves(w, p)
  BY <1>1
<1>4. /\ w \notin sealed /\ puts[w] = 0
      /\ intent[w] \in {NoIntent, [NoIntent EXCEPT !.state = "staging"]}
      /\ w \notin late /\ (\A i \in Ordinals : <<w, i>> \notin late)
      /\ ~intent[w].closed /\ w \notin mail
      /\ intent[w].state \in {"none", "staging"} /\ AtWork(w) /\ ~IsPast(w)
  BY <1>1, FreshFacts
<1>5. n = [NoIntent EXCEPT !.state = "staging"]
  BY <1>4 DEF NoIntent
<1>6. n \in Blank /\ n \in Intents /\ ~n.closed
  BY <1>5, BlankFacts DEF Blank
<1> HIDE DEF n
<1>7. /\ \A x \in Importers \ {w} : Rests(x)
      /\ ipc'[w] = p /\ puts'[w] = puts[w]
      /\ ipc' \in [Importers -> IPCs] /\ sealed' \subseteq Importers
  BY <1>1, <1>2, <1>3, OthersRest DEF IPCs
<1>8. Ages(w)
  BY <1>1, <1>3, <1>4, <1>7, MovingAges DEF AtWork
<1>9. /\ \A x \in Importers \ {w} : intent'[x] = intent[x]
      /\ intent'[w] = intent[w] \/ intent'[w] = n
      /\ intent' \in [Importers -> Intents]
  BY <1>1, <1>2, <1>6
<1>10. ImportTypeOK'
  BY <1>1, <1>2, <1>7, <1>9, RequestTypes DEF ImportTypeOK
<1>11. RequestInv(w)'
  <2>1. NoIntent' = NoIntent /\ Ordinals' = Ordinals /\ Sealed' = Sealed
    BY DEF NoIntent, Ordinals, Sealed
  <2>2. intent'[w] \in {NoIntent, [NoIntent EXCEPT !.state = "staging"]}
    BY <1>4, <1>5, <1>9
  <2> HIDE DEF NoIntent, Sealed, Ordinals
  <2> QED BY <1>1, <1>3, <1>4, <1>6, <1>7, <1>9, <2>1, <2>2 DEF RequestInv
<1>12. \A i \in 1..puts'[w] : <<w, i>> \in stored' \cup fenced'
  BY <1>4, <1>7
<1>13. intent'[w] = intent[w] \/ (intent'[w] \in Blank /\ intent[w].state \notin Sealed)
  BY <1>4, <1>6, <1>9 DEF Sealed
<1> HIDE DEF BeginIntent, Rests, Moves, RequestInv
<1> QED BY <1>1, <1>4, <1>7, <1>8, <1>9, <1>10, <1>11, <1>12, <1>13, RequestStep

(* The intent is sealed; its answer may be lost. *)
LEMMA SealIntentStep ==
  ASSUME ImportInv, size' = size, NEW w \in Importers, SealIntent(w)
  PROVE  ImportInv'
<1> DEFINE n == [intent[w] EXCEPT !.state = "recorded"]
<1>1. /\ ipc[w] = "seal" /\ (NoFault \/ Fault)
      /\ UNCHANGED <<mail, claim, live, lease, leaseOver, calls, rows, deleting, fenced,
                     stored, puts, late>>
  BY DEF SealIntent, IntentCall, mboxVars, r2Vars
<1>2. ImportTypeOK /\ intent \in [Importers -> Intents]
  BY DEF ImportInv, ImportTypeOK
<1>3. PICK p \in {"renew", "undo"} :
        /\ Moves(w, p)
        /\ p = "renew" => intent' = [intent EXCEPT ![w] = n]
        /\ intent' = intent \/ intent' = [intent EXCEPT ![w] = n]
  BY DEF SealIntent, IntentCall
<1>4. /\ w \notin sealed /\ puts[w] = 0
      /\ intent[w] \in {NoIntent, [NoIntent EXCEPT !.state = "staging"]}
      /\ w \notin late /\ (\A i \in Ordinals : <<w, i>> \notin late)
      /\ ~intent[w].closed /\ w \notin mail
      /\ intent[w].state \in {"none", "staging"} /\ AtWork(w) /\ ~IsPast(w)
  BY <1>1, FreshFacts
<1>5. n = [NoIntent EXCEPT !.state = "recorded"]
  BY <1>4 DEF NoIntent
<1>6. n \in Blank /\ n \in Intents /\ ~n.closed /\ n.state \in Sealed
  <2>1. n \in Blank /\ n \in Intents /\ ~n.closed
    BY <1>5, BlankFacts DEF Blank
  <2>2. n.state = "recorded"
    BY <1>5 DEF NoIntent
  <2> QED BY <2>1, <2>2 DEF Sealed
<1> HIDE DEF n
<1>7. ipc'[w] = p
  BY <1>2, <1>3 DEF Moves, ImportTypeOK
<1>8. sealed' = IF p = "renew" THEN sealed \cup {w} ELSE sealed
  BY <1>7 DEF SealIntent
<1>9. /\ \A x \in Importers \ {w} : Rests(x)
      /\ ipc'[w] = p /\ puts'[w] = puts[w]
      /\ ipc' \in [Importers -> IPCs] /\ sealed' \subseteq Importers
  BY <1>1, <1>2, <1>3, <1>8, OthersRest DEF IPCs
<1>10. Ages(w)
  BY <1>1, <1>3, <1>4, <1>8, <1>9, MovingAges DEF AtWork
<1>11. /\ \A x \in Importers \ {w} : intent'[x] = intent[x]
       /\ intent'[w] = intent[w] \/ intent'[w] = n
       /\ p = "renew" => intent'[w] = n
       /\ intent' \in [Importers -> Intents]
  BY <1>2, <1>3, <1>6
<1>12. ImportTypeOK'
  BY <1>1, <1>2, <1>9, <1>11, RequestTypes DEF ImportTypeOK
<1>13. RequestInv(w)'
  <2>1. Ordinals' = Ordinals /\ Sealed' = Sealed
    BY DEF Ordinals, Sealed
  <2>2. ~Fresh(w)'
    BY <1>3, <1>8, <1>9 DEF Fresh
  <2> HIDE DEF Fresh, Sealed, Ordinals
  <2> QED BY <1>1, <1>3, <1>4, <1>6, <1>8, <1>9, <1>11, <2>1, <2>2 DEF RequestInv
<1>14. \A i \in 1..puts'[w] : <<w, i>> \in stored' \cup fenced'
  BY <1>4, <1>9
<1>15. intent'[w] = intent[w] \/ (intent'[w] \in Blank /\ intent[w].state \notin Sealed)
  BY <1>4, <1>6, <1>11 DEF Sealed
<1>16. sealed \subseteq sealed'
  BY <1>8
<1> HIDE DEF SealIntent, Rests, Moves, RequestInv
<1> QED BY <1>1, <1>4, <1>9, <1>10, <1>11, <1>12, <1>13, <1>14, <1>15, <1>16, RequestStep

(* A request that is lost leaves its call to happen later. *)
LEMMA LostStep ==
  ASSUME ImportInv, size' = size, NEW w \in Importers, ImporterLost(w)
  PROVE  ImportInv'
<1>1. /\ ipc[w] \notin {"claim", "done"} /\ Moves(w, "done") /\ Fault
      /\ UNCHANGED <<mail, claim, live, intent, lease, leaseOver, calls, rows, deleting,
                     fenced, stored, puts, sealed>>
      /\ \/ late' = late
         \/ ipc[w] = "put" /\ late' = late \cup {<<w, puts[w] + 1>>}
         \/ ipc[w] = "create" /\ late' = late \cup {w}
  BY DEF ImporterLost, mboxVars, intentVars, r2Vars
<1>2. ImportTypeOK /\ RequestInv(w) /\ ObjectInv(w) /\ size \in Nat /\ puts[w] \in 0..size
  BY TypeFacts DEF ImportInv
<1>3. /\ w \notin late /\ (\A i \in Ordinals : <<w, i>> \notin late)
      /\ ipc[w] = "put" => w \in sealed /\ puts[w] + 1 \in Ordinals
      /\ ipc[w] = "create" => w \in sealed /\ puts[w] = size
      /\ ipc[w] # "finalize" => ~intent[w].closed
  BY <1>1, <1>2 DEF RequestInv, Ordinals
<1>4. /\ ipc'[w] = "done" /\ ipc' \in [Importers -> IPCs] /\ puts'[w] = puts[w]
      /\ \A x \in Importers \ {w} : ipc'[x] = ipc[x]
  BY <1>1, <1>2 DEF Moves, ImportTypeOK, IPCs
<1>5. \A x \in Importers : \A i \in Ordinals : w # <<x, i>>
  BY <1>2, ImportAssumption DEF ImportTypeOK, Ordinals
<1>6. \A x \in Importers, y \in Importers : \A i \in Ordinals : x # <<y, i>>
  BY <1>2, ImportAssumption DEF ImportTypeOK, Ordinals
<1>7. \A x \in Importers \ {w} : Rests(x)
  <2>1. \A x \in Importers \ {w} : x \in late' <=> x \in late
    BY <1>1, <1>3, <1>6
  <2>2. \A x \in Importers \ {w} : \A i \in Ordinals : <<x, i>> \in late' <=> <<x, i>> \in late
    BY <1>1, <1>5
  <2> QED BY <1>1, <1>4, <2>1, <2>2 DEF Rests
<1>8. late' \subseteq Objects \cup Importers
  BY <1>1, <1>2, <1>3 DEF ImportTypeOK, Objects
<1>9. ImportTypeOK'
  BY <1>1, <1>2, <1>4, <1>8, RequestTypes DEF ImportTypeOK
<1>10. /\ w \in late' => ipc[w] = "create"
       /\ \A i \in Ordinals : <<w, i>> \in late' => ipc[w] = "put" /\ i = puts[w] + 1
  BY <1>1, <1>3, <1>5, <1>6
<1>11. Ages(w)
  <2>1. IsPast(w) => IsPast(w)'
    BY <1>1, <1>4, <1>10 DEF IsPast, Ordinals
  <2>2. ASSUME NEW i \in Ordinals, IsPut(w, i) PROVE IsPut(w, i)'
    <3>1. ~AtWork(w)' /\ ipc'[w] # "claim"
      BY <1>4 DEF AtWork
    <3>2. <<w, i>> \notin late'
      BY <1>2, <1>10, <2>2 DEF IsPut, AtWork, Ordinals
    <3> QED BY <3>1, <3>2 DEF IsPut
  <2> HIDE DEF IsPast, IsPut
  <2> QED BY <2>1, <2>2 DEF Ages
<1>12. RequestInv(w)'
  <2>1. NoIntent' = NoIntent /\ Ordinals' = Ordinals /\ Sealed' = Sealed
    BY DEF NoIntent, Ordinals, Sealed
  <2>2. ~Fresh(w)'
    BY <1>4 DEF Fresh
  <2> HIDE DEF NoIntent, Sealed, Ordinals, Fresh
  <2> QED BY <1>1, <1>2, <1>3, <1>4, <1>10, <2>1, <2>2 DEF RequestInv
<1>13. AtWork(w)' \/ w \in late' => \A i \in 1..puts'[w] : <<w, i>> \in stored' \cup fenced'
  <2>1. ~AtWork(w)'
    BY <1>4 DEF AtWork
  <2>2. ipc[w] = "create" => AtWork(w)
    BY DEF AtWork
  <2> HIDE DEF AtWork
  <2> QED BY <1>1, <1>2, <1>4, <1>10, <2>1, <2>2 DEF ObjectInv
<1> HIDE DEF ImporterLost, Rests, Moves, RequestInv
<1> QED BY <1>1, <1>7, <1>9, <1>11, <1>12, <1>13, RequestStep

(* A claim takes the message over from one that has expired, or is refused. *)
LEMMA ClaimStep ==
  ASSUME ImportInv, size' = size, NEW w \in Importers, ClaimImportedEmail(w)
  PROVE  ImportInv'
<1>1. /\ ipc[w] = "claim"
      /\ UNCHANGED <<mail, calls, rows, deleting, fenced, stored, puts, sealed, late, ifails>>
  BY DEF ClaimImportedEmail, r2Vars
<1>2. /\ ImportTypeOK /\ intent \in [Importers -> Intents] /\ claim \in SUBSET Importers
      /\ lease \in [Importers -> {"none", "own", "alarm"}] /\ leaseOver \subseteq Importers
      /\ live \in BOOLEAN /\ deleting \subseteq fenced
  BY DEF ImportInv, ImportTypeOK
<1>3. PICK p \in {"done", "renew"} :
        /\ Moves(w, p)
        /\ \/ UNCHANGED <<claim, live, intentVars>>
           \/ /\ intent' = [x \in Importers |->
                    IF x \in claim /\ intent[x].state = "staging" THEN NoIntent ELSE intent[x]]
              /\ claim' = {} /\ live' = FALSE /\ UNCHANGED <<lease, leaseOver>>
           \/ Abandon(claim) /\ claim' = {w} /\ live' = TRUE
  BY DEF ClaimImportedEmail, ClaimOf
<1>4. /\ \A x \in Importers : MayBeGiven(x)
      /\ leaseOver' \subseteq Importers
      /\ lease' \in [Importers -> {"none", "own", "alarm"}]
      /\ intent' = [x \in Importers |-> intent'[x]]
      /\ live' \in BOOLEAN
      /\ claim' \subseteq Importers /\ \A x, y \in claim' : x = y
  <2>1. CASE UNCHANGED <<claim, live, intentVars>>
    <3>1. intent' = intent /\ lease' = lease /\ leaseOver' = leaseOver
      BY <2>1 DEF intentVars
    <3> QED BY <1>2, <2>1, <3>1 DEF MayBeGiven, ImportTypeOK
  <2>2. CASE /\ intent' = [x \in Importers |->
                  IF x \in claim /\ intent[x].state = "staging" THEN NoIntent ELSE intent[x]]
             /\ claim' = {} /\ live' = FALSE /\ UNCHANGED <<lease, leaseOver>>
    <3>1. ASSUME NEW x \in Importers PROVE MayBeGiven(x)
      <4>1. CASE x \in claim /\ intent[x].state = "staging"
        <5>1. intent'[x] = NoIntent /\ lease'[x] = lease[x]
          BY <2>2, <4>1
        <5>2. intent[x].state \notin Sealed
          BY <4>1 DEF Sealed
        <5> QED BY <4>1, <5>1, <5>2 DEF MayBeGiven, Given
      <4>2. CASE ~(x \in claim /\ intent[x].state = "staging")
        <5>1. intent'[x] = intent[x] /\ lease'[x] = lease[x]
          BY <2>2, <4>2
        <5> QED BY <5>1 DEF MayBeGiven
      <4> QED BY <4>1, <4>2
    <3>2. intent' = [x \in Importers |-> intent'[x]]
      BY <2>2
    <3> HIDE DEF MayBeGiven
    <3> QED BY <1>2, <2>2, <3>1, <3>2
  <2>3. CASE Abandon(claim) /\ claim' = {w} /\ live' = TRUE
    <3>1. /\ \A x \in Importers : MayBeGiven(x)
          /\ leaseOver' \subseteq Importers
          /\ lease' \in [Importers -> {"none", "own", "alarm"}]
          /\ intent' = [x \in Importers |-> intent'[x]]
      BY <1>2, <2>3, AbandonGives
    <3> HIDE DEF MayBeGiven, Abandon
    <3> QED BY <2>3, <3>1
  <2> HIDE DEF MayBeGiven, Abandon, NoIntent
  <2> QED BY <1>3, <2>1, <2>2, <2>3
<1>5. /\ \A x \in Importers \ {w} : Rests(x)
      /\ ipc'[w] = p /\ puts'[w] = puts[w]
      /\ ipc' \in [Importers -> IPCs]
  BY <1>1, <1>2, <1>3, OthersRest DEF IPCs
<1>6. /\ RequestInv(w) /\ ObjectInv(w) /\ size \in Nat
      /\ w \notin sealed /\ puts[w] = 0 /\ w \notin late /\ ~intent[w].closed
      /\ w \notin mail
      /\ \A i \in Ordinals : <<w, i>> \notin late /\ <<w, i>> \notin stored
  <2>1. RequestInv(w) /\ ObjectInv(w) /\ size \in Nat /\ Fresh(w) /\ ~IsPast(w)
    BY <1>1, TypeFacts DEF Fresh, IsPast
  <2> HIDE DEF Fresh, IsPast, IsPut
  <2> QED BY <1>1, <2>1 DEF RequestInv, ObjectInv
<1>7. \A x \in Importers : Ages(x)
  <2>1. Ages(w)
    <3>1. ~IsPast(w)
      BY <1>1 DEF IsPast
    <3>2. \A i \in Ordinals : ~IsPut(w, i)
      BY <1>1, <1>6 DEF IsPut, Ordinals
    <3> HIDE DEF IsPast, IsPut
    <3> QED BY <3>1, <3>2 DEF Ages
  <2> QED BY <1>5, <2>1, RestingAges
<1>8. \A x \in Importers : KeepsTrack(x)
  BY <1>1, TrackFacts, TrackFactsNext DEF KeepsTrack
<1>9. ASSUME NEW x \in Importers
      PROVE  /\ SeenInv(x)' /\ CallInv(x)'
             /\ intent'[x] \in Intents
             /\ intent'[x].closed => intent[x].closed
             /\ Fresh(x) => intent'[x] \in {NoIntent, [NoIntent EXCEPT !.state = "staging"]}
             /\ x \in sealed => intent'[x].state \in Sealed \cup {"finalized"}
  BY <1>1, <1>4, <1>7, <1>8, GivenKeeps
<1>10. RequestInv(w)' /\ ObjectInv(w)'
  <2>1. NoIntent' = NoIntent /\ Ordinals' = Ordinals /\ Sealed' = Sealed
    BY DEF NoIntent, Ordinals, Sealed
  <2>2. Fresh(w)
    BY <1>1 DEF Fresh
  <2>3. intent'[w] \in {NoIntent, [NoIntent EXCEPT !.state = "staging"]}
    BY <1>9, <2>2
  <2>4. RequestInv(w)'
    <3> HIDE DEF NoIntent, Sealed, Ordinals
    <3> QED BY <1>1, <1>3, <1>5, <1>6, <1>9, <2>1, <2>3 DEF RequestInv
  <2>5. ObjectInv(w)'
    <3>1. \A i \in 1..puts'[w] : <<w, i>> \in stored' \cup fenced'
      BY <1>5, <1>6
    <3> HIDE DEF IsPast, IsPut, AtWork
    <3> QED BY <1>1, <1>6, <2>1, <3>1 DEF ObjectInv
  <2> QED BY <2>4, <2>5
<1>11. ASSUME NEW x \in Importers \ {w} PROVE RequestInv(x)' /\ ObjectInv(x)'
  <2>1. RequestInv(x) /\ ObjectInv(x) /\ size \in Nat /\ puts[x] \in 0..size
    BY TypeFacts
  <2>2. RequestInv(x)'
    BY <1>5, <1>9, <2>1, RequestKeeps
  <2>3. ObjectInv(x)'
    BY <1>1, <1>5, <2>1, ObjectsKeep
  <2> QED BY <2>2, <2>3
<1>12. ImportTypeOK'
  <2>1. Objects' = Objects /\ Ordinals' = Ordinals /\ Intents' = Intents /\ IPCs' = IPCs
    BY DEF Objects, Ordinals, Intents, Sealed, IPCs
  <2>2. intent' \in [Importers -> Intents]
    BY <1>4, <1>9
  <2> HIDE DEF IPCs, Intents, Objects
  <2> QED BY <1>1, <1>2, <1>4, <1>5, <2>1, <2>2 DEF ImportTypeOK
<1>13. deleting' \subseteq fenced'
  BY <1>1, <1>2
<1> QED BY <1>9, <1>10, <1>11, <1>12, <1>13 DEF ImportInv

-----------------------------------------------------------------------------
(* Objects that are put                                                    *)

(* An object that is put for the first time, by its request or late. *)
LEMMA PutStep ==
  ASSUME ImportInv, size' = size, ImportTypeOK', NEW w \in Importers, NEW n \in Ordinals,
         UNCHANGED <<mail, intent, lease, calls, rows, deleting, fenced, sealed>>,
         \A x \in Importers \ {w} : Rests(x),
         stored' \in {stored, stored \cup {<<w, n>>}},
         ~IsPut(w, n), w \in sealed, w \notin mail, IsPut(w, n)',
         RequestInv(w)', Ages(w),
         AtWork(w)' \/ w \in late' =>
           /\ AtWork(w) \/ w \in late
           /\ \A i \in 1..puts'[w] : i \in 1..puts[w] \/ (i = n /\ <<w, n>> \in stored')
  PROVE  ImportInv'
<1>1. \A x \in Importers \ {w} : RequestInv(x)' /\ ObjectInv(x)' /\ SeenInv(x)' /\ CallInv(x)'
  BY OtherKeeps
<1>2. /\ size \in Nat /\ puts[w] \in 0..size /\ intent[w].cursor + 1 \in Ordinals
      /\ RequestInv(w) /\ ObjectInv(w) /\ SeenInv(w) /\ CallInv(w)
  BY TypeFacts
<1>3. Ordinals' = Ordinals
  BY DEF Ordinals
<1>4. ObjectInv(w)'
  <2>1. (\A i \in Ordinals : <<w, i>> \in stored => w \in sealed /\ IsPut(w, i))'
    <3> SUFFICES ASSUME NEW i \in Ordinals, <<w, i>> \in stored'
                 PROVE  w \in sealed' /\ IsPut(w, i)'
      BY <1>3
    <3>1. CASE i = n
      BY <3>1
    <3>2. CASE i # n
      <4>1. IsPut(w, i)
        BY <1>2, <3>2 DEF ObjectInv
      <4> HIDE DEF IsPut
      <4> QED BY <4>1 DEF Ages
    <3> QED BY <3>1, <3>2
  <2>2. AtWork(w)' \/ w \in late' => \A i \in 1..puts'[w] : <<w, i>> \in stored' \cup fenced'
    <3>1. AtWork(w) \/ w \in late => \A i \in 1..puts[w] : <<w, i>> \in stored \cup fenced
      BY <1>2 DEF ObjectInv
    <3> HIDE DEF AtWork
    <3> QED BY <3>1
  <2> HIDE DEF IsPast, IsPut, AtWork
  <2> QED BY <2>1, <2>2 DEF ObjectInv
<1>5. KeepsTrack(w)
  <2> SUFFICES ASSUME NEW i \in Ordinals, IsPut(w, i), Tracked(<<w, i>>)
               PROVE  Tracked(<<w, i>>)'
    BY DEF KeepsTrack
  <2>1. i # n
    OBVIOUS
  <2> HIDE DEF IsPut
  <2> QED BY <2>1, TrackFacts, TrackFactsNext
<1>6. SeenInv(w)'
  BY <1>2, <1>5, SeenKeeps DEF SeenInv
<1>7. CallInv(w)'
  BY <1>2, CallKeeps DEF CallInv
<1>8. deleting' \subseteq fenced'
  BY DEF ImportInv
<1> QED BY <1>1, <1>4, <1>6, <1>7, <1>8 DEF ImportInv

(* The bucket's put: its answer may be lost. *)
LEMMA BucketPutStep ==
  ASSUME ImportInv, size' = size, NEW w \in Importers, Put(w)
  PROVE  ImportInv'
<1>0. PICK n : n = puts[w] + 1
  OBVIOUS
<1>1. /\ ipc[w] = "put" /\ (NoFault \/ Fault)
      /\ puts' = [puts EXCEPT ![w] = n]
      /\ stored' \in {stored, stored \cup {<<w, n>>}}
      /\ UNCHANGED <<mail, claim, live, intent, lease, leaseOver, calls, rows, deleting,
                     fenced, sealed, late>>
  BY <1>0 DEF Put, mboxVars, intentVars
<1>2. PICK p \in {"renew", "undo"} :
        Moves(w, p) /\ (p = "renew" => <<w, n>> \in stored')
  BY <1>0 DEF Put
<1>3. ImportTypeOK /\ RequestInv(w) /\ ObjectInv(w) /\ size \in Nat /\ puts[w] \in 0..size
  BY TypeFacts DEF ImportInv
<1>4. /\ w \in sealed /\ puts[w] < size /\ n \in Ordinals /\ w \notin late /\ w \notin mail
      /\ ~intent[w].closed /\ \A i \in Ordinals : <<w, i>> \notin late
  BY <1>1, <1>3, <1>0 DEF RequestInv, ObjectInv, IsPast, Ordinals
<1>5. /\ ipc' \in [Importers -> IPCs] /\ ipc'[w] = p
      /\ puts' \in [Importers -> 0..size] /\ puts'[w] = n
      /\ \A x \in Importers \ {w} : Rests(x)
  BY <1>1, <1>2, <1>3, <1>4 DEF ImportTypeOK, Moves, Rests, Ordinals, IPCs
<1>6. ImportTypeOK'
  <2>1. Objects' = Objects /\ Ordinals' = Ordinals /\ Intents' = Intents /\ IPCs' = IPCs
    BY DEF Objects, Ordinals, Intents, Sealed, IPCs
  <2>2. ifails' \in 0..MaxImportFails
    BY <1>1, <1>3, FaultTypes
  <2>3. stored' \subseteq Objects
    BY <1>1, <1>3, <1>4 DEF ImportTypeOK, Objects
  <2> HIDE DEF IPCs, Intents, Objects
  <2> QED BY <1>1, <1>3, <1>5, <2>1, <2>2, <2>3 DEF ImportTypeOK
<1>7. ~IsPut(w, n) /\ AtWork(w) /\ ~IsPast(w)
  BY <1>1, <1>3, <1>0 DEF IsPut, AtWork, IsPast
<1>8. /\ n \in Nat /\ puts[w] < n /\ Ordinals' = Ordinals
      /\ \A i \in Ordinals : i \in Nat
      /\ \A i \in 1..n : i \in 1..puts[w] \/ i = n
  BY <1>3, <1>0 DEF Ordinals
<1>9. IsPut(w, n)' /\ Ages(w)
  <2>1. ASSUME NEW i \in Ordinals, IsPut(w, i) \/ i = n PROVE IsPut(w, i)'
    <3>1. <<w, i>> \notin late' /\ i \in Nat
      BY <1>1, <1>4, <1>8
    <3>2. i <= n
      BY <1>1, <1>3, <1>8, <1>0, <2>1, <3>1 DEF IsPut, AtWork
    <3> QED BY <1>5, <3>1, <3>2 DEF IsPut
  <2>2. \A i \in Ordinals : IsPut(w, i) \/ i = n => IsPut(w, i)'
    BY <2>1
  <2> HIDE DEF IsPut, IsPast
  <2> QED BY <1>4, <1>7, <2>2 DEF Ages
<1>10. RequestInv(w)'
  <2>1. NoIntent' = NoIntent /\ Sealed' = Sealed
    BY DEF NoIntent, Ordinals, Sealed
  <2>2. ~Fresh(w)'
    BY <1>1, <1>2, <1>4, <1>5 DEF Fresh
  <2> HIDE DEF NoIntent, Sealed, Ordinals, Fresh
  <2> QED BY <1>1, <1>2, <1>3, <1>4, <1>5, <1>8, <2>1, <2>2 DEF RequestInv
<1>11. AtWork(w)' \/ w \in late' =>
         \A i \in 1..puts'[w] : i \in 1..puts[w] \/ (i = n /\ <<w, n>> \in stored')
  <2>1. AtWork(w)' => p = "renew"
    BY <1>2, <1>5 DEF AtWork
  <2> HIDE DEF AtWork
  <2> QED BY <1>1, <1>2, <1>4, <1>5, <1>8, <2>1
<1> HIDE DEF Put, Rests, Moves, RequestInv, IsPut, Ages, AtWork
<1> QED BY <1>1, <1>4, <1>5, <1>6, <1>7, <1>9, <1>10, <1>11, PutStep

(* A put that lands after its request has ended. *)
LEMMA LatePutStep ==
  ASSUME ImportInv, size' = size, NEW o \in Objects, LatePut(o)
  PROVE  ImportInv'
<1>1. PICK w \in Importers, n \in Ordinals : o = <<w, n>>
  BY DEF Objects
<1>2. /\ o \in late /\ late' = late \ {o} /\ stored' = stored \cup {o}
      /\ UNCHANGED <<mail, claim, live, intent, lease, leaseOver, calls, rows, deleting,
                     fenced, ipc, puts, sealed, ifails>>
  BY DEF LatePut, mboxVars, intentVars
<1>3. ImportTypeOK /\ RequestInv(w) /\ ObjectInv(w) /\ size \in Nat /\ puts[w] \in 0..size
  BY TypeFacts DEF ImportInv
<1>4. /\ ipc[w] = "done" /\ w \in sealed /\ w \notin mail
  BY <1>1, <1>2, <1>3 DEF RequestInv, ObjectInv, IsPast
<1>5. \A x \in Importers : \A y \in Importers : \A i \in Ordinals : x # <<y, i>>
  BY <1>3, ImportAssumption DEF ImportTypeOK, Ordinals
<1>6. \A x \in Importers \ {w} : Rests(x)
  BY <1>1, <1>2, <1>5 DEF Rests
<1>7. ImportTypeOK'
  <2>1. Objects' = Objects /\ Ordinals' = Ordinals /\ Intents' = Intents /\ IPCs' = IPCs
    BY DEF Objects, Ordinals, Intents, Sealed, IPCs
  <2> HIDE DEF IPCs, Intents, Objects
  <2> QED BY <1>2, <1>3, <2>1 DEF ImportTypeOK
<1>8. ~IsPut(w, n) /\ IsPut(w, n)' /\ Ages(w) /\ ~AtWork(w)'
  BY <1>1, <1>2, <1>4 DEF IsPut, Ages, IsPast, AtWork, Ordinals
<1>9. RequestInv(w)'
  <2>1. NoIntent' = NoIntent /\ Ordinals' = Ordinals /\ Sealed' = Sealed
    BY DEF NoIntent, Ordinals, Sealed
  <2>2. ~Fresh(w)'
    BY <1>2, <1>4 DEF Fresh
  <2> HIDE DEF NoIntent, Sealed, Ordinals, Fresh
  <2> QED BY <1>1, <1>2, <1>3, <1>4, <1>5, <2>1, <2>2 DEF RequestInv
<1>10. w \in late' => w \in late
  BY <1>2
<1> HIDE DEF LatePut, Rests, RequestInv, IsPut, Ages, AtWork
<1> QED BY <1>1, <1>2, <1>4, <1>6, <1>7, <1>8, <1>9, <1>10, PutStep

-----------------------------------------------------------------------------
(* The projection                                                          *)

(* A message that is projected has its objects: they have been put, and nobody
   was going to delete them. *)
LEMMA ProjectedStep ==
  ASSUME ImportInv, size' = size, NEW w \in Importers,
         ipc[w] = "create" \/ w \in late,
         Commitment(w), Adopts(ObjectsOf(w)), Projected(w),
         UNCHANGED <<claim, live, intent, lease, leaseOver, calls, deleting, fenced, stored,
                     puts, sealed>>,
         ipc' \in [Importers -> IPCs], ipc'[w] \in {"finalize", "undo", "done"},
         w \in late => ipc'[w] = "done",
         \A x \in Importers \ {w} : Rests(x),
         late' \subseteq late, w \notin late', ifails' \in 0..MaxImportFails
  PROVE  ImportInv'
<1>1. /\ ImportTypeOK /\ RequestInv(w) /\ ObjectInv(w) /\ SeenInv(w) /\ CallInv(w)
      /\ size \in Nat /\ puts[w] \in 0..size /\ intent[w].cursor + 1 \in Ordinals
  BY TypeFacts DEF ImportInv
<1>2. Ordinals' = Ordinals /\ ObjectsOf(w)' = ObjectsOf(w)
  BY DEF Ordinals, ObjectsOf
<1>3. /\ w \in sealed /\ puts[w] = size /\ ~IsPast(w) /\ ~intent[w].closed
      /\ intent[w].state = "recorded" /\ (AtWork(w) \/ w \in late)
      /\ \A i \in Ordinals : <<w, i>> \notin late
  <2>1. /\ w \in sealed /\ puts[w] = size /\ ~intent[w].closed
        /\ \A i \in Ordinals : <<w, i>> \in late => i = puts[w] + 1
    BY <1>1 DEF RequestInv
  <2>2. \A i \in Ordinals : <<w, i>> \notin late
    BY <1>1, <2>1 DEF Ordinals
  <2> QED BY <2>1, <2>2 DEF IsPast, AtWork, Commitment
<1>4. ObjectsOf(w) \subseteq stored \ fenced
  <2>1. \A i \in Ordinals : <<w, i>> \in stored \cup fenced
    BY <1>1, <1>3 DEF ObjectInv, Ordinals
  <2>2. \A i \in Ordinals : <<w, i>> \notin fenced
    BY ObjectFacts DEF Adopts
  <2> QED BY <2>1, <2>2 DEF ObjectsOf
<1>5. w \notin mail
  BY <1>1, <1>3 DEF ObjectInv
<1>6. /\ rows' = rows \ ObjectsOf(w)
      /\ mail' = IF mail = {} THEN {w} ELSE mail
  BY DEF Projected
<1>7. \A x \in Importers \ {w} : RequestInv(x)' /\ ObjectInv(x)' /\ SeenInv(x)' /\ CallInv(x)'
  <2> SUFFICES ASSUME NEW x \in Importers \ {w}
               PROVE  RequestInv(x)' /\ ObjectInv(x)' /\ SeenInv(x)' /\ CallInv(x)'
    OBVIOUS
  <2>1. \A i \in Ordinals : <<x, i>> \in rows' <=> <<x, i>> \in rows
    BY <1>6, ObjectFacts
  <2>2. x \in mail' <=> x \in mail
    BY <1>6
  <2> HIDE DEF Projected
  <2> QED BY <2>1, <2>2, OtherKeeps
<1>8. IsPast(w)' /\ ~AtWork(w)'
  BY <1>2, <1>3 DEF IsPast, AtWork
<1>9. Ages(w)
  <2>1. \A i \in Ordinals : IsPut(w, i)'
    BY <1>2, <1>3, <1>8 DEF IsPut, AtWork
  <2> HIDE DEF IsPast, IsPut
  <2> QED BY <1>8, <2>1 DEF Ages
<1>10. RequestInv(w)'
  <2>1. NoIntent' = NoIntent /\ Sealed' = Sealed
    BY DEF NoIntent, Ordinals, Sealed
  <2>2. ~Fresh(w)'
    BY DEF Fresh
  <2> HIDE DEF NoIntent, Sealed, Ordinals, Fresh
  <2> QED BY <1>1, <1>2, <1>3, <2>1, <2>2 DEF RequestInv
<1>11. ObjectInv(w)'
  <2>1. (\A i \in Ordinals : <<w, i>> \in stored => w \in sealed /\ IsPut(w, i))'
    <3> SUFFICES ASSUME NEW i \in Ordinals, <<w, i>> \in stored'
                 PROVE  w \in sealed' /\ IsPut(w, i)'
      BY <1>2
    <3>1. w \in sealed /\ IsPut(w, i)
      BY <1>1 DEF ObjectInv
    <3> HIDE DEF IsPut
    <3> QED BY <1>9, <3>1 DEF Ages
  <2> HIDE DEF IsPast, IsPut, AtWork, ObjectsOf
  <2> QED BY <1>2, <1>4, <1>8, <2>1 DEF ObjectInv
<1>12. SeenInv(w)'
  <2>1. intent[w].phase = "validation" /\ intent[w].state # "finalized"
    BY <1>1, <1>3 DEF SeenInv
  <2> QED BY <1>1, <1>3, <1>9, <2>1, SeenKeeps DEF SeenInv
<1>13. CallInv(w)'
  <2>1. lease[w] = "none"
    BY <1>1, <1>3 DEF CallInv
  <2> QED BY <1>1, <1>9, <2>1, CallKeeps
<1>14. ImportTypeOK' /\ deleting' \subseteq fenced'
  <2>1. Objects' = Objects /\ Intents' = Intents /\ IPCs' = IPCs
    BY DEF Objects, Ordinals, Intents, Sealed, IPCs
  <2>2. mail' \subseteq Importers /\ \A x, y \in mail' : x = y
    BY <1>1, <1>6 DEF ImportTypeOK
  <2>3. rows' \subseteq Objects /\ late' \subseteq Objects \cup Importers
    BY <1>1, <1>6 DEF ImportTypeOK
  <2>4. deleting \subseteq fenced
    BY DEF ImportInv
  <2> HIDE DEF IPCs, Intents, Objects, Projected
  <2> QED BY <1>1, <1>2, <2>1, <2>2, <2>3, <2>4 DEF ImportTypeOK
<1> QED BY <1>7, <1>10, <1>11, <1>12, <1>13, <1>14 DEF ImportInv

(* A projection is made, refused or not answered. *)
LEMMA CreateStep ==
  ASSUME ImportInv, size' = size, NEW w \in Importers, Create(w)
  PROVE  ImportInv'
<1>1. /\ ipc[w] = "create" /\ (NoFault \/ Fault)
      /\ UNCHANGED <<claim, live, intent, lease, leaseOver, calls, deleting, fenced, stored,
                     puts, sealed, late>>
  BY DEF Create, intentVars
<1>2. ImportTypeOK /\ RequestInv(w) /\ ObjectInv(w)
  BY TypeFacts DEF ImportInv
<1>3. PICK p \in {"finalize", "undo"} :
        /\ Moves(w, p)
        /\ \/ Commitment(w) /\ Adopts(ObjectsOf(w)) /\ Projected(w)
           \/ p = "undo" /\ UNCHANGED <<rows, mail>>
  BY DEF Create
<1>4. /\ \A x \in Importers \ {w} : Rests(x)
      /\ ipc'[w] = p /\ puts'[w] = puts[w]
      /\ ipc' \in [Importers -> IPCs] /\ sealed' \subseteq Importers
  BY <1>1, <1>2, <1>3, OthersRest DEF IPCs
<1>5. w \notin late /\ w \notin mail /\ ~intent[w].closed /\ w \in sealed
  BY <1>1, <1>2 DEF RequestInv, ObjectInv, IsPast
<1>6. ifails' \in 0..MaxImportFails
  BY <1>1, <1>2, FaultTypes
<1>7. CASE Commitment(w) /\ Adopts(ObjectsOf(w)) /\ Projected(w)
  <2> HIDE DEF Create, Commitment, Adopts, Projected, Rests
  <2> QED BY <1>1, <1>3, <1>4, <1>5, <1>6, <1>7, ProjectedStep
<1>8. CASE p = "undo" /\ UNCHANGED <<rows, mail>>
  <2>1. Ages(w)
    BY <1>1, <1>4, <1>8, MovingAges DEF AtWork, IsPast
  <2>2. ImportTypeOK'
    BY <1>1, <1>2, <1>4, <1>8, RequestTypes DEF ImportTypeOK
  <2>3. RequestInv(w)'
    <3>1. NoIntent' = NoIntent /\ Ordinals' = Ordinals /\ Sealed' = Sealed
      BY DEF NoIntent, Ordinals, Sealed
    <3>2. ~Fresh(w)' /\ \A i \in Ordinals : <<w, i>> \notin late
      BY <1>1, <1>2, <1>4, <1>8 DEF Fresh, RequestInv
    <3> HIDE DEF NoIntent, Sealed, Ordinals, Fresh
    <3> QED BY <1>1, <1>2, <1>4, <1>5, <1>8, <3>1, <3>2 DEF RequestInv
  <2>4. ~(AtWork(w)' \/ w \in late')
    BY <1>1, <1>4, <1>5, <1>8 DEF AtWork
  <2> HIDE DEF Create, Rests, Moves, RequestInv, AtWork, Ages
  <2> QED BY <1>1, <1>4, <1>5, <1>8, <2>1, <2>2, <2>3, <2>4, RequestStep
<1> QED BY <1>3, <1>7, <1>8

(* A projection that is carried out after its request has ended. *)
LEMMA LateCreateStep ==
  ASSUME ImportInv, size' = size, NEW w \in Importers, LateCreate(w)
  PROVE  ImportInv'
<1>1. /\ w \in late /\ late' = late \ {w}
      /\ UNCHANGED <<claim, live, intent, lease, leaseOver, calls, deleting, fenced, stored,
                     ipc, puts, sealed, ifails>>
      /\ IF Commitment(w) /\ Adopts(ObjectsOf(w)) THEN Projected(w)
         ELSE UNCHANGED <<rows, mail>>
  BY DEF LateCreate, intentVars
<1>2. ImportTypeOK /\ RequestInv(w) /\ ObjectInv(w) /\ size \in Nat
  BY TypeFacts DEF ImportInv
<1>3. ipc[w] = "done" /\ w \in sealed /\ w \notin mail
  BY <1>1, <1>2 DEF RequestInv, ObjectInv, IsPast
<1>4. \A x \in Importers : \A y \in Importers : \A i \in Ordinals : x # <<y, i>>
  BY <1>2, ImportAssumption DEF ImportTypeOK, Ordinals
<1>5. \A x \in Importers \ {w} : Rests(x)
  BY <1>1, <1>4 DEF Rests
<1>6. ipc' \in [Importers -> IPCs] /\ ifails' \in 0..MaxImportFails
  BY <1>1, <1>2 DEF ImportTypeOK
<1>7. CASE Commitment(w) /\ Adopts(ObjectsOf(w)) /\ Projected(w)
  <2> HIDE DEF LateCreate, Commitment, Adopts, Projected, Rests
  <2> QED BY <1>1, <1>3, <1>5, <1>6, <1>7, ProjectedStep
<1>8. CASE UNCHANGED <<rows, mail>>
  <2>1. Ages(w)
    BY <1>1, <1>3, <1>4 DEF Ages, IsPast, IsPut, AtWork, Ordinals
  <2>2. ImportTypeOK'
    BY <1>1, <1>2, <1>6, <1>8, RequestTypes DEF ImportTypeOK, NoFault
  <2>3. RequestInv(w)'
    <3>1. NoIntent' = NoIntent /\ Ordinals' = Ordinals /\ Sealed' = Sealed
      BY DEF NoIntent, Ordinals, Sealed
    <3>2. ~Fresh(w)'
      BY <1>1, <1>3 DEF Fresh
    <3> HIDE DEF NoIntent, Sealed, Ordinals, Fresh
    <3> QED BY <1>1, <1>2, <1>3, <3>1, <3>2 DEF RequestInv
  <2>4. ~(AtWork(w)' \/ w \in late')
    BY <1>1, <1>3 DEF AtWork
  <2> HIDE DEF LateCreate, Rests, RequestInv, AtWork, Ages
  <2> QED BY <1>1, <1>3, <1>5, <1>8, <2>1, <2>2, <2>3, <2>4, RequestStep
<1> QED BY <1>1, <1>7, <1>8

-----------------------------------------------------------------------------
(* The reconciliation                                                      *)

(* A step of a reconciliation, which may put objects of its page in the outbox. *)
LEMMA PageStep ==
  ASSUME ImportInv, size' = size, ImportTypeOK', NEW w \in Importers,
         UNCHANGED <<mail, deleting, fenced, stored, importerVars>>,
         \A x \in Importers \ {w} :
           /\ intent'[x] = intent[x] /\ lease'[x] = lease[x]
           /\ \A a \in {"own", "alarm"} : calls'[x][a] = calls[x][a]
           /\ \A i \in Ordinals : <<x, i>> \in rows' <=> <<x, i>> \in rows,
         RequestInv(w)', SeenInv(w)', CallInv(w)'
  PROVE  ImportInv'
<1>1. \A x \in Importers : Rests(x)
  BY DEF Rests, importerVars
<1>2. \A x \in Importers \ {w} : RequestInv(x)' /\ ObjectInv(x)' /\ SeenInv(x)' /\ CallInv(x)'
  BY <1>1, OtherKeeps
<1>3. size \in Nat /\ puts[w] \in 0..size /\ ObjectInv(w)
  BY TypeFacts
<1>4. ObjectInv(w)'
  BY <1>1, <1>3, ObjectsKeep
<1>5. deleting' \subseteq fenced'
  BY DEF ImportInv
<1> QED BY <1>2, <1>4, <1>5 DEF ImportInv

(* The types of what a reconciliation may change. *)
LEMMA PageTypes ==
  ASSUME ImportTypeOK, size' = size,
         UNCHANGED <<mail, deleting, fenced, stored, importerVars>>,
         claim' \subseteq claim, live' \in BOOLEAN, intent' \in [Importers -> Intents],
         lease' \in [Importers -> {"none", "own", "alarm"}], leaseOver' \subseteq Importers,
         calls' \in [Importers -> [{"own", "alarm"} -> {"none", "head", "present", "missing"}]],
         rows' \subseteq Objects, NoFault \/ Fault
  PROVE  ImportTypeOK'
<1>1. Objects' = Objects /\ Ordinals' = Ordinals /\ Intents' = Intents /\ IPCs' = IPCs
  BY DEF Objects, Ordinals, Intents, Sealed, IPCs
<1>2. ifails' \in 0..MaxImportFails
  BY FaultTypes
<1> HIDE DEF IPCs, Intents, Objects
<1> QED BY <1>1, <1>2 DEF ImportTypeOK, importerVars

(* A reconciliation takes the lease; the writer closes its intent when it has
   nothing more to put. *)
LEMMA TakeStep ==
  ASSUME ImportInv, size' = size, NEW w \in Importers, NEW a \in {"own", "alarm"}, Take(w, a)
  PROVE  ImportInv'
<1> DEFINE n == [intent[w] EXCEPT !.state = "reconciling",
                                  !.closed = @ \/ a = "own"]
<1>1. /\ intent[w].state \in Sealed
      /\ a = "own" => ipc[w] = "finalize"
      /\ intent' = [intent EXCEPT ![w] = n]
      /\ lease' = [lease EXCEPT ![w] = a] /\ leaseOver' = leaseOver \ {w}
      /\ calls' = [calls EXCEPT ![w][a] = "head"]
      /\ UNCHANGED <<mail, claim, live, rows, deleting, fenced, stored, importerVars>>
      /\ NoFault
  BY DEF Take, mboxVars, r2Vars, NoFault
<1>2. /\ ImportTypeOK /\ RequestInv(w) /\ SeenInv(w) /\ intent[w] \in Intents
      /\ intent \in [Importers -> Intents] /\ size \in Nat
      /\ calls \in [Importers -> [{"own", "alarm"} -> {"none", "head", "present", "missing"}]]
      /\ lease \in [Importers -> {"none", "own", "alarm"}]
  BY TypeFacts DEF ImportInv, ImportTypeOK
<1>3. /\ n \in Intents /\ n.state = "reconciling"
      /\ n.closed => intent[w].closed \/ a = "own"
      /\ n.phase = intent[w].phase /\ n.cursor = intent[w].cursor /\ n.seen = intent[w].seen
  BY <1>2 DEF Intents, Sealed
<1> HIDE DEF n
<1>4. /\ intent' \in [Importers -> Intents] /\ intent'[w] = n
      /\ \A x \in Importers \ {w} : intent'[x] = intent[x]
  BY <1>1, <1>2, <1>3
<1>5. /\ calls' \in [Importers -> [{"own", "alarm"} -> {"none", "head", "present", "missing"}]]
      /\ lease' \in [Importers -> {"none", "own", "alarm"}] /\ lease'[w] = a
      /\ calls'[w][a] = "head"
      /\ \A x \in Importers \ {w} :
           /\ lease'[x] = lease[x]
           /\ \A b \in {"own", "alarm"} : calls'[x][b] = calls[x][b]
  BY <1>1, <1>2
<1>6. ImportTypeOK'
  BY <1>1, <1>2, <1>4, <1>5, PageTypes DEF ImportTypeOK
<1>7. Rests(w) /\ Ages(w) /\ KeepsTrack(w)
  <2>1. Rests(w)
    BY <1>1 DEF Rests, importerVars
  <2>2. KeepsTrack(w)
    BY <1>1, TrackFacts, TrackFactsNext DEF KeepsTrack
  <2> QED BY <2>1, <2>2, RestingAges
<1>8. RequestInv(w)'
  <2>1. NoIntent' = NoIntent /\ Ordinals' = Ordinals /\ Sealed' = Sealed
    BY DEF NoIntent, Ordinals, Sealed
  <2>2. ~Fresh(w) /\ (Fresh(w)' <=> Fresh(w)) /\ n.state \in Sealed
    BY <1>1, <1>2, <1>3, <1>7, BlankFacts DEF RequestInv, Sealed, Fresh, Rests
  <2>3. n.closed => ipc[w] \in {"finalize", "done"} /\ (intent[w].closed \/ ipc[w] = "finalize")
    BY <1>1, <1>2, <1>3 DEF RequestInv
  <2> HIDE DEF NoIntent, Sealed, Ordinals, Fresh
  <2> QED BY <1>2, <1>4, <1>7, <2>1, <2>2, <2>3 DEF RequestInv, Rests
<1>9. SeenInv(w)'
  BY <1>2, <1>3, <1>4, <1>7, SeenKeeps
<1>10. CallInv(w)'
  BY <1>3, <1>4, <1>5 DEF CallInv
<1> HIDE DEF Take, importerVars
<1> QED BY <1>1, <1>4, <1>5, <1>6, <1>8, <1>9, <1>10, PageStep

(* The bucket is asked for the object of the page. *)
LEMMA HeadStep ==
  ASSUME ImportInv, size' = size, NEW w \in Importers, NEW a \in {"own", "alarm"}, HeadObject(w, a)
  PROVE  ImportInv'
<1>1. PICK i \in Ordinals : i = intent[w].cursor + 1
  BY TypeFacts
<1>2. /\ lease[w] = a /\ intent[w].phase = "validation"
      /\ calls' = [calls EXCEPT ![w][a] = IF <<w, i>> \in stored THEN "present" ELSE "missing"]
      /\ UNCHANGED <<mail, claim, live, intent, lease, leaseOver, rows, deleting, fenced,
                     stored, importerVars>>
      /\ NoFault
  BY <1>1 DEF HeadObject, mboxVars, intentVars, r2Vars, NoFault
<1>3. /\ ImportTypeOK /\ RequestInv(w) /\ SeenInv(w) /\ ObjectInv(w) /\ CallInv(w)
      /\ size \in Nat
      /\ calls \in [Importers -> [{"own", "alarm"} -> {"none", "head", "present", "missing"}]]
  BY TypeFacts DEF ImportInv, ImportTypeOK
<1>4. /\ calls' \in [Importers -> [{"own", "alarm"} -> {"none", "head", "present", "missing"}]]
      /\ calls'[w][a] = IF <<w, i>> \in stored THEN "present" ELSE "missing"
      /\ \A x \in Importers \ {w} : \A b \in {"own", "alarm"} : calls'[x][b] = calls[x][b]
  BY <1>2, <1>3
<1>5. ImportTypeOK'
  BY <1>2, <1>3, <1>4, PageTypes DEF ImportTypeOK
<1>6. Rests(w) /\ Ages(w) /\ KeepsTrack(w)
  <2>1. Rests(w)
    BY <1>2 DEF Rests, importerVars
  <2>2. KeepsTrack(w)
    BY <1>2, TrackFacts, TrackFactsNext DEF KeepsTrack
  <2> QED BY <2>1, <2>2, RestingAges
<1>7. RequestInv(w)'
  BY <1>2, <1>3, <1>6, RequestKeeps DEF RequestInv
<1>8. SeenInv(w)'
  BY <1>2, <1>3, <1>6, SeenKeeps DEF SeenInv
<1>9. CallInv(w)'
  <2>1. <<w, i>> \in stored => IsPut(w, i)'
    <3>1. <<w, i>> \in stored => IsPut(w, i)
      BY <1>3 DEF ObjectInv
    <3> HIDE DEF IsPut
    <3> QED BY <1>6, <3>1 DEF Ages
  <2>2. <<w, i>> \notin stored => w \notin mail
    BY <1>3 DEF ObjectInv, ObjectsOf
  <2>3. intent'[w].cursor + 1 = i /\ intent'[w].state = intent[w].state
        /\ intent'[w].phase = "validation" /\ lease'[w] = a /\ mail' = mail
    BY <1>1, <1>2
  <2> HIDE DEF IsPut
  <2> QED BY <1>2, <1>3, <1>4, <2>1, <2>2, <2>3 DEF CallInv
<1> HIDE DEF HeadObject, importerVars
<1> QED BY <1>2, <1>4, <1>5, <1>7, <1>8, <1>9, PageStep

(* A call that ends without a trace leaves what it has found behind. *)
LEMMA CallEndsStep ==
  ASSUME ImportInv, size' = size, NEW w \in Importers, NEW a \in {"own", "alarm"},
         calls' = [calls EXCEPT ![w][a] = "none"], NoFault \/ Fault,
         UNCHANGED <<mail, claim, live, intent, lease, leaseOver, rows, deleting, fenced,
                     stored, importerVars>>
  PROVE  ImportInv'
<1>1. /\ calls' = [calls EXCEPT ![w][a] = "none"] /\ (NoFault \/ Fault)
      /\ UNCHANGED <<mail, claim, live, intent, lease, leaseOver, rows, deleting, fenced,
                     stored, importerVars>>
  OBVIOUS
<1>2. /\ ImportTypeOK /\ RequestInv(w) /\ SeenInv(w) /\ CallInv(w)
      /\ size \in Nat /\ intent[w].cursor + 1 \in Ordinals
      /\ calls \in [Importers -> [{"own", "alarm"} -> {"none", "head", "present", "missing"}]]
  BY TypeFacts DEF ImportInv, ImportTypeOK
<1>3. /\ calls' \in [Importers -> [{"own", "alarm"} -> {"none", "head", "present", "missing"}]]
      /\ \A x \in Importers \ {w} : \A b \in {"own", "alarm"} : calls'[x][b] = calls[x][b]
      /\ \A b \in {"own", "alarm"} : calls'[w][b] \in {calls[w][b], "none"}
  BY <1>1, <1>2
<1>4. ImportTypeOK'
  BY <1>1, <1>2, <1>3, PageTypes DEF ImportTypeOK
<1>5. Rests(w) /\ Ages(w) /\ KeepsTrack(w)
  <2>1. Rests(w)
    BY <1>1 DEF Rests, importerVars
  <2>2. KeepsTrack(w)
    BY <1>1, TrackFacts, TrackFactsNext DEF KeepsTrack
  <2> QED BY <2>1, <2>2, RestingAges
<1>6. RequestInv(w)'
  BY <1>1, <1>2, <1>5, RequestKeeps DEF RequestInv
<1>7. SeenInv(w)'
  BY <1>1, <1>2, <1>5, SeenKeeps DEF SeenInv
<1>8. CallInv(w)'
  BY <1>1, <1>2, <1>3, <1>5, CallKeeps DEF CallInv
<1> HIDE DEF importerVars
<1> QED BY <1>1, <1>3, <1>4, <1>6, <1>7, <1>8, PageStep

(* A call that is lost leaves its lease behind. *)
LEMMA CallLostStep ==
  ASSUME ImportInv, size' = size, NEW w \in Importers, NEW a \in {"own", "alarm"},
         CallLost(w, a)
  PROVE  ImportInv'
<1>1. /\ calls' = [calls EXCEPT ![w][a] = "none"] /\ Fault
      /\ UNCHANGED <<mail, claim, live, intent, lease, leaseOver, rows, deleting, fenced,
                     stored, importerVars>>
  BY DEF CallLost, mboxVars, intentVars, r2Vars
<1> HIDE DEF CallLost, importerVars
<1> QED BY <1>1, CallEndsStep

(* A lease that runs out is still the one its call has taken. *)
LEMMA LeaseExpiresStep ==
  ASSUME ImportInv, size' = size, NEW w \in Importers, LeaseExpires(w)
  PROVE  ImportInv'
<1>1. /\ leaseOver' = leaseOver \cup {w} /\ (NoFault \/ Fault)
      /\ UNCHANGED <<mail, claim, live, intent, lease, calls, rows, deleting, fenced, stored,
                     importerVars>>
  BY DEF LeaseExpires, mboxVars, r2Vars
<1>2. /\ ImportTypeOK /\ RequestInv(w) /\ SeenInv(w) /\ CallInv(w)
      /\ size \in Nat /\ intent[w].cursor + 1 \in Ordinals
  BY TypeFacts DEF ImportInv
<1>3. ImportTypeOK'
  BY <1>1, <1>2, PageTypes DEF ImportTypeOK
<1>4. Rests(w) /\ Ages(w) /\ KeepsTrack(w)
  <2>1. Rests(w)
    BY <1>1 DEF Rests, importerVars
  <2>2. KeepsTrack(w)
    BY <1>1, TrackFacts, TrackFactsNext DEF KeepsTrack
  <2> QED BY <2>1, <2>2, RestingAges
<1>5. RequestInv(w)'
  BY <1>1, <1>2, <1>4, RequestKeeps DEF RequestInv
<1>6. SeenInv(w)'
  BY <1>1, <1>2, <1>4, SeenKeeps DEF SeenInv
<1>7. CallInv(w)'
  BY <1>1, <1>2, <1>4, CallKeeps DEF CallInv
<1> HIDE DEF LeaseExpires, importerVars
<1> QED BY <1>1, <1>3, <1>5, <1>6, <1>7, PageStep

(* What a reconciliation that has found its page changes apart from the
   intent: the lease is given back. *)
ReturnsLease(w, a) ==
  /\ calls' = [calls EXCEPT ![w][a] = "none"]
  /\ lease' = [lease EXCEPT ![w] = "none"] /\ leaseOver' = leaseOver \ {w}
  /\ UNCHANGED <<mail, deleting, fenced, stored, importerVars>> /\ NoFault

(* It leaves the other imports alone, and its own request where it was. *)
LEMMA AppliedStep ==
  ASSUME ImportInv, size' = size, NEW w \in Importers, NEW a \in {"own", "alarm"},
         ReturnsLease(w, a), lease[w] = a,
         claim' \subseteq claim, live' \in BOOLEAN,
         NEW n \in Intents, intent' = [intent EXCEPT ![w] = n],
         n.closed => intent[w].closed, n.state \in Sealed \cup {"finalized"},
         rows' \subseteq Objects,
         \A x \in Importers \ {w} : \A i \in Ordinals : <<x, i>> \in rows' <=> <<x, i>> \in rows,
         SeenInv(w)'
  PROVE  ImportInv'
<1>1. /\ calls' = [calls EXCEPT ![w][a] = "none"]
      /\ lease' = [lease EXCEPT ![w] = "none"] /\ leaseOver' = leaseOver \ {w}
      /\ UNCHANGED <<mail, deleting, fenced, stored, importerVars>> /\ NoFault
  BY DEF ReturnsLease
<1>2. /\ ImportTypeOK /\ RequestInv(w) /\ CallInv(w)
      /\ intent \in [Importers -> Intents]
      /\ calls \in [Importers -> [{"own", "alarm"} -> {"none", "head", "present", "missing"}]]
      /\ lease \in [Importers -> {"none", "own", "alarm"}] /\ leaseOver \subseteq Importers
  BY TypeFacts DEF ImportInv, ImportTypeOK
<1>3. /\ intent' \in [Importers -> Intents] /\ intent'[w] = n
      /\ \A x \in Importers \ {w} : intent'[x] = intent[x]
  BY <1>2
<1>4. /\ calls' \in [Importers -> [{"own", "alarm"} -> {"none", "head", "present", "missing"}]]
      /\ lease' \in [Importers -> {"none", "own", "alarm"}] /\ lease'[w] = "none"
      /\ leaseOver' \subseteq Importers
      /\ \A x \in Importers \ {w} :
           /\ lease'[x] = lease[x]
           /\ \A b \in {"own", "alarm"} : calls'[x][b] = calls[x][b]
  BY <1>1, <1>2
<1>5. ImportTypeOK'
  BY <1>1, <1>2, <1>3, <1>4, PageTypes
<1>6. Rests(w)
  BY <1>1 DEF Rests, importerVars
<1>7. ~Fresh(w)
  <2>1. intent[w].state = "reconciling"
    BY <1>2 DEF CallInv
  <2>2. NoIntent.state = "none" /\ [NoIntent EXCEPT !.state = "staging"].state = "staging"
    BY BlankFacts
  <2> HIDE DEF NoIntent, Fresh
  <2> QED BY <1>2, <2>1, <2>2 DEF RequestInv
<1>8. RequestInv(w)'
  <2> HIDE DEF Fresh, NoIntent, Sealed
  <2> QED BY <1>2, <1>3, <1>6, <1>7, RequestKeeps
<1>9. CallInv(w)'
  BY <1>4 DEF CallInv
<1> HIDE DEF importerVars
<1> QED BY <1>1, <1>3, <1>4, <1>5, <1>8, <1>9, PageStep

(* A page that is validated: an object of the message is there and not
   fenced, so that no intent is blocked. *)
LEMMA ValidatedStep ==
  ASSUME ImportInv, size' = size, NEW w \in Importers, NEW a \in {"own", "alarm"},
         ReturnsLease(w, a), lease[w] = a, UNCHANGED <<claim, live>>,
         calls[w][a] \in {"present", "missing"}, Validated(w, calls[w][a] = "present")
  PROVE  ImportInv'
<1>1. PICK k \in Ordinals : k = intent[w].cursor + 1
  BY TypeFacts
<1>2. PICK m : m = intent[w]
  OBVIOUS
<1>3. PICK found \in {"authoritative", "unowned_present", "absent"} :
        found = IF w \in mail THEN "authoritative"
                ELSE IF calls[w][a] = "present" THEN "unowned_present" ELSE "absent"
  OBVIOUS
<1>4. /\ size \in Nat /\ size >= 1 /\ Ordinals = 1..size /\ m \in Intents
      /\ RequestInv(w) /\ ObjectInv(w) /\ SeenInv(w) /\ CallInv(w)
      /\ ImportTypeOK /\ deleting \subseteq fenced
  BY <1>2, TypeFacts DEF ImportInv
<1>5. /\ UNCHANGED <<mail, deleting, stored>> /\ UNCHANGED importerVars
  BY DEF ReturnsLease
<1>6. /\ <<w, k>> \in Owned <=> w \in mail
      /\ w \in mail => /\ calls[w][a] = "present"
                       /\ <<w, k>> \notin deleting \cup fenced
  <2>1. w \in mail => <<w, k>> \in stored \ fenced
    BY <1>4, ObjectFacts DEF ObjectInv
  <2>2. w \in mail => calls[w][a] = "present"
    BY <1>4 DEF CallInv
  <2> QED BY <1>1, <1>4, <2>1, <2>2, ObjectFacts
<1> DEFINE n == [m EXCEPT !.state = Resting(m), !.seen[k] = found,
                          !.phase = IF k = size THEN "settlement" ELSE @,
                          !.cursor = IF k = size THEN 0 ELSE k]
<1>7. /\ intent' = [intent EXCEPT ![w] = n]
      /\ rows' = IF w \in mail THEN rows \ {<<w, k>>} ELSE rows
  <2>1. ~(<<w, k>> \in Owned /\ calls[w][a] # "present")
        /\ ~(<<w, k>> \in Owned /\ ~Adopts({<<w, k>>}))
    BY <1>6 DEF Adopts
  <2>2. (IF <<w, k>> \in Owned THEN "authoritative"
         ELSE IF calls[w][a] = "present" THEN "unowned_present" ELSE "absent") = found
    BY <1>3, <1>6
  <2> HIDE DEF Owned, Adopts, Resting
  <2> QED BY <1>1, <1>2, <1>6, <2>1, <2>2 DEF Validated
<1>8. PICK nn : nn = n
  OBVIOUS
<1>9. /\ nn \in Intents /\ nn.closed = m.closed /\ nn.state = Resting(m)
      /\ nn.seen \in [Ordinals -> {"unseen", "authoritative", "unowned_present", "absent"}]
      /\ nn.seen[k] = found /\ \A i \in Ordinals \ {k} : nn.seen[i] = m.seen[i]
      /\ nn.phase = "settlement" => (k = size /\ nn.cursor = 0) \/ m.phase = "settlement"
      /\ nn.cursor = IF k = size THEN 0 ELSE k
  <2>1. Resting(m) \in Sealed
    BY DEF Resting, Sealed
  <2>2. (IF k = size THEN 0 ELSE k) \in 0..(size - 1)
    BY <1>4
  <2>3. [m.seen EXCEPT ![k] = found]
          \in [Ordinals -> {"unseen", "authoritative", "unowned_present", "absent"}]
    BY <1>1, <1>3, <1>4 DEF Intents
  <2> HIDE DEF Resting
  <2> QED BY <1>1, <1>4, <1>8, <2>1, <2>2, <2>3 DEF Intents
<1> HIDE DEF n
<1>10. m.state = "reconciling" /\ m.phase = "validation"
  BY <1>2, <1>4 DEF CallInv
<1>11. intent'[w] = nn
  BY <1>4, <1>7, <1>8 DEF ImportTypeOK
<1>12. Rests(w) /\ Ages(w)
  BY <1>5, RestingAges DEF Rests, importerVars
<1>13. SeenInv(w)'
  <2>1. Ordinals' = Ordinals
    BY DEF Ordinals
  <2>2. /\ nn.state \notin {"integrity_blocked", "finalized"}
        /\ nn.state = "recorded" => nn.closed
    BY <1>9 DEF Resting
  <2>3. ASSUME NEW i \in Ordinals, nn.phase = "settlement" \/ i <= nn.cursor
        PROVE  nn.seen[i] # "unseen"
    <3>1. CASE i = k
      BY <1>9, <3>1
    <3>2. CASE i # k
      <4>1. i <= m.cursor
        BY <1>1, <1>2, <1>4, <1>9, <1>10, <2>3, <3>2 DEF Intents
      <4> QED BY <1>2, <1>4, <1>9, <3>2, <4>1 DEF SeenInv
    <3> QED BY <3>1, <3>2
  <2>4. ASSUME NEW i \in Ordinals, nn.seen[i] = "authoritative"
        PROVE  IsPast(w)' /\ Tracked(<<w, i>>)'
    <3>1. IsPast(w) /\ (w \in mail \/ Tracked(<<w, i>>))
      BY <1>2, <1>3, <1>4, <1>9, <2>4 DEF SeenInv, ObjectInv
    <3>2. Tracked(<<w, i>>)'
      BY <1>5, <1>7, <3>1, TrackFacts, TrackFactsNext
    <3> HIDE DEF IsPast, Tracked
    <3> QED BY <1>12, <3>1, <3>2 DEF Ages
  <2>5. ASSUME NEW i \in Ordinals, nn.seen[i] = "unowned_present"
        PROVE  IsPut(w, i)' /\ ~(nn.phase = "settlement" /\ i <= nn.cursor)
    <3>1. IsPut(w, i)
      BY <1>1, <1>2, <1>3, <1>4, <1>9, <2>5 DEF SeenInv, CallInv
    <3>2. ~(nn.phase = "settlement" /\ i <= nn.cursor)
      BY <1>4, <1>9, <1>10
    <3> HIDE DEF IsPut
    <3> QED BY <1>12, <3>1, <3>2 DEF Ages
  <2> HIDE DEF IsPast, IsPut, Tracked, Ordinals
  <2> QED BY <1>11, <2>1, <2>2, <2>3, <2>4, <2>5 DEF SeenInv
<1>14. rows' \subseteq Objects
  BY <1>4, <1>7 DEF ImportTypeOK
<1>15. \A x \in Importers \ {w} : \A i \in Ordinals : <<x, i>> \in rows' <=> <<x, i>> \in rows
  BY <1>7
<1>16. nn.state \in Sealed
  BY <1>9 DEF Resting, Sealed
<1> HIDE DEF ReturnsLease, SeenInv, Sealed
<1> QED BY <1>2, <1>4, <1>7, <1>8, <1>9, <1>13, <1>14, <1>15, <1>16, AppliedStep
           DEF ImportTypeOK

(* A page that is settled: what nobody owns goes to the outbox, and the last
   page finalizes the intent or has it watched from the start. *)
LEMMA SettledStep ==
  ASSUME ImportInv, size' = size, NEW w \in Importers, NEW a \in {"own", "alarm"},
         ReturnsLease(w, a), lease[w] = a, intent[w].phase # "validation", Settled(w)
  PROVE  ImportInv'
<1>1. PICK k \in Ordinals : k = intent[w].cursor + 1
  BY TypeFacts
<1>2. PICK m : m = intent[w]
  OBVIOUS
<1>3. /\ size \in Nat /\ size >= 1 /\ Ordinals = 1..size /\ m \in Intents
      /\ SeenInv(w) /\ CallInv(w) /\ ImportTypeOK
  BY <1>2, TypeFacts DEF ImportInv
<1>4. UNCHANGED <<mail, deleting, stored>> /\ UNCHANGED importerVars
  BY DEF ReturnsLease
<1>5. /\ m.state = "reconciling" /\ m.phase = "settlement" /\ m.cursor \in 0..(size - 1)
      /\ m.seen \in [Ordinals -> {"unseen", "authoritative", "unowned_present", "absent"}]
      /\ k = m.cursor + 1
  BY <1>1, <1>2, <1>3 DEF CallInv, Intents
<1>6. rows' = IF m.seen[k] = "unowned_present" /\ w \notin mail
              THEN rows \cup ({<<w, k>>} \ deleting) ELSE rows
  BY <1>1, <1>2, <1>3, ObjectFacts DEF Settled
<1>7. /\ rows' \subseteq Objects
      /\ \A x \in Importers \ {w} : \A i \in Ordinals : <<x, i>> \in rows' <=> <<x, i>> \in rows
  BY <1>3, <1>6 DEF ImportTypeOK, Objects
<1>8. Rests(w) /\ Ages(w)
  BY <1>4, RestingAges DEF Rests, importerVars
<1>9. Ordinals' = Ordinals
  BY DEF Ordinals
<1>10. ASSUME NEW i \in Ordinals
       PROVE  /\ Tracked(<<w, i>>) => Tracked(<<w, i>>)'
              /\ i = k /\ m.seen[k] = "unowned_present" => Tracked(<<w, i>>)'
  BY <1>4, <1>6, TrackFacts, TrackFactsNext
\* What a settled page says of its objects, if the intent keeps what it saw.
<1>11. ASSUME NEW i \in Ordinals
       PROVE  /\ m.seen[i] # "unseen"
              /\ m.seen[i] = "authoritative" => IsPast(w)' /\ Tracked(<<w, i>>)'
              /\ m.seen[i] = "unowned_present" =>
                   IsPut(w, i)' /\ (i <= k => Tracked(<<w, i>>)')
  <2>1. /\ m.seen[i] # "unseen"
        /\ m.seen[i] = "authoritative" => IsPast(w) /\ Tracked(<<w, i>>)
        /\ m.seen[i] = "unowned_present" => IsPut(w, i) /\ (i <= m.cursor => Tracked(<<w, i>>))
    BY <1>2, <1>3, <1>5 DEF SeenInv
  <2>2. i <= k => i <= m.cursor \/ i = k
    BY <1>3, <1>5
  <2> HIDE DEF IsPast, IsPut, Tracked
  <2> QED BY <1>8, <1>10, <2>1, <2>2 DEF Ages
<1>12. CASE k < size
  <2>1. PICK n : n = [m EXCEPT !.state = Resting(m), !.cursor = k]
    OBVIOUS
  <2>2. intent' = [intent EXCEPT ![w] = n] /\ UNCHANGED <<claim, live>>
    <3>1. /\ intent' = [intent EXCEPT ![w].state = Resting(intent[w]), ![w].cursor = @ + 1]
          /\ UNCHANGED <<claim, live>>
      BY <1>1, <1>12 DEF Settled
    <3>2. intent \in [Importers -> Intents] /\ intent[w] \in Intents
      BY <1>3 DEF ImportTypeOK
    <3>3. [intent EXCEPT ![w].state = Resting(intent[w]), ![w].cursor = @ + 1]
            = [intent EXCEPT ![w] =
                [intent[w] EXCEPT !.state = Resting(intent[w]), !.cursor = @ + 1]]
      BY <3>2 DEF Intents
    <3>4. [intent[w] EXCEPT !.state = Resting(intent[w]), !.cursor = @ + 1] = n
      BY <1>2, <1>5, <2>1, <3>2 DEF Intents
    <3> QED BY <3>1, <3>3, <3>4
  <2>3. /\ n \in Intents /\ n.closed = m.closed /\ n.state \in Sealed
        /\ n.state \notin {"integrity_blocked", "finalized"}
        /\ n.state = "recorded" => n.closed
        /\ n.phase = "settlement" /\ n.cursor = k /\ n.seen = m.seen
    <3>1. k \in 0..(size - 1)
      BY <1>3, <1>12
    <3>2. /\ Resting(m) \in Sealed /\ Resting(m) \notin {"integrity_blocked", "finalized"}
          /\ Resting(m) = "recorded" => m.closed
      BY DEF Resting, Sealed
    <3> HIDE DEF Resting
    <3> QED BY <1>3, <1>5, <2>1, <3>1, <3>2 DEF Intents
  <2>4. intent'[w] = n
    BY <1>3, <2>2 DEF ImportTypeOK
  <2>5. SeenInv(w)'
    <3> HIDE DEF IsPast, IsPut, Tracked, Ordinals
    <3> QED BY <1>9, <1>11, <2>3, <2>4 DEF SeenInv
  <2> HIDE DEF ReturnsLease, SeenInv, Sealed
  <2> QED BY <1>2, <1>3, <1>7, <2>2, <2>3, <2>5, AppliedStep DEF ImportTypeOK
<1>13. CASE ~(k < size) /\ ~m.closed /\ ~\A i \in Ordinals : m.seen[i] = "authoritative"
  <2>1. PICK n : n = [NoIntent EXCEPT !.state = "abandoned_watching"]
    OBVIOUS
  <2>2. intent' = [intent EXCEPT ![w] = n] /\ UNCHANGED <<claim, live>>
    <3> HIDE DEF Resting, NoIntent
    <3> QED BY <1>1, <1>2, <1>3, <1>5, <1>13, <2>1 DEF Settled, ImportTypeOK
  <2>3. n \in Blank /\ n.state = "abandoned_watching"
    BY <2>1 DEF Blank, NoIntent
  <2>4. n \in Intents /\ ~n.closed /\ n.state \in Sealed
    BY <2>3, BlankFacts DEF Sealed
  <2>5. intent'[w] = n
    BY <1>3, <2>2 DEF ImportTypeOK
  <2>6. SeenInv(w)'
    BY <1>3, <2>3, <2>5, BlankSeen
  <2> HIDE DEF ReturnsLease, SeenInv, Sealed
  <2> QED BY <1>3, <1>7, <2>2, <2>4, <2>6, AppliedStep DEF ImportTypeOK
<1>14. CASE ~(k < size) /\ (m.closed \/ \A i \in Ordinals : m.seen[i] = "authoritative")
  <2>1. PICK n : n = [m EXCEPT !.state = "finalized"]
    OBVIOUS
  <2>2. /\ intent' = [intent EXCEPT ![w] = n]
        /\ claim' = claim \ {w} /\ live' = (live /\ claim # {w})
    <3> HIDE DEF Resting, NoIntent
    <3> QED BY <1>1, <1>2, <1>3, <1>5, <1>14, <2>1 DEF Settled, ImportTypeOK
  <2>3. /\ n \in Intents /\ n.closed = m.closed /\ n.state = "finalized"
        /\ n.phase = "settlement" /\ n.seen = m.seen
    BY <1>3, <1>5, <2>1 DEF Intents
  <2>4. intent'[w] = n /\ claim' \subseteq claim /\ live' \in BOOLEAN
    BY <1>3, <2>2 DEF ImportTypeOK
  <2>5. \A i \in Ordinals : i <= k
    BY <1>3, <1>14
  <2>6. SeenInv(w)'
    <3> HIDE DEF IsPast, IsPut, Tracked, Ordinals
    <3> QED BY <1>9, <1>11, <1>14, <2>3, <2>4, <2>5 DEF SeenInv
  <2> HIDE DEF ReturnsLease, SeenInv, Sealed
  <2> QED BY <1>2, <1>3, <1>7, <2>2, <2>3, <2>4, <2>6, AppliedStep DEF ImportTypeOK
<1> QED BY <1>12, <1>13, <1>14

(* The second transaction of a reconciliation. *)
LEMMA ApplyStep ==
  ASSUME ImportInv, size' = size, NEW w \in Importers, NEW a \in {"own", "alarm"}, Apply(w, a)
  PROVE  ImportInv'
<1>1. CASE lease[w] # a
  <2>1. /\ calls' = [calls EXCEPT ![w][a] = "none"] /\ NoFault
        /\ UNCHANGED <<mail, claim, live, intent, lease, leaseOver, rows, deleting, fenced,
                       stored, importerVars>>
    BY <1>1 DEF Apply, intentVars, NoFault
  <2> HIDE DEF Apply, importerVars
  <2> QED BY <2>1, CallEndsStep
<1>2. CASE lease[w] = a
  <2>1. /\ ReturnsLease(w, a)
        /\ \/ /\ intent[w].phase = "validation" /\ calls[w][a] \notin {"none", "head"}
              /\ Validated(w, calls[w][a] = "present") /\ UNCHANGED <<claim, live>>
           \/ intent[w].phase # "validation" /\ Settled(w)
    BY <1>2 DEF Apply, ReturnsLease, NoFault
  <2>2. calls[w][a] \in {"none", "head", "present", "missing"}
    BY DEF ImportInv, ImportTypeOK
  <2> HIDE DEF Apply, Validated, Settled, ReturnsLease
  <2> QED BY <1>2, <2>1, <2>2, ValidatedStep, SettledStep
<1> QED BY <1>1, <1>2

-----------------------------------------------------------------------------
(* The theorems                                                            *)

(* The invariant holds before the first request. *)
LEMMA ImportInitLemma ==
  ASSUME ImportInit
  PROVE  ImportInv
<1>1. size \in Nat /\ size >= 1 /\ Ordinals = 1..size
  BY ImportAssumption DEF ImportInit, Ordinals
<1>2. NoIntent \in Intents
  <2>1. 0 \in 0..(size - 1)
    BY <1>1
  <2>2. [i \in Ordinals |-> "unseen"] \in
          [Ordinals -> {"unseen", "authoritative", "unowned_present", "absent"}]
    OBVIOUS
  <2> HIDE DEF Ordinals
  <2> QED BY <2>1, <2>2 DEF NoIntent, Intents
<1>3. ImportTypeOK
  <2>1. size \in 1..MaxSize /\ 0 \in 0..size /\ 0 \in 0..MaxImportFails
    BY <1>1, ImportAssumption DEF ImportInit
  <2> HIDE DEF NoIntent, Intents, Objects
  <2> QED BY <1>2, <2>1 DEF ImportInit, ImportTypeOK, IPCs
<1>4. ASSUME NEW w \in Importers
      PROVE  RequestInv(w) /\ ObjectInv(w) /\ SeenInv(w) /\ CallInv(w)
  <2>1. /\ ipc[w] = "claim" /\ puts[w] = 0 /\ sealed = {} /\ late = {} /\ mail = {}
        /\ stored = {} /\ lease[w] = "none" /\ intent[w] = NoIntent
    BY <1>4 DEF ImportInit
  <2>2. /\ NoIntent.state = "none" /\ ~NoIntent.closed /\ NoIntent.phase = "validation"
        /\ NoIntent.cursor = 0 /\ \A i \in Ordinals : NoIntent.seen[i] = "unseen"
    BY DEF NoIntent
  <2> HIDE DEF NoIntent
  <2>3. RequestInv(w) /\ ObjectInv(w) /\ CallInv(w)
    BY <2>1, <2>2 DEF RequestInv, ObjectInv, CallInv, AtWork, Fresh
  <2>4. \A i \in Ordinals : ~(i <= 0)
    BY <1>1
  <2>5. SeenInv(w)
    <3> HIDE DEF IsPast, IsPut, Tracked, Ordinals
    <3> QED BY <2>1, <2>2, <2>4 DEF SeenInv
  <2> QED BY <2>3, <2>5
<1> QED BY <1>3, <1>4 DEF ImportInv, ImportInit

(* Every step keeps it. *)
LEMMA ImportNextLemma ==
  ASSUME ImportInv, [ImportNext]_importVars
  PROVE  ImportInv'
<1>1. CASE ImportNext
  <2>1. size' = size
    BY <1>1 DEF ImportNext
  <2>2. CASE \E w \in Importers : ImporterStep(w)
    <3>1. PICK w \in Importers : ImporterStep(w)
      BY <2>2
    <3>2. CASE ClaimImportedEmail(w)
      BY <2>1, <3>2, ClaimStep
    <3>3. CASE Renew(w)
      BY <2>1, <3>3, RenewStep
    <3>4. CASE BeginIntent(w)
      BY <2>1, <3>4, BeginIntentStep
    <3>5. CASE SealIntent(w)
      BY <2>1, <3>5, SealIntentStep
    <3>6. CASE Put(w)
      BY <2>1, <3>6, BucketPutStep
    <3>7. CASE Create(w)
      BY <2>1, <3>7, CreateStep
    <3>8. CASE Undo(w)
      BY <2>1, <3>8, UndoStep
    <3>9. CASE FinalizeEnds(w)
      BY <2>1, <3>9, FinalizeEndsStep
    <3>10. CASE Release(w)
      BY <2>1, <3>10, ReleaseStep
    <3> QED BY <3>1, <3>2, <3>3, <3>4, <3>5, <3>6, <3>7, <3>8, <3>9, <3>10 DEF ImporterStep
  <2>3. CASE \E w \in Importers : ImporterLost(w) \/ LateCreate(w) \/ LeaseExpires(w)
    <3> HIDE DEF ImportInv, ImporterLost, LateCreate, LeaseExpires
    <3> QED BY <2>1, <2>3, LostStep, LateCreateStep, LeaseExpiresStep
  <2>4. CASE \E w \in Importers : \E a \in {"own", "alarm"} :
               Take(w, a) \/ HeadObject(w, a) \/ Apply(w, a) \/ CallLost(w, a)
    <3> HIDE DEF ImportInv, Take, HeadObject, Apply, CallLost
    <3> QED BY <2>1, <2>4, TakeStep, HeadStep, ApplyStep, CallLostStep
  <2>5. CASE \E o \in Objects : LatePut(o) \/ ClaimDeletion(o) \/ DeleteObject(o)
    <3> HIDE DEF ImportInv, Objects, LatePut, ClaimDeletion, DeleteObject
    <3> QED BY <2>1, <2>5, LatePutStep, ClaimDeletionStep, DeleteObjectStep
  <2>6. CASE ClaimExpires \/ SweepImportClaims \/ DeleteEmail
    <3> HIDE DEF ImportInv, ClaimExpires, SweepImportClaims, DeleteEmail
    <3> QED BY <2>1, <2>6, ClaimExpiresStep, SweepImportClaimsStep, DeleteEmailStep
  <2> HIDE DEF ImportInv, Objects, ImporterStep, ImporterLost, LateCreate, LeaseExpires,
               Take, HeadObject, Apply, CallLost, LatePut, ClaimDeletion, DeleteObject,
               ClaimExpires, SweepImportClaims, DeleteEmail
  <2> QED BY <1>1, <2>2, <2>3, <2>4, <2>5, <2>6 DEF ImportNext
<1>2. CASE UNCHANGED importVars
  <2>1. UNCHANGED <<size, mail, claim, live, intent, lease, leaseOver, calls, rows, deleting,
                    fenced, stored, ipc, puts, sealed, late, ifails>>
    BY <1>2 DEF importVars, mboxVars, intentVars, r2Vars, importerVars
  <2>2. ImportTypeOK'
    BY <2>1, PageTypes DEF ImportInv, ImportTypeOK, importerVars, NoFault
  <2>3. ASSUME NEW x \in Importers, NEW i \in Ordinals
        PROVE  Tracked(<<x, i>>) => Tracked(<<x, i>>)'
    BY <2>1, TrackFacts, TrackFactsNext
  <2> QED BY <2>1, <2>2, <2>3, OutboxStep DEF ImportInv, importerVars
<1> QED BY <1>1, <1>2

(* ImportInv is an invariant of imports, for any number of requests and
   attachments. *)
THEOREM ImportInvariant == ImportSpec => []ImportInv
BY ImportInitLemma, ImportNextLemma, PTL DEF ImportSpec

(* What the invariant says of an object that no message has. *)
LEMMA StraysLemma ==
  ASSUME ImportInv, NEW w \in Importers, NEW i \in Ordinals,
         <<w, i>> \in stored, w \notin mail
  PROVE  \/ ipc[w] # "done" \/ intent[w].state \in Sealed
         \/ <<w, i>> \in rows \cup deleting
         \/ intent[w].closed /\ intent[w].seen[i] = "absent"
<1>1. /\ intent[w] \in Intents /\ RequestInv(w) /\ ObjectInv(w) /\ SeenInv(w)
  BY TypeFacts
<1>2. intent[w].state \in Sealed \cup {"finalized"}
  BY <1>1 DEF RequestInv, ObjectInv
<1>3. CASE intent[w].state = "finalized"
  <2>1. Tracked(<<w, i>>) => <<w, i>> \in rows \cup deleting
    BY TrackFacts
  <2>2. intent[w].cursor \in Nat /\ intent[w].phase = "settlement"
        /\ intent[w].seen[i] \in {"unseen", "authoritative", "unowned_present", "absent"}
    BY <1>1, <1>3, TypeFacts DEF SeenInv, Intents
  <2> HIDE DEF Tracked, IsPast, IsPut, Ordinals
  <2>3. /\ intent[w].seen[i] # "unseen"
        /\ intent[w].seen[i] \in {"authoritative", "unowned_present"} => Tracked(<<w, i>>)
        /\ intent[w].closed \/ intent[w].seen[i] = "authoritative"
    BY <1>1, <1>3, <2>2 DEF SeenInv
  <2> QED BY <2>1, <2>2, <2>3
<1> QED BY <1>2, <1>3

(* Every attachment of an imported message is stored and stays clear of the
   deletion outbox, and an object that no message has is still somebody's to
   remove, whatever requests, alarm, bucket and user do to each other. *)
THEOREM ImportObjectsStaySafe == ImportSpec => []ImportObjectsAreSafe
<1>1. ASSUME ImportInv PROVE ImportObjectsAreSafe
  <2>1. ImportTypeOK /\ deleting \subseteq fenced /\ stored \subseteq Objects
    BY <1>1 DEF ImportInv, ImportTypeOK
  <2>2. ImportedIsStored
    <3>1. \A w \in Importers : w \in mail => ObjectsOf(w) \subseteq stored \ fenced
      BY <1>1, TypeFacts DEF ObjectInv
    <3>2. mail \subseteq Importers
      BY <2>1 DEF ImportTypeOK
    <3> HIDE DEF ObjectsOf
    <3> QED BY <2>1, <3>1, <3>2 DEF ImportedIsStored, Owned
  <2>3. StraysAreWatched
    <3>1. SUFFICES ASSUME NEW w \in Importers, NEW i \in Ordinals,
                          <<w, i>> \in stored, <<w, i>> \notin Owned
                   PROVE  \/ ipc[w] # "done" \/ intent[w].state \in Sealed
                          \/ <<w, i>> \in rows \cup deleting
                          \/ intent[w].closed /\ intent[w].seen[i] = "absent"
      BY <2>1 DEF StraysAreWatched, Objects
    <3>2. w \notin mail
      BY <3>1, ObjectFacts
    <3> QED BY <1>1, <3>1, <3>2, StraysLemma
  <2> QED BY <2>1, <2>2, <2>3 DEF ImportObjectsAreSafe
<1> QED BY <1>1, ImportInvariant, PTL

(* No reconciliation finds an object of the message missing or fenced: no
   intent is ever blocked. *)
THEOREM NoIntentIsBlocked ==
  ImportSpec => [](\A w \in Importers : intent[w].state # "integrity_blocked")
<1>1. ImportInv => \A w \in Importers : intent[w].state # "integrity_blocked"
  BY TypeFacts DEF SeenInv
<1> QED BY <1>1, ImportInvariant, PTL
=============================================================================
