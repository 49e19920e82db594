----------------------- MODULE EmergencyForwardProofs -----------------------
(***************************************************************************)
(* Proofs about EmergencyForward.  Every step of an actor a is taken apart *)
(* into what it does to the marker and the snapshots of it, to the receipt *)
(* and the snapshots of it, and to the rest; lemma Assemble puts the parts *)
(* together to ForwardInv' once the step's own obligations are met.        *)
(***************************************************************************)
EXTENDS EmergencyForward, TLAPS

\* The part of a step that concerns neither object.
Frame(a) ==
  /\ pc' \in [Actors -> PCs] /\ \A b \in Actors \ {a} : pc'[b] = pc[b]
  /\ g' \in [Actors -> 0..MaxGen] /\ \A b \in Actors \ {a} : g'[b] = g[b]
  /\ goal' \in [Actors -> Receipts] /\ \A b \in Actors \ {a} : goal'[b] = goal[b]
  /\ tries' \in [Actors -> 0..(MaxTries - 1)] /\ fails' \in 0..MaxFails
  /\ envelopes' \subseteq 1..MaxGen /\ top' \in 0..MaxGen
  /\ raw' = raw /\ truth' = truth /\ refused' = refused
  /\ accepted' \in BOOLEAN /\ (accepted => accepted')

\* The part that concerns the marker.
MEff(a) ==
  /\ marker' \in Marker /\ m' \in [Actors -> Marker] /\ mFresh' \subseteq Actors
  /\ \A b \in Actors \ {a} : m'[b] = m[b]
  /\ \A b \in mFresh' \ {a} : b \in mFresh /\ marker' = marker
  /\ pc'[a] \notin UsesMarker => m'[a] = NoMarker /\ a \notin mFresh'
  /\ a \in mFresh' => m'[a].here /\ marker'.here /\ m'[a].acc = marker'.acc
  /\ m'[a].acc => m'[a].here /\ accepted'
  /\ marker'.acc => marker'.here /\ accepted'

\* The part that concerns the receipt.
REff(a) ==
  /\ receipt' \in Receipts /\ r' \in [Actors -> Receipts] /\ rFresh' \subseteq Actors
  /\ \A b \in Actors \ {a} : r'[b] = r[b]
  /\ \A b \in rFresh' \ {a} : b \in rFresh /\ receipt' = receipt
  /\ a \in rFresh' => r'[a] = receipt'
  /\ r'[a] \in {"absent", r[a], receipt}

\* Neither object loses what others rely on.
Kept ==
  /\ Vouched(receipt)'
  /\ Settled \/ marker.here => Settled' \/ marker'.here
  /\ Recorded => Recorded'

LEMMA NoMarkerType == NoMarker \in Marker /\ ~NoMarker.here /\ ~NoMarker.acc
  BY ForwardAssumption DEF NoMarker, Marker

LEMMA NewMarkerType ==
  ASSUME NEW n \in 0..MaxGen, NEW att \in BOOLEAN, NEW live \in BOOLEAN
  PROVE  /\ NewMarker(n, att, live) \in Marker
         /\ NewMarker(n, att, live).here /\ ~NewMarker(n, att, live).acc
  BY DEF NewMarker, Marker

LEMMA Claimed ==
  ASSUME NEW mk \in Marker, mk.gen < MaxGen
  PROVE  LET v == [mk EXCEPT !.gen = @ + 1, !.att = FALSE, !.live = TRUE]
         IN  v \in Marker /\ v.here = mk.here /\ v.acc = mk.acc
<1>1. mk.gen + 1 \in 0..MaxGen
  BY ForwardAssumption DEF Marker
<1>2. ASSUME NEW n \in 0..MaxGen
      PROVE  LET v == [mk EXCEPT !.gen = n, !.att = FALSE, !.live = TRUE]
             IN  v \in Marker /\ v.here = mk.here /\ v.acc = mk.acc
  BY DEF Marker
<1> QED BY <1>1, <1>2

LEMMA Released ==
  ASSUME NEW mk \in Marker
  PROVE  LET v == [mk EXCEPT !.live = FALSE]
         IN  v \in Marker /\ v.here = mk.here /\ v.acc = mk.acc
  BY DEF Marker

LEMMA Beaten ==
  ASSUME NEW mk \in Marker
  PROVE  LET v == [mk EXCEPT !.att = TRUE, !.live = TRUE]
         IN  v \in Marker /\ v.here = mk.here /\ v.acc = mk.acc
  BY DEF Marker

LEMMA Stamped ==
  ASSUME NEW mk \in Marker
  PROVE  LET v == [mk EXCEPT !.acc = TRUE, !.live = TRUE]
         IN  v \in Marker /\ v.here = mk.here /\ v.acc
  BY DEF Marker

LEMMA Assemble ==
  ASSUME ForwardInv, NEW a \in Actors, Frame(a), MEff(a), REff(a), Kept,
         StepInv(a)'
  PROVE  ForwardInv'
<1>1. TypeOK'
  BY DEF ForwardInv, TypeOK, Frame, MEff, REff
<1>2. \A v \in Receipts : Vouched(v) => Vouched(v)'
  BY DEF Vouched, Frame
<1>3. ReceiptIsTrue' /\ (marker'.acc => marker'.here)
  BY DEF Kept, MEff, ReceiptIsTrue
<1>4. SnapshotInv(a)'
  <2>1. Vouched(r[a]) /\ Vouched(receipt) /\ Vouched("absent")
    BY DEF ForwardInv, SnapshotInv, ReceiptIsTrue, Vouched
  <2>2. Vouched(r[a])'
    BY <2>1, <1>2 DEF REff, ForwardInv, TypeOK, Receipts
  <2>3. r'[a] = "forwarded" => Recorded'
    <3>1. r[a] = "forwarded" \/ receipt = "forwarded" => Recorded
      BY DEF ForwardInv, SnapshotInv, Recorded
    <3> QED BY <3>1 DEF REff, Kept
  <2> QED
    BY <2>2, <2>3 DEF SnapshotInv, MEff, REff, Vouched
<1>5. ASSUME NEW b \in Actors, b # a PROVE SnapshotInv(b)' /\ StepInv(b)'
  <2>1. SnapshotInv(b) /\ StepInv(b)
    BY DEF ForwardInv
  <2>2. /\ pc'[b] = pc[b] /\ g'[b] = g[b] /\ goal'[b] = goal[b]
        /\ m'[b] = m[b] /\ r'[b] = r[b]
        /\ b \in mFresh' => b \in mFresh /\ marker' = marker
        /\ b \in rFresh' => b \in rFresh /\ receipt' = receipt
        /\ accepted => accepted'
    BY <1>5 DEF Frame, MEff, REff
  <2>3. Vouched(r[b])' /\ Vouched(goal[b])'
    BY <2>1, <2>2, <1>2 DEF SnapshotInv, StepInv, ForwardInv, TypeOK
  <2>4. SnapshotInv(b)'
    BY <2>1, <2>2, <2>3 DEF SnapshotInv, Kept, Vouched
  <2>5. StepInv(b)'
    BY <2>1, <2>2, <2>3 DEF StepInv, Kept, Vouched
  <2> QED BY <2>4, <2>5
<1> QED BY <1>1, <1>3, <1>4, <1>5 DEF ForwardInv

-----------------------------------------------------------------------------
(* What reads, holds and puts do                                           *)

LEMMA MarkerFacts ==
  ASSUME ForwardInv, NEW a \in Actors
  PROVE  /\ marker \in Marker /\ m \in [Actors -> Marker] /\ m[a] \in Marker
         /\ mFresh \subseteq Actors
         /\ a \in mFresh => m[a].here /\ marker.here /\ m[a].acc = marker.acc
         /\ m[a].acc => m[a].here /\ accepted
         /\ marker.acc => marker.here /\ accepted
  BY DEF ForwardInv, TypeOK, SnapshotInv, ReceiptIsTrue

LEMMA ReceiptFacts ==
  ASSUME ForwardInv, NEW a \in Actors
  PROVE  /\ receipt \in Receipts /\ r \in [Actors -> Receipts] /\ r[a] \in Receipts
         /\ rFresh \subseteq Actors
         /\ a \in rFresh => r[a] = receipt
         /\ Vouched(receipt) /\ Vouched(r[a]) /\ Vouched(goal[a])
         /\ r[a] = "forwarded" => Recorded
         /\ "absent" \in Receipts
  BY DEF ForwardInv, TypeOK, SnapshotInv, StepInv, ReceiptIsTrue, Receipts

LEMMA ReadMarkerEff ==
  ASSUME ForwardInv, NEW a \in Actors, ReadMarker(a), accepted => accepted'
  PROVE  MEff(a) /\ marker' = marker
  BY MarkerFacts, NoMarkerType DEF ReadMarker, MEff

LEMMA HoldMarkerEff ==
  ASSUME ForwardInv, NEW a \in Actors, HoldMarker(a), accepted => accepted'
  PROVE  MEff(a) /\ marker' = marker
  BY MarkerFacts, NoMarkerType DEF HoldMarker, MEff

LEMMA WriteMarkerEff ==
  ASSUME ForwardInv, NEW a \in Actors, NEW v \in Marker, WriteMarker(a, v),
         v.acc => v.here /\ accepted'
  PROVE  MEff(a) /\ marker' = v
  BY MarkerFacts, NoMarkerType DEF WriteMarker, MEff

LEMMA PutMarkerEff ==
  ASSUME ForwardInv, NEW a \in Actors, NEW v \in Marker, PutMarker(a, v),
         accepted => accepted',
         MarkerMatches(a) => (v.acc => v.here /\ accepted')
  PROVE  MEff(a) /\ (marker' = marker \/ (MarkerMatches(a) /\ marker' = v))
  <1>1. CASE ~MarkerMatches(a) /\ HoldMarker(a)
    BY <1>1, HoldMarkerEff
  <1>2. CASE MarkerMatches(a) /\ WriteMarker(a, v)
    BY <1>2, WriteMarkerEff
  <1> QED BY <1>1, <1>2 DEF PutMarker

LEMMA ReadReceiptEff ==
  ASSUME ForwardInv, NEW a \in Actors, ReadReceipt(a)
  PROVE  /\ REff(a) /\ receipt' = receipt
         /\ r'[a] \in {"absent", receipt}
         /\ receipt # "absent" /\ pc'[a] \in UsesReceipt => r'[a] = receipt
  BY ReceiptFacts DEF ReadReceipt, REff

LEMMA HoldReceiptEff ==
  ASSUME ForwardInv, NEW a \in Actors, HoldReceipt(a)
  PROVE  /\ REff(a) /\ receipt' = receipt
         /\ r'[a] \in {"absent", r[a]}
         /\ pc'[a] \in UsesReceipt => r'[a] = r[a]
  BY ReceiptFacts DEF HoldReceipt, REff

LEMMA WriteReceiptEff ==
  ASSUME ForwardInv, NEW a \in Actors, NEW v \in Receipts, WriteReceipt(a, v)
  PROVE  REff(a) /\ receipt' = v /\ r'[a] = "absent"
  BY ReceiptFacts DEF WriteReceipt, REff

LEMMA PutReceiptEff ==
  ASSUME ForwardInv, NEW a \in Actors, NEW v \in Receipts, PutReceipt(a, v)
  PROVE  /\ REff(a) /\ r'[a] \in {"absent", r[a]}
         /\ \/ receipt' = receipt
            \/ receipt' = v /\ receipt = r[a]
  <1>1. CASE ~ReceiptMatches(a) /\ HoldReceipt(a)
    BY <1>1, HoldReceiptEff
  <1>2. CASE ReceiptMatches(a) /\ WriteReceipt(a, v)
    BY <1>2, WriteReceiptEff, ReceiptFacts DEF ReceiptMatches
  <1> QED BY <1>1, <1>2 DEF PutReceipt

-----------------------------------------------------------------------------
(* The rest of a step                                                      *)

LEMMA QuietFrame ==
  ASSUME ForwardInv, NEW a \in Actors, NEW q \in PCs,
         pc' = [pc EXCEPT ![a] = q], Quiet(a)
  PROVE  /\ Frame(a) /\ pc'[a] = q /\ accepted' = accepted
         /\ goal'[a] \in {goal[a], "absent"} /\ Vouched(goal[a])'
         /\ q \notin {"idle", "done"} => goal'[a] = goal[a] /\ g'[a] = g[a]
<1>1. /\ pc \in [Actors -> PCs] /\ g \in [Actors -> 0..MaxGen]
      /\ goal \in [Actors -> Receipts] /\ accepted \in BOOLEAN
      /\ tries \in [Actors -> 0..(MaxTries - 1)] /\ fails \in 0..MaxFails
      /\ envelopes \subseteq 1..MaxGen /\ top \in 0..MaxGen
      /\ "absent" \in Receipts /\ 0 \in 0..MaxGen
      /\ Vouched(goal[a]) /\ Vouched("absent")
  BY ForwardAssumption
     DEF ForwardInv, TypeOK, StepInv, Receipts, Vouched
<1>2. pc' \in [Actors -> PCs] /\ pc'[a] = q /\ \A b \in Actors \ {a} : pc'[b] = pc[b]
  BY <1>1
<1>3. /\ g' \in [Actors -> 0..MaxGen] /\ g'[a] \in {0, g[a]}
      /\ \A b \in Actors \ {a} : g'[b] = g[b]
      /\ q \notin {"idle", "done"} => g'[a] = g[a]
  BY <1>1, <1>2 DEF Quiet
<1>4. /\ goal' \in [Actors -> Receipts] /\ goal'[a] \in {goal[a], "absent"}
      /\ \A b \in Actors \ {a} : goal'[b] = goal[b]
      /\ q \notin {"idle", "done"} => goal'[a] = goal[a]
  BY <1>1, <1>2 DEF Quiet
<1>5. Frame(a) /\ accepted' = accepted
  BY <1>1, <1>2, <1>3, <1>4 DEF Quiet, Frame, world
<1>6. Vouched(goal[a])'
  BY <1>1, <1>4, <1>5 DEF Vouched, Frame
<1> QED BY <1>2, <1>3, <1>4, <1>5, <1>6

LEMMA KeptIf ==
  ASSUME ForwardInv, NEW a \in Actors, Frame(a), Vouched(receipt)',
         marker.here => marker'.here \/ Settled',
         receipt = "forwarded" => Recorded'
  PROVE  Kept
  BY DEF Frame, Kept, Settled, Recorded

LEMMA KeptSame ==
  ASSUME ForwardInv, NEW a \in Actors, Frame(a), receipt' = receipt,
         marker.here => marker'.here
  PROVE  Kept
<1>1. Vouched(receipt)'
  BY ReceiptFacts DEF Vouched, Frame
<1> QED BY <1>1, KeptIf DEF Recorded

Hot == {"accept", "accept2", "commit", "commit2", "enrich", "enrich2", "sup",
        "sup2", "delete", "truth", "repair", "restore", "send", "resend"}
Early == {"idle", "create", "marker2"}

LEMMA Lands ==
  ASSUME ForwardInv, NEW a \in Actors, Frame(a), Kept, Vouched(goal[a])',
         pc[a] \in Early /\ pc'[a] \notin Early /\ a \in Callers => marker'.here,
         (a \in Ingress /\ pc[a] = "idle") => accepted',
         pc'[a] \in {"accept", "accept2", "commit", "commit2", "enrich", "enrich2"}
           => accepted',
         pc'[a] \in {"sup", "sup2"} => goal'[a] \in {"stored", "deleted", "mismatch"},
         pc'[a] = "delete" => Recorded',
         pc'[a] \in {"enrich", "enrich2"} /\ goal'[a] = "forwarded" => Recorded',
         pc'[a] \in {"truth", "repair", "restore"} => r'[a] # "forwarded",
         pc'[a] \in {"send", "resend"} => g'[a] > 0
  PROVE  StepInv(a)'
<1>1. a \in Callers /\ pc[a] \notin Early => Settled \/ marker.here
  BY DEF ForwardInv, StepInv, Early
<1>2. a \in Callers /\ pc'[a] \notin Early => Settled' \/ marker'.here
  BY <1>1 DEF Kept
<1>3. a \in Ingress => accepted' \/ pc'[a] = "idle"
  BY DEF ForwardInv, StepInv, Frame
<1> QED BY <1>2, <1>3 DEF StepInv, Early

-----------------------------------------------------------------------------
(* Steps that change nothing of their actor's intentions                   *)

LEMMA QuietStep ==
  ASSUME ForwardInv, NEW a \in Actors, NEW q \in PCs,
         pc' = [pc EXCEPT ![a] = q], Quiet(a), MEff(a), REff(a),
         Vouched(receipt)',
         marker.here => marker'.here \/ Settled',
         receipt = "forwarded" => Recorded',
         (a \in Callers /\ pc[a] \in Early /\ q \notin Early) => marker'.here,
         (a \in Ingress /\ pc[a] = "idle") => accepted,
         q \in {"accept", "accept2", "commit", "commit2", "enrich", "enrich2"}
           => accepted,
         q \in {"sup", "sup2"} => goal[a] \in {"stored", "deleted", "mismatch"},
         q = "delete" => Recorded',
         (q \in {"enrich", "enrich2"} /\ goal[a] = "forwarded") => Recorded',
         q \in {"truth", "repair", "restore"} => r'[a] # "forwarded",
         q \in {"send", "resend"} => g[a] > 0
  PROVE  ForwardInv'
<1>1. /\ Frame(a) /\ pc'[a] = q /\ accepted' = accepted
      /\ Vouched(goal[a])'
      /\ q \notin {"idle", "done"} => goal'[a] = goal[a] /\ g'[a] = g[a]
  BY QuietFrame
<1>2. Kept
  BY <1>1, KeptIf
<1>3. StepInv(a)'
  BY <1>1, <1>2, Lands
<1> QED BY <1>1, <1>2, <1>3, Assemble

\* ... nor of the objects.
LEMMA QuietSame ==
  ASSUME ForwardInv, NEW a \in Actors, NEW q \in PCs,
         pc' = [pc EXCEPT ![a] = q], Quiet(a), MEff(a), REff(a),
         receipt' = receipt, marker' = marker,
         (a \in Callers /\ pc[a] \in Early /\ q \notin Early) => marker.here,
         (a \in Ingress /\ pc[a] = "idle") => accepted,
         q \in {"accept", "accept2", "commit", "commit2", "enrich", "enrich2"}
           => accepted,
         q \in {"sup", "sup2"} => goal[a] \in {"stored", "deleted", "mismatch"},
         q = "delete" => Recorded,
         (q \in {"enrich", "enrich2"} /\ goal[a] = "forwarded") => Recorded,
         q \in {"truth", "repair", "restore"} => r'[a] # "forwarded",
         q \in {"send", "resend"} => g[a] > 0
  PROVE  ForwardInv'
<1>1. Frame(a) /\ accepted' = accepted
  BY QuietFrame
<1>2. Vouched(receipt)' /\ (Recorded => Recorded')
  BY <1>1, ReceiptFacts DEF Vouched, Frame, Recorded
<1>3. receipt = "forwarded" => Recorded
  BY DEF Recorded
<1> QED BY <1>1, <1>2, <1>3, QuietStep

LEMMA StillStep ==
  ASSUME ForwardInv, NEW a \in Actors, NEW q \in PCs,
         pc' = [pc EXCEPT ![a] = q], Still(a),
         (a \in Callers /\ pc[a] \in Early /\ q \notin Early) => marker.here,
         (a \in Ingress /\ pc[a] = "idle") => accepted,
         q \in {"accept", "accept2", "commit", "commit2", "enrich", "enrich2"}
           => accepted,
         q \in {"sup", "sup2"} => goal[a] \in {"stored", "deleted", "mismatch"},
         q = "delete" => Recorded,
         (q \in {"enrich", "enrich2"} /\ goal[a] = "forwarded") => Recorded,
         q \in {"truth", "repair", "restore"} => r[a] # "forwarded",
         q \in {"send", "resend"} => g[a] > 0
  PROVE  ForwardInv'
<1>1. accepted' = accepted
  BY DEF Still, Quiet
<1>2. MEff(a) /\ marker' = marker
  BY <1>1, HoldMarkerEff DEF Still
<1>3. /\ REff(a) /\ receipt' = receipt /\ r'[a] \in {"absent", r[a]}
  BY HoldReceiptEff DEF Still
<1> QED BY <1>2, <1>3, QuietSame DEF Still

-----------------------------------------------------------------------------
(* The steps of Shared                                                     *)

LEMMA CommitOk ==
  ASSUME ForwardInv, NEW a \in Actors, Commit(a) PROVE ForwardInv'
<1>1. accepted /\ accepted' = accepted /\ truth' = truth /\ raw' = raw /\ refused' = refused
  BY DEF Commit, Step, ForwardInv, StepInv, Quiet, world
<1>2. MEff(a) /\ marker' = marker
  BY <1>1, HoldMarkerEff DEF Commit
<1>3. REff(a) /\ (receipt' = receipt \/ receipt' = "forwarded")
  BY PutReceiptEff DEF Commit, Receipts
<1>4. Vouched(receipt)' /\ (receipt = "forwarded" => Recorded')
  BY <1>1, <1>3, ReceiptFacts DEF Vouched, Recorded
<1> QED
  BY <1>1, <1>2, <1>3, <1>4, QuietStep DEF Commit, Step, PCs, Covered, Early

LEMMA EnrichMarkerOk ==
  ASSUME ForwardInv, NEW a \in Actors, EnrichMarker(a) PROVE ForwardInv'
<1>1. /\ accepted /\ pc[a] = "enrich" /\ pc' = [pc EXCEPT ![a] = "enrich2"]
      /\ goal[a] = "forwarded" => Recorded
  BY DEF EnrichMarker, Step, ForwardInv, StepInv
<1>2. m[a] = NoMarker /\ a \notin mFresh
  BY <1>1 DEF ForwardInv, SnapshotInv, UsesMarker
<1>3. /\ accepted' = accepted /\ mFresh' \subseteq mFresh /\ marker' = marker /\ m' = m
      /\ Quiet(a) /\ HoldReceipt(a)
  BY DEF EnrichMarker, Quiet
<1>4. MEff(a)
  BY <1>2, <1>3, MarkerFacts, NoMarkerType DEF MEff
<1>5. REff(a) /\ receipt' = receipt
  BY <1>3, HoldReceiptEff
<1> QED
  BY <1>1, <1>3, <1>4, <1>5, QuietSame DEF PCs, Covered, Early

LEMMA EnrichedPC ==
  ASSUME ForwardInv, NEW a \in Actors, pc[a] \in {"enrich", "enrich2"}
  PROVE  /\ Enriched(a) \in {"delete", "ack"} /\ Enriched(a) \in PCs
         /\ accepted /\ pc[a] \notin Early
         /\ Enriched(a) = "delete" => Recorded
  BY DEF ForwardInv, StepInv, Enriched, PCs, Covered, Early

LEMMA EnrichReceiptOk ==
  ASSUME ForwardInv, NEW a \in Actors, EnrichReceipt(a) PROVE ForwardInv'
<1>1. /\ pc[a] = "enrich2" /\ pc' = [pc EXCEPT ![a] = Enriched(a)]
      /\ accepted' = accepted /\ Quiet(a) /\ HoldMarker(a)
      /\ WriteReceipt(a, "forwarded")
  BY DEF EnrichReceipt, Step, Quiet
<1>2. MEff(a) /\ marker' = marker
  BY <1>1, HoldMarkerEff
<1>3. REff(a) /\ receipt' = "forwarded"
  BY <1>1, WriteReceiptEff DEF Receipts
<1>4. Vouched(receipt)' /\ Recorded'
  BY <1>1, <1>3, EnrichedPC DEF Vouched, Recorded
<1> QED
  BY <1>1, <1>2, <1>3, <1>4, EnrichedPC, QuietStep

LEMMA EnrichGivenUpOk ==
  ASSUME ForwardInv, NEW a \in Actors, EnrichGivenUp(a) PROVE ForwardInv'
  BY EnrichedPC, StillStep DEF EnrichGivenUp

\* Steps that change their actor's intentions, but no object.
LEMMA FrameIf ==
  ASSUME ForwardInv, NEW a \in Actors, NEW q \in PCs, NEW x \in 0..MaxGen,
         NEW y \in Receipts, pc' = [pc EXCEPT ![a] = q],
         g' = [g EXCEPT ![a] = x], goal' = [goal EXCEPT ![a] = y],
         tries' \in [Actors -> 0..(MaxTries - 1)], fails' \in 0..MaxFails,
         envelopes' \subseteq 1..MaxGen, top' \in 0..MaxGen,
         UNCHANGED world, accepted' \in BOOLEAN, accepted => accepted'
  PROVE  Frame(a) /\ pc'[a] = q /\ g'[a] = x /\ goal'[a] = y
<1>1. /\ pc \in [Actors -> PCs] /\ g \in [Actors -> 0..MaxGen]
      /\ goal \in [Actors -> Receipts]
  BY DEF ForwardInv, TypeOK
<1>2. /\ pc' \in [Actors -> PCs] /\ pc'[a] = q
      /\ \A b \in Actors \ {a} : pc'[b] = pc[b]
  BY <1>1
<1>3. /\ g' \in [Actors -> 0..MaxGen] /\ g'[a] = x
      /\ \A b \in Actors \ {a} : g'[b] = g[b]
  BY <1>1
<1>4. /\ goal' \in [Actors -> Receipts] /\ goal'[a] = y
      /\ \A b \in Actors \ {a} : goal'[b] = goal[b]
  BY <1>1
<1> QED BY <1>2, <1>3, <1>4 DEF Frame, world

LEMMA Types ==
  ASSUME ForwardInv, NEW a \in Actors
  PROVE  /\ g[a] \in 0..MaxGen /\ goal[a] \in Receipts /\ "absent" \in Receipts
         /\ tries \in [Actors -> 0..(MaxTries - 1)] /\ fails \in 0..MaxFails
         /\ envelopes \subseteq 1..MaxGen /\ top \in 0..MaxGen
         /\ accepted \in BOOLEAN /\ pc[a] \in PCs /\ 0 \in 0..MaxGen
         /\ Vouched(goal[a]) /\ Vouched("absent")
  BY ForwardAssumption DEF ForwardInv, TypeOK, StepInv, Receipts, Vouched

LEMMA SameG ==
  ASSUME ForwardInv, NEW a \in Actors, g' = g PROVE g' = [g EXCEPT ![a] = g[a]]
  BY DEF ForwardInv, TypeOK

LEMMA FrameKeep ==
  ASSUME ForwardInv, NEW a \in Actors, NEW q \in PCs, NEW x \in 0..MaxGen,
         pc' = [pc EXCEPT ![a] = q], goal' = goal,
         g' = [g EXCEPT ![a] = x] \/ (g' = g /\ x = g[a]),
         tries' \in [Actors -> 0..(MaxTries - 1)], fails' \in 0..MaxFails,
         envelopes' \subseteq 1..MaxGen, top' \in 0..MaxGen,
         UNCHANGED world, accepted' \in BOOLEAN, accepted => accepted'
  PROVE  /\ Frame(a) /\ pc'[a] = q /\ g'[a] = x /\ goal'[a] = goal[a]
         /\ Vouched(goal[a])'
<1>1. /\ pc \in [Actors -> PCs] /\ g \in [Actors -> 0..MaxGen]
      /\ goal \in [Actors -> Receipts]
  BY DEF ForwardInv, TypeOK
<1>2. Frame(a) /\ pc'[a] = q /\ g'[a] = x
  <2>1. /\ pc' \in [Actors -> PCs] /\ pc'[a] = q
        /\ \A b \in Actors \ {a} : pc'[b] = pc[b]
    BY <1>1
  <2>2. /\ g' \in [Actors -> 0..MaxGen] /\ g'[a] = x
        /\ \A b \in Actors \ {a} : g'[b] = g[b]
    BY <1>1
  <2> QED BY <1>1, <2>1, <2>2 DEF Frame, world
<1>3. Vouched(goal[a])'
  BY Types DEF Vouched, world
<1> QED BY <1>2, <1>3

LEMMA LooseStep ==
  ASSUME ForwardInv, NEW a \in Actors, Frame(a), MEff(a), REff(a),
         receipt' = receipt, marker.here => marker'.here,
         Vouched(goal[a])',
         (a \in Callers /\ pc[a] \in Early /\ pc'[a] \notin Early) => marker'.here,
         (a \in Ingress /\ pc[a] = "idle") => accepted',
         pc'[a] \in {"accept", "accept2", "commit", "commit2", "enrich", "enrich2"}
           => accepted',
         pc'[a] \in {"sup", "sup2"} => goal'[a] \in {"stored", "deleted", "mismatch"},
         pc'[a] = "delete" => Recorded',
         (pc'[a] \in {"enrich", "enrich2"} /\ goal'[a] = "forwarded") => Recorded',
         pc'[a] \in {"truth", "repair", "restore"} => r'[a] # "forwarded",
         pc'[a] \in {"send", "resend"} => g'[a] > 0
  PROVE  ForwardInv'
<1>1. Kept
  BY KeptSame
<1>2. StepInv(a)'
  BY <1>1, Lands
<1> QED BY <1>1, <1>2, Assemble

LEMMA CommittedOk ==
  ASSUME ForwardInv, NEW a \in Actors, Committed(a) PROVE ForwardInv'
<1> DEFINE q == CASE receipt = "forwarded" /\ goal[a] = "forwarded" -> "enrich"
                  [] receipt = "forwarded" /\ goal[a] # "forwarded" -> "delete"
                  [] receipt # "forwarded" /\ a \in Ingress -> "enrich"
                  [] OTHER -> "idle"
           y == IF receipt = "forwarded" THEN goal[a] ELSE "absent"
<1>1. /\ q \in {"enrich", "delete", "idle"} /\ q \in PCs
      /\ q = "delete" => receipt = "forwarded"
      /\ (q = "enrich" /\ y = "forwarded") => receipt = "forwarded"
  BY DEF PCs, Covered
<1>2. /\ pc[a] = "commit2" /\ pc' = [pc EXCEPT ![a] = q]
      /\ goal' = [goal EXCEPT ![a] = y]
      /\ g' = [g EXCEPT ![a] = IF pc'[a] = "idle" THEN 0 ELSE g[a]]
      /\ HoldMarker(a) /\ HoldReceipt(a)
      /\ UNCHANGED <<world, accepted, envelopes, top, fails, tries>>
  BY DEF Committed, Step
<1> HIDE DEF q
<1>3. y \in Receipts /\ y \in {goal[a], "absent"}
  BY Types
<1> HIDE DEF y
<1>4. Frame(a) /\ pc'[a] = q /\ goal'[a] = y
  BY <1>1, <1>2, <1>3, FrameIf, Types
<1>5. accepted
  BY <1>2 DEF ForwardInv, StepInv
<1>6. MEff(a) /\ marker' = marker
  BY <1>2, HoldMarkerEff
<1>7. REff(a) /\ receipt' = receipt
  BY <1>2, HoldReceiptEff
<1>8. Vouched(goal[a])'
  BY <1>2, <1>3, <1>4, Types DEF Vouched, world
<1>9. receipt = "forwarded" => Recorded'
  BY <1>7 DEF Recorded
<1> QED
  BY <1>1, <1>2, <1>4, <1>5, <1>6, <1>7, <1>8, <1>9, LooseStep DEF Early

LEMMA DeleteMarkerOk ==
  ASSUME ForwardInv, NEW a \in Actors, DeleteMarker(a) PROVE ForwardInv'
<1> DEFINE q == IF a \in Sweepers THEN "idle" ELSE "ack"
<1>1. /\ pc[a] = "delete" /\ q \in PCs /\ q \notin Hot /\ pc' = [pc EXCEPT ![a] = q]
      /\ WriteMarker(a, NoMarker) /\ Quiet(a) /\ HoldReceipt(a)
  BY DEF DeleteMarker, Step, PCs, Hot
<1> HIDE DEF q
<1>2. Recorded
  BY <1>1 DEF ForwardInv, StepInv
<1>3. MEff(a)
  BY <1>1, WriteMarkerEff, NoMarkerType
<1>4. REff(a) /\ receipt' = receipt
  BY <1>1, HoldReceiptEff
<1>5. Vouched(receipt)' /\ Recorded' /\ Settled'
  BY <1>1, <1>2, <1>4, ReceiptFacts DEF Vouched, Recorded, Settled, Quiet, world
<1> QED
  BY <1>1, <1>3, <1>4, <1>5, QuietStep DEF Hot, Early

LEMMA KeepMarkerOk ==
  ASSUME ForwardInv, NEW a \in Actors, KeepMarker(a) PROVE ForwardInv'
<1>1. /\ pc[a] = "delete" /\ pc' = [pc EXCEPT ![a] = "ack"] /\ Still(a)
      /\ "ack" \in PCs
  BY DEF KeepMarker, Step, PCs
<1> QED BY <1>1, StillStep DEF Early

LEMMA SuppressOk ==
  ASSUME ForwardInv, NEW a \in Actors, Suppress(a) PROVE ForwardInv'
<1>1. /\ pc[a] = "sup" /\ goal[a] \in {"stored", "deleted", "mismatch"}
      /\ Vouched(goal[a])
  BY DEF Suppress, Step, ForwardInv, StepInv
<1>2. truth # "none" \/ raw = "mismatch"
  BY <1>1 DEF Vouched
<1>3. CASE Step(a, "sup", IF receipt = goal[a] THEN "delete" ELSE "sup2") /\ Still(a)
  BY <1>1, <1>2, <1>3, StillStep DEF Step, PCs, Covered, Early, Recorded
<1>4. CASE /\ Step(a, "sup", "sup2")
           /\ WriteReceipt(a, goal[a]) /\ Quiet(a) /\ HoldMarker(a)
  <2>1. accepted' = accepted /\ truth' = truth /\ raw' = raw /\ refused' = refused
    BY <1>4 DEF Quiet, world
  <2>2. MEff(a) /\ marker' = marker
    BY <1>4, <2>1, HoldMarkerEff
  <2>3. REff(a) /\ receipt' = goal[a]
    BY <1>4, Types, WriteReceiptEff
  <2>4. Vouched(receipt)' /\ Recorded'
    BY <1>1, <1>2, <2>1, <2>3 DEF Vouched, Recorded
  <2> QED
    BY <1>1, <1>4, <2>2, <2>3, <2>4, QuietStep DEF Step, PCs, Covered, Early
<1> QED BY <1>3, <1>4 DEF Suppress

LEMMA SuppressedOk ==
  ASSUME ForwardInv, NEW a \in Actors, Suppressed(a) PROVE ForwardInv'
<1>1. /\ pc[a] = "sup2" /\ goal[a] \in {"stored", "deleted", "mismatch"}
      /\ Vouched(goal[a])
  BY DEF Suppressed, Step, ForwardInv, StepInv
<1>2. Recorded
  BY <1>1 DEF Vouched, Recorded
<1> QED
  BY <1>1, <1>2, StillStep DEF Suppressed, Step, PCs, Covered, Early

LEMMA SendEnvelopeOk ==
  ASSUME ForwardInv, NEW a \in Actors, SendEnvelope(a) PROVE ForwardInv'
<1> DEFINE q == IF a \in Callers THEN "ack" ELSE "idle"
<1>1. /\ pc[a] = "send" /\ q \in PCs /\ q \notin Hot /\ pc' = [pc EXCEPT ![a] = q]
      /\ envelopes' = envelopes \cup {g[a]} /\ g' = [g EXCEPT ![a] = 0]
      /\ HoldMarker(a) /\ HoldReceipt(a)
      /\ UNCHANGED <<world, accepted, top, goal, fails, tries>>
  BY DEF SendEnvelope, Step, PCs, Hot
<1> HIDE DEF q
<1>2. g[a] \in 1..MaxGen
  BY <1>1, Types DEF ForwardInv, StepInv
<1>3. Frame(a) /\ pc'[a] = q /\ Vouched(goal[a])'
  BY <1>1, <1>2, FrameKeep, Types
<1>4. MEff(a) /\ marker' = marker
  BY <1>1, HoldMarkerEff
<1>5. REff(a) /\ receipt' = receipt
  BY <1>1, HoldReceiptEff
<1> QED
  BY <1>1, <1>3, <1>4, <1>5, LooseStep DEF Hot, Early

LEMMA SendFailsOk ==
  ASSUME ForwardInv, NEW a \in Actors, SendFails(a) PROVE ForwardInv'
<1>1. /\ pc[a] = "send" /\ "unclaim" \in PCs /\ pc' = [pc EXCEPT ![a] = "unclaim"]
      /\ envelopes' \subseteq envelopes \cup {g[a]} /\ g' = g
      /\ fails < MaxFails /\ fails' = fails + 1
      /\ HoldMarker(a) /\ HoldReceipt(a)
      /\ UNCHANGED <<world, accepted, top, goal, tries>>
  BY DEF SendFails, Step, PCs, local
<1>2. g[a] \in 1..MaxGen /\ fails' \in 0..MaxFails
  BY <1>1, Types, ForwardAssumption DEF ForwardInv, StepInv
<1>3. Frame(a) /\ pc'[a] = "unclaim" /\ Vouched(goal[a])'
  BY <1>1, <1>2, FrameKeep, Types
<1>4. MEff(a) /\ marker' = marker
  BY <1>1, HoldMarkerEff
<1>5. REff(a) /\ receipt' = receipt
  BY <1>1, HoldReceiptEff
<1> QED
  BY <1>1, <1>3, <1>4, <1>5, LooseStep DEF Early

LEMMA UnclaimOk ==
  ASSUME ForwardInv, NEW a \in Actors, Unclaim(a) PROVE ForwardInv'
<1>1. /\ pc[a] = "unclaim" /\ pc' = [pc EXCEPT ![a] = "idle"] /\ "idle" \in PCs
      /\ Quiet(a) /\ HoldReceipt(a) /\ accepted' = accepted
  BY DEF Unclaim, Step, PCs, Quiet
<1>2. REff(a) /\ receipt' = receipt
  BY <1>1, HoldReceiptEff
<1>3. CASE HoldMarker(a)
  BY <1>1, <1>3, StillStep DEF Still, Early
<1>4. CASE /\ marker.here /\ marker.gen = g[a]
           /\ WriteMarker(a, [marker EXCEPT !.live = FALSE])
  <2> DEFINE v == [marker EXCEPT !.live = FALSE]
  <2>1. v \in Marker /\ v.here = marker.here /\ v.acc = marker.acc
    BY Released, MarkerFacts
  <2>2. WriteMarker(a, v)
    BY <1>4
  <2> HIDE DEF v
  <2>3. MEff(a) /\ marker' = v
    BY <1>1, <2>1, <2>2, MarkerFacts, WriteMarkerEff
  <2>4. Vouched(receipt)' /\ (receipt = "forwarded" => Recorded')
    BY <1>1, <1>2, ReceiptFacts DEF Vouched, Recorded, Quiet, world
  <2> QED
    BY <1>1, <1>2, <1>4, <2>1, <2>3, <2>4, QuietStep DEF Early
<1> QED BY <1>3, <1>4 DEF Unclaim

LEMMA RecordAcceptedOk ==
  ASSUME ForwardInv, NEW a \in Actors, RecordAccepted(a) PROVE ForwardInv'
<1> DEFINE k == IF m[a].here THEN m[a] ELSE NewMarker(g[a], TRUE, TRUE)
           v == [k EXCEPT !.acc = TRUE, !.live = TRUE]
<1>1. /\ pc[a] = "accept" /\ pc' = [pc EXCEPT ![a] = "accept2"] /\ "accept2" \in PCs
      /\ Quiet(a) /\ HoldReceipt(a) /\ accepted' = accepted
      /\ PutMarker(a, v)
  BY DEF RecordAccepted, Step, PCs, Covered, Quiet
<1>2. k \in Marker /\ k.here
  BY MarkerFacts, NewMarkerType, Types
<1> HIDE DEF k
<1>3. v \in Marker /\ v.here
  BY <1>2, Stamped
<1> HIDE DEF v
<1>4. accepted
  BY <1>1 DEF ForwardInv, StepInv
<1>5. MEff(a) /\ (marker' = marker \/ marker' = v)
  BY <1>1, <1>3, <1>4, PutMarkerEff
<1>6. REff(a) /\ receipt' = receipt
  BY <1>1, HoldReceiptEff
<1>7. Vouched(receipt)' /\ (receipt = "forwarded" => Recorded')
  BY <1>1, <1>6, ReceiptFacts DEF Vouched, Recorded, Quiet, world
<1> QED
  BY <1>1, <1>3, <1>4, <1>5, <1>6, <1>7, QuietStep DEF Early

LEMMA RecordedAcceptedOk ==
  ASSUME ForwardInv, NEW a \in Actors, RecordedAccepted(a) PROVE ForwardInv'
<1> DEFINE q == IF a \in Consumers THEN "commit" ELSE "receipt"
<1>1. /\ pc[a] = "accept2" /\ q \in {"commit", "receipt"} /\ q \in PCs
      /\ pc' = [pc EXCEPT ![a] = q] /\ tries' = [tries EXCEPT ![a] = 0]
      /\ ReadMarker(a) /\ HoldReceipt(a)
      /\ UNCHANGED <<world, accepted, envelopes, top, g, goal, fails>>
  BY DEF RecordedAccepted, Step, PCs, Covered, local
<1> HIDE DEF q
<1>2. tries' \in [Actors -> 0..(MaxTries - 1)]
  BY <1>1, Types, ForwardAssumption
<1>3. Frame(a) /\ pc'[a] = q /\ Vouched(goal[a])'
  BY <1>1, <1>2, FrameKeep, Types
<1>4. MEff(a) /\ marker' = marker
  BY <1>1, ReadMarkerEff
<1>5. REff(a) /\ receipt' = receipt
  BY <1>1, HoldReceiptEff
<1>6. accepted'
  BY <1>1 DEF ForwardInv, StepInv
<1> QED
  BY <1>1, <1>3, <1>4, <1>5, <1>6, LooseStep DEF Early

LEMMA RecordsAgainOk ==
  ASSUME ForwardInv, NEW a \in Actors, RecordsAgain(a) PROVE ForwardInv'
<1>1. /\ pc[a] = "accept2" /\ "accept" \in PCs /\ tries[a] + 1 < MaxTries
      /\ pc' = [pc EXCEPT ![a] = "accept"] /\ tries' = [tries EXCEPT ![a] = @ + 1]
      /\ ReadMarker(a) /\ HoldReceipt(a)
      /\ UNCHANGED <<world, accepted, envelopes, top, g, goal, fails>>
  BY DEF RecordsAgain, Step, PCs, Covered, local
<1>2. tries' \in [Actors -> 0..(MaxTries - 1)]
  <2>1. tries[a] + 1 \in 0..(MaxTries - 1)
    BY <1>1, Types, ForwardAssumption
  <2> QED BY <1>1, <2>1, Types
<1>3. Frame(a) /\ pc'[a] = "accept" /\ Vouched(goal[a])'
  BY <1>1, <1>2, FrameKeep, Types
<1>4. MEff(a) /\ marker' = marker
  BY <1>1, ReadMarkerEff
<1>5. REff(a) /\ receipt' = receipt
  BY <1>1, HoldReceiptEff
<1>6. accepted'
  BY <1>1 DEF ForwardInv, StepInv
<1> QED
  BY <1>1, <1>3, <1>4, <1>5, <1>6, LooseStep DEF Early

\* Whatever ends an actor's run without touching an object.
LEMMA EndStep ==
  ASSUME ForwardInv, NEW a \in Actors, NEW q \in {"idle", "done"},
         pc[a] \notin Early \/ q = "idle" \/ a \notin Callers, pc[a] # "idle",
         pc' = [pc EXCEPT ![a] = q], tries' \in [Actors -> 0..(MaxTries - 1)],
         g' = [g EXCEPT ![a] = 0], goal' = [goal EXCEPT ![a] = "absent"],
         HoldMarker(a), HoldReceipt(a), fails' \in 0..MaxFails,
         envelopes' \subseteq envelopes, UNCHANGED <<world, accepted, top>>
  PROVE  ForwardInv'
<1>1. q \in PCs
  BY DEF PCs
<1>2. Frame(a) /\ pc'[a] = q /\ goal'[a] = "absent"
  BY <1>1, FrameIf, Types
<1>3. MEff(a) /\ marker' = marker
  BY HoldMarkerEff
<1>4. REff(a) /\ receipt' = receipt
  BY HoldReceiptEff
<1>5. Vouched(goal[a])'
  BY <1>2 DEF Vouched
<1> QED
  BY <1>2, <1>3, <1>4, <1>5, LooseStep DEF Early

LEMMA CallersAreNoIngress == \A a \in Actors : a \in Callers => a \notin Ingress
  BY ForwardAssumption

LEMMA RecordsNoMoreOk ==
  ASSUME ForwardInv, NEW a \in Actors, RecordsNoMore(a) PROVE ForwardInv'
<1>1. tries' \in [Actors -> 0..(MaxTries - 1)] /\ Out(a) \in {"idle", "done"}
  BY Types, ForwardAssumption DEF RecordsNoMore, Ends, Out
<1> QED
  BY <1>1, EndStep, Types DEF RecordsNoMore, Ends, Early

LEMMA CrashOk ==
  ASSUME ForwardInv, NEW a \in Actors, Crash(a) PROVE ForwardInv'
<1>1. tries' \in [Actors -> 0..(MaxTries - 1)] /\ Out(a) \in {"idle", "done"}
  BY Types, ForwardAssumption DEF Crash, Ends, Out
<1>2. fails' \in 0..MaxFails
  BY Types, ForwardAssumption DEF Crash
<1>3. a \in Callers => Out(a) = "idle"
  BY CallersAreNoIngress DEF Out
<1> QED
  BY <1>1, <1>2, <1>3, EndStep DEF Crash, Ends

LEMMA ReturnOk ==
  ASSUME ForwardInv, NEW a \in Actors, Return(a) PROVE ForwardInv'
<1> DEFINE q == IF a \in Consumers THEN "idle" ELSE "done"
<1>1. /\ pc[a] = "ack" /\ pc' = [pc EXCEPT ![a] = q] /\ q \in {"idle", "done"}
      /\ envelopes' \subseteq envelopes
      /\ g' = [g EXCEPT ![a] = 0] /\ goal' = [goal EXCEPT ![a] = "absent"]
      /\ HoldMarker(a) /\ HoldReceipt(a)
      /\ UNCHANGED <<world, accepted, top, fails, tries>>
  BY DEF Return, Step
<1> HIDE DEF q
<1> QED
  BY <1>1, EndStep, Types DEF Early

LEMMA SharedOk ==
  ASSUME ForwardInv, NEW a \in Actors, Shared(a) PROVE ForwardInv'
  BY CommitOk, CommittedOk, EnrichMarkerOk, EnrichReceiptOk, DeleteMarkerOk,
     SuppressOk, SuppressedOk, SendEnvelopeOk, UnclaimOk, RecordAcceptedOk,
     RecordedAcceptedOk, RecordsAgainOk, RecordsNoMoreOk, ReturnOk
     DEF Shared

-----------------------------------------------------------------------------
(* The steps of a consumer                                                 *)

LEMMA AuthorityPC ==
  ASSUME NEW c \in Actors, NEW mk, NEW rc, NEW live
  PROVE  WithAuthority(c, mk, rc, live) \in {"idle", "ack", "beat"}
  BY DEF WithAuthority

LEMMA PlainPCs ==
  /\ {"idle", "ack", "beat", "beat2", "lost", "mail", "truth2", "restore2",
      "repair2", "remark", "remark2", "claim", "receipt", "pending2", "create",
      "marker", "marker2", "winner", "done", "unclaim"} \subseteq PCs \ Hot
  /\ {"commit", "delete", "repair", "truth", "restore", "sup", "accept", "send",
      "resend", "enrich"} \subseteq PCs
  BY DEF PCs, Covered, Hot

LEMMA ReadHoldStep ==
  ASSUME ForwardInv, NEW a \in Actors, NEW q \in PCs,
         pc' = [pc EXCEPT ![a] = q], Quiet(a), ReadMarker(a), HoldReceipt(a),
         (a \in Callers /\ pc[a] \in Early /\ q \notin Early) => marker.here,
         (a \in Ingress /\ pc[a] = "idle") => accepted,
         q \notin Hot \/ (q = "commit" /\ accepted) \/ (q = "delete" /\ Recorded)
           \/ (q = "repair" /\ r[a] # "forwarded")
  PROVE  ForwardInv'
<1>1. accepted' = accepted
  BY DEF Quiet
<1>2. MEff(a) /\ marker' = marker
  BY <1>1, ReadMarkerEff
<1>3. REff(a) /\ receipt' = receipt /\ r'[a] \in {"absent", r[a]}
  BY HoldReceiptEff
<1> QED BY <1>2, <1>3, QuietSame DEF Hot

LEMMA ConsumerReadsMarkerOk ==
  ASSUME ForwardInv, NEW c \in Consumers, ConsumerReadsMarker(c) PROVE ForwardInv'
<1> c \in Actors
  BY DEF Actors
<1> DEFINE q == IF marker.acc THEN "commit"
       ELSE CASE r[c] \in {"forwarded", "rejected"} -> "delete"
              [] ~marker.here /\ r[c] \in {"pending", "quarantined"} -> "remark"
              [] marker.here /\ r[c] \in Unread \cup {"quarantined"} -> "repair"
              [] OTHER -> WithAuthority(c, marker, r[c], marker.live)
<1>1. /\ pc[c] = "marker" /\ pc' = [pc EXCEPT ![c] = q]
      /\ Quiet(c) /\ ReadMarker(c) /\ HoldReceipt(c)
  BY DEF ConsumerReadsMarker, Step
<1>2. \/ marker.acc /\ q = "commit"
      \/ r[c] \in {"forwarded", "rejected"} /\ q = "delete"
      \/ q = "remark"
      \/ r[c] \in Unread \cup {"quarantined"} /\ q = "repair"
      \/ q \in {"idle", "ack", "beat"}
  BY AuthorityPC
<1> HIDE DEF q
<1>3. r[c] \in {"forwarded", "rejected"} => Recorded
  BY ReceiptFacts DEF Vouched, Recorded
<1>4. c \notin Callers
  BY ForwardAssumption
<1>5. q \in PCs
  BY <1>2, PlainPCs
<1>6. q \notin Hot \/ (q = "commit" /\ accepted) \/ (q = "delete" /\ Recorded)
           \/ (q = "repair" /\ r[c] # "forwarded")
  BY <1>2, <1>3, PlainPCs, MarkerFacts DEF Unread
<1> QED
  BY <1>1, <1>4, <1>5, <1>6, ReadHoldStep

LEMMA RecreateMarkerOk ==
  ASSUME ForwardInv, NEW c \in Consumers, RecreateMarker(c) PROVE ForwardInv'
<1> c \in Actors
  BY DEF Actors
<1>1. /\ pc[c] = "remark" /\ Quiet(c) /\ HoldReceipt(c) /\ accepted' = accepted
      /\ pc' = [pc EXCEPT ![c] = IF raw = "intact" THEN "remark2" ELSE "idle"]
  BY DEF RecreateMarker, Step, Quiet
<1>2. CASE raw # "intact"
  BY <1>1, <1>2, StillStep, PlainPCs DEF RecreateMarker, Still, Early
<1>3. CASE raw = "intact"
  <2> DEFINE v == NewMarker(g[c], FALSE, TRUE)
  <2>1. v \in Marker /\ v.here /\ ~v.acc
    BY Types, NewMarkerType
  <2>2. PutMarker(c, v)
    BY <1>3 DEF RecreateMarker
  <2> HIDE DEF v
  <2>3. MEff(c) /\ (marker' = marker \/ marker' = v)
    BY <1>1, <2>1, <2>2, PutMarkerEff
  <2>4. REff(c) /\ receipt' = receipt
    BY <1>1, HoldReceiptEff
  <2>5. Vouched(receipt)' /\ (receipt = "forwarded" => Recorded')
    BY <1>1, <2>4, ReceiptFacts DEF Vouched, Recorded, Quiet, world
  <2>6. pc' = [pc EXCEPT ![c] = "remark2"] /\ "remark2" \in PCs
    BY <1>1, <1>3, PlainPCs
  <2> QED
    BY <1>1, <2>1, <2>3, <2>4, <2>5, <2>6, QuietStep DEF Early
<1> QED BY <1>2, <1>3

LEMMA RecreatedMarkerOk ==
  ASSUME ForwardInv, NEW c \in Consumers, RecreatedMarker(c) PROVE ForwardInv'
<1> c \in Actors
  BY DEF Actors
<1> DEFINE q == IF marker.here /\ r[c] = "quarantined" THEN "repair"
                ELSE WithAuthority(c, marker, r[c], marker.live)
<1>1. /\ pc[c] = "remark2" /\ pc' = [pc EXCEPT ![c] = q]
      /\ Quiet(c) /\ ReadMarker(c) /\ HoldReceipt(c)
  BY DEF RecreatedMarker, Step
<1>2. \/ r[c] = "quarantined" /\ q = "repair"
      \/ q \in {"idle", "ack", "beat"}
  BY AuthorityPC
<1> HIDE DEF q
<1> QED
  BY <1>1, <1>2, PlainPCs, ReadHoldStep DEF Early

LEMMA HoldReadStep ==
  ASSUME ForwardInv, NEW a \in Actors, NEW q \in PCs,
         pc' = [pc EXCEPT ![a] = q], Quiet(a), HoldMarker(a), ReadReceipt(a),
         pc[a] \notin Early,
         q \notin Hot \/ (q = "commit" /\ accepted) \/ (q = "delete" /\ Recorded)
           \/ (q = "truth" /\ receipt # "forwarded")
  PROVE  ForwardInv'
<1>1. accepted' = accepted
  BY DEF Quiet
<1>2. MEff(a) /\ marker' = marker
  BY <1>1, HoldMarkerEff
<1>3. REff(a) /\ receipt' = receipt /\ r'[a] \in {"absent", receipt}
  BY ReadReceiptEff
<1> QED BY <1>2, <1>3, QuietSame DEF Hot, Early

LEMMA ConsumerRepairedOk ==
  ASSUME ForwardInv, NEW c \in Consumers, ConsumerRepaired(c) PROVE ForwardInv'
<1> c \in Actors
  BY DEF Actors
<1> DEFINE q == IF receipt = "pending"
                THEN WithAuthority(c, m[c], receipt, LeaseIsLive(c)) ELSE "idle"
<1>1. /\ pc[c] = "repair2" /\ pc' = [pc EXCEPT ![c] = q]
      /\ Quiet(c) /\ HoldMarker(c) /\ ReadReceipt(c)
  BY DEF ConsumerRepaired, Step
<1>2. q \in {"idle", "ack", "beat"}
  BY AuthorityPC
<1> HIDE DEF q
<1> QED
  BY <1>1, <1>2, PlainPCs, HoldReadStep DEF Early

LEMMA HeartbeatOk ==
  ASSUME ForwardInv, NEW c \in Consumers, Heartbeat(c) PROVE ForwardInv'
<1> c \in Actors
  BY DEF Actors
<1> DEFINE q == IF MarkerMatches(c) THEN "beat2" ELSE "lost"
           v == [m[c] EXCEPT !.att = TRUE, !.live = TRUE]
<1>1. /\ pc[c] = "beat" /\ pc' = [pc EXCEPT ![c] = q] /\ q \in {"beat2", "lost"}
      /\ Quiet(c) /\ PutMarker(c, v) /\ HoldReceipt(c) /\ accepted' = accepted
  BY DEF Heartbeat, Step, Quiet
<1> HIDE DEF q
<1>2. v \in Marker /\ v.here = m[c].here /\ v.acc = m[c].acc
  BY Beaten, MarkerFacts
<1> HIDE DEF v
<1>3. MEff(c) /\ (marker' = marker \/ (MarkerMatches(c) /\ marker' = v))
  BY <1>1, <1>2, MarkerFacts, PutMarkerEff
<1>4. marker.here => marker'.here
  BY <1>2, <1>3 DEF MarkerMatches
<1>5. REff(c) /\ receipt' = receipt
  BY <1>1, HoldReceiptEff
<1>6. Vouched(receipt)' /\ (receipt = "forwarded" => Recorded')
  BY <1>1, <1>5, ReceiptFacts DEF Vouched, Recorded, Quiet, world
<1> QED
  BY <1>1, <1>3, <1>4, <1>5, <1>6, PlainPCs, QuietStep DEF Early

LEMMA HeartbeatHeldOk ==
  ASSUME ForwardInv, NEW c \in Consumers, HeartbeatHeld(c) PROVE ForwardInv'
<1> c \in Actors
  BY DEF Actors
<1> DEFINE q == IF ~marker.here \/ marker.gen # g[c] THEN "lost"
       ELSE CASE marker.acc -> "commit"
              [] ~marker.acc /\ raw = "missing" -> "idle"
              [] ~marker.acc /\ raw = "mismatch" -> "sup"
              [] ~marker.acc /\ raw = "intact" /\ r[c] \in NeedsTruth -> "truth"
              [] OTHER -> "truth2"
           y == IF q = "sup" THEN "mismatch" ELSE goal[c]
           x == IF q = "idle" THEN 0 ELSE g[c]
<1>1. /\ pc[c] = "beat2" /\ pc' = [pc EXCEPT ![c] = q]
      /\ goal' = [goal EXCEPT ![c] = IF pc'[c] = "sup" THEN "mismatch" ELSE goal[c]]
      /\ g' = [g EXCEPT ![c] = IF pc'[c] = "idle" THEN 0 ELSE g[c]]
      /\ ReadMarker(c) /\ HoldReceipt(c)
      /\ UNCHANGED <<world, accepted, envelopes, top, fails, tries>>
  BY DEF HeartbeatHeld, Step
<1>2. \/ q \in {"lost", "idle", "truth2"}
      \/ q = "commit" /\ marker.acc
      \/ q = "sup" /\ raw = "mismatch"
      \/ q = "truth" /\ r[c] \in NeedsTruth
  OBVIOUS
<1> HIDE DEF q
<1>3. pc'[c] = q
  BY <1>1 DEF ForwardInv, TypeOK
<1>4. goal' = [goal EXCEPT ![c] = y] /\ g' = [g EXCEPT ![c] = x]
  BY <1>1, <1>3
<1>5. y \in Receipts /\ x \in 0..MaxGen /\ y \in {"mismatch", goal[c]}
      /\ (q = "sup" => y = "mismatch") /\ (y = "mismatch" => (q = "sup" \/ y = goal[c]))
  BY Types DEF Receipts
<1> HIDE DEF y, x
<1>6. q \in PCs
  BY <1>2, PlainPCs
<1>7. Frame(c) /\ goal'[c] = y
  <2>1. /\ pc' = [pc EXCEPT ![c] = q]
        /\ UNCHANGED <<world, accepted, envelopes, top, fails, tries>>
    BY <1>1
  <2> QED BY <2>1, <1>4, <1>5, <1>6, FrameIf, Types
<1>8. MEff(c) /\ marker' = marker
  BY <1>1, ReadMarkerEff
<1>9. REff(c) /\ receipt' = receipt /\ r'[c] \in {"absent", r[c]}
  BY <1>1, HoldReceiptEff
<1>10. Vouched(goal[c])'
  <2>1. y = goal[c] \/ (y = "mismatch" /\ raw = "mismatch")
    BY <1>2, <1>5
  <2> QED BY <1>1, <1>7, <2>1, Types DEF Vouched, world
<1>11. q \notin Hot \/ (q = "commit" /\ accepted') \/ (q = "sup" /\ goal'[c] = "mismatch")
         \/ (q = "truth" /\ r'[c] # "forwarded")
  BY <1>1, <1>2, <1>5, <1>7, <1>9, PlainPCs, MarkerFacts DEF NeedsTruth
<1> QED
  BY <1>1, <1>3, <1>7, <1>8, <1>9, <1>10, <1>11, LooseStep DEF Hot, Early

LEMMA HeartbeatLostOk ==
  ASSUME ForwardInv, NEW c \in Consumers, HeartbeatLost(c) PROVE ForwardInv'
<1> c \in Actors
  BY DEF Actors
<1> DEFINE q == IF marker.here /\ marker.gen # g[c] THEN "ack" ELSE "idle"
<1>1. /\ pc[c] = "lost" /\ pc' = [pc EXCEPT ![c] = q] /\ q \in {"ack", "idle"}
      /\ Still(c)
  BY DEF HeartbeatLost, Step
<1> HIDE DEF q
<1> QED BY <1>1, PlainPCs, StillStep DEF Early, Hot

LEMMA MailboxHasItOk ==
  ASSUME ForwardInv, NEW a \in Actors, NEW p \in {"truth", "truth2"},
         MailboxHasIt(a, p)
  PROVE  ForwardInv'
<1>1. /\ pc[a] = p /\ pc' = [pc EXCEPT ![a] = "sup"] /\ truth # "none"
      /\ goal' = [goal EXCEPT ![a] = truth] /\ HoldMarker(a) /\ HoldReceipt(a)
      /\ UNCHANGED <<world, accepted, envelopes, top, g, fails, tries>>
  BY DEF MailboxHasIt, Step
<1>2. truth \in {"stored", "deleted"} /\ truth \in Receipts
  BY <1>1 DEF ForwardInv, TypeOK, Receipts
<1>3. g[a] \in 0..MaxGen /\ g' = [g EXCEPT ![a] = g[a]]
  BY <1>1, Types, SameG
<1>4. Frame(a) /\ pc'[a] = "sup" /\ goal'[a] = truth
  BY <1>1, <1>2, <1>3, FrameIf, Types, PlainPCs
<1>5. MEff(a) /\ marker' = marker
  BY <1>1, HoldMarkerEff
<1>6. REff(a) /\ receipt' = receipt
  BY <1>1, HoldReceiptEff
<1>7. Vouched(goal[a])'
  BY <1>1, <1>2, <1>4 DEF Vouched, world
<1> QED
  BY <1>1, <1>2, <1>4, <1>5, <1>6, <1>7, LooseStep DEF Early

LEMMA RepairReceiptOk ==
  ASSUME ForwardInv, NEW a \in Actors,
         NEW p \in {"repair", "restore"}, NEW q \in {"repair2", "restore2"},
         RepairReceipt(a, p, q)
  PROVE  ForwardInv'
<1>1. /\ pc[a] = p /\ Quiet(a) /\ HoldMarker(a) /\ accepted' = accepted
      /\ pc' = [pc EXCEPT ![a] = IF raw = "intact" THEN q ELSE "idle"]
  BY DEF RepairReceipt, Step, Quiet
<1>2. CASE raw # "intact"
  BY <1>1, <1>2, StillStep, PlainPCs DEF RepairReceipt, Still, Early
<1>3. CASE raw = "intact"
  <2>1. r[a] # "forwarded"
    BY <1>1 DEF ForwardInv, StepInv
  <2>2. REff(a) /\ (receipt' = receipt \/ (receipt' = "pending" /\ receipt = r[a]))
    BY <1>3, PutReceiptEff DEF RepairReceipt, Receipts
  <2>3. MEff(a) /\ marker' = marker
    BY <1>1, HoldMarkerEff
  <2>4. Vouched(receipt)' /\ (receipt = "forwarded" => Recorded')
    BY <1>1, <2>1, <2>2, ReceiptFacts DEF Vouched, Recorded, Quiet, world
  <2>5. pc' = [pc EXCEPT ![a] = q] /\ q \in PCs /\ q \notin Hot
    BY <1>1, <1>3, PlainPCs
  <2> QED
    BY <1>1, <2>2, <2>3, <2>4, <2>5, QuietStep DEF Early, Hot
<1> QED BY <1>2, <1>3

LEMMA MailboxIsSilentOk ==
  ASSUME ForwardInv, NEW a \in Actors, NEW p \in {"truth", "truth2"},
         NEW q \in {"restore", "repair", "mail"}, p = "truth" \/ q = "mail",
         MailboxIsSilent(a, p, q)
  PROVE  ForwardInv'
<1>1. /\ pc[a] = p /\ pc' = [pc EXCEPT ![a] = q] /\ Still(a) /\ q \in PCs
  BY PlainPCs DEF MailboxIsSilent, Step
<1>2. q # "mail" => r[a] # "forwarded"
  BY <1>1 DEF ForwardInv, StepInv
<1> QED
  BY <1>1, <1>2, StillStep DEF Early

LEMMA RestoredOk ==
  ASSUME ForwardInv, NEW c \in Consumers, Restored(c) PROVE ForwardInv'
<1> c \in Actors
  BY DEF Actors
<1> DEFINE q == IF receipt = "pending" THEN "truth2" ELSE "idle"
<1>1. /\ pc[c] = "restore2" /\ pc' = [pc EXCEPT ![c] = q]
      /\ Quiet(c) /\ HoldMarker(c) /\ ReadReceipt(c) /\ q \in {"truth2", "idle"}
  BY DEF Restored, Step
<1> HIDE DEF q
<1> QED
  BY <1>1, PlainPCs, HoldReadStep DEF Early

\* The provider accepts a consumer's or ingress' message.
LEMMA AcceptStep ==
  ASSUME ForwardInv, NEW a \in Actors, NEW q \in {"accept", "marker"},
         a \notin Callers, pc' = [pc EXCEPT ![a] = q], accepted',
         accepted' \in BOOLEAN, goal' = [goal EXCEPT ![a] = "forwarded"],
         HoldMarker(a), HoldReceipt(a),
         UNCHANGED <<world, envelopes, top, g, fails, tries>>
  PROVE  ForwardInv'
<1>1. g[a] \in 0..MaxGen /\ g' = [g EXCEPT ![a] = g[a]] /\ "forwarded" \in Receipts
  BY Types, SameG DEF Receipts
<1>2. Frame(a) /\ pc'[a] = q /\ goal'[a] = "forwarded"
  BY <1>1, FrameIf, Types, PlainPCs
<1>3. MEff(a) /\ marker' = marker
  BY HoldMarkerEff
<1>4. REff(a) /\ receipt' = receipt
  BY HoldReceiptEff
<1>5. Vouched(goal[a])'
  BY <1>2 DEF Vouched
<1> QED BY <1>2, <1>3, <1>4, <1>5, LooseStep

LEMMA MailAcceptedOk ==
  ASSUME ForwardInv, NEW c \in Consumers, MailAccepted(c) PROVE ForwardInv'
<1>1. c \in Actors /\ c \notin Callers
  BY ForwardAssumption DEF Actors
<1> QED
  BY <1>1, AcceptStep DEF MailAccepted, Step

LEMMA MailUnansweredOk ==
  ASSUME ForwardInv, NEW c \in Consumers, MailUnanswered(c) PROVE ForwardInv'
<1> c \in Actors
  BY DEF Actors
<1>1. /\ pc[c] = "mail" /\ pc' = [pc EXCEPT ![c] = "idle"]
      /\ accepted' \in {accepted, TRUE} /\ g' = [g EXCEPT ![c] = 0]
      /\ fails < MaxFails /\ fails' = fails + 1
      /\ HoldMarker(c) /\ HoldReceipt(c)
      /\ UNCHANGED <<world, envelopes, top, goal, tries>>
  BY DEF MailUnanswered, Step
<1>f. fails' \in 0..MaxFails
  BY <1>1, Types, ForwardAssumption
<1>a. accepted' \in BOOLEAN /\ (accepted => accepted')
  <2>1. accepted' = accepted \/ accepted' = TRUE
    BY <1>1
  <2>2. accepted \in BOOLEAN
    BY Types
  <2>3. CASE accepted' = accepted
    BY <2>2, <2>3
  <2>4. CASE accepted' = TRUE
    BY <2>4
  <2> QED BY <2>1, <2>3, <2>4
<1>2. fails' \in 0..MaxFails /\ accepted' \in BOOLEAN /\ (accepted => accepted')
  BY <1>f, <1>a
<1>3. Frame(c) /\ pc'[c] = "idle" /\ Vouched(goal[c])'
  BY <1>1, <1>2, FrameKeep, Types, PlainPCs
<1>4. MEff(c) /\ marker' = marker
  BY <1>1, <1>2, HoldMarkerEff
<1>5. REff(c) /\ receipt' = receipt
  BY <1>1, HoldReceiptEff
<1> QED
  BY <1>1, <1>3, <1>4, <1>5, LooseStep DEF Early

LEMMA DeliverOk ==
  ASSUME ForwardInv, NEW c \in Consumers, NEW e \in 1..MaxGen, Deliver(c, e)
  PROVE  ForwardInv'
<1>0. c \in Actors /\ c \notin Callers \cup Ingress /\ e \in 0..MaxGen
  BY ForwardAssumption DEF Actors
<1>1. /\ pc[c] = "idle" /\ pc' = [pc EXCEPT ![c] = "marker"]
      /\ g' = [g EXCEPT ![c] = e] /\ ReadReceipt(c) /\ HoldMarker(c)
      /\ UNCHANGED <<world, accepted, envelopes, top, goal, fails, tries>>
  BY DEF Deliver, Step
<1>3. Frame(c) /\ pc'[c] = "marker" /\ Vouched(goal[c])'
  BY <1>0, <1>1, FrameKeep, Types, PlainPCs
<1>4. MEff(c) /\ marker' = marker
  BY <1>0, <1>1, HoldMarkerEff
<1>5. REff(c) /\ receipt' = receipt
  BY <1>0, <1>1, ReadReceiptEff
<1> QED
  BY <1>0, <1>1, <1>3, <1>4, <1>5, LooseStep

LEMMA ConsumerOk ==
  ASSUME ForwardInv, NEW c \in Consumers, ConsumerStep(c) PROVE ForwardInv'
<1> c \in Actors
  BY DEF Actors
<1> QED
  BY ConsumerReadsMarkerOk, RecreateMarkerOk, RecreatedMarkerOk, RepairReceiptOk,
     ConsumerRepairedOk, HeartbeatOk, HeartbeatHeldOk, HeartbeatLostOk,
     MailboxHasItOk, MailboxIsSilentOk, RestoredOk, MailAcceptedOk
     DEF ConsumerStep

-----------------------------------------------------------------------------
(* The steps of a caller                                                   *)

LEMMA CallOk ==
  ASSUME ForwardInv, NEW b \in Callers, Call(b) PROVE ForwardInv'
<1> b \in Actors /\ b \notin Ingress
  BY ForwardAssumption DEF Actors
<1> DEFINE q == IF marker.here THEN "receipt" ELSE "create"
<1>1. /\ pc[b] = "idle" /\ pc' = [pc EXCEPT ![b] = q]
      /\ Quiet(b) /\ ReadMarker(b) /\ HoldReceipt(b)
      /\ q \in {"receipt", "create"} /\ (q = "receipt" => marker.here)
  BY DEF Call, Step
<1> HIDE DEF q
<1> QED BY <1>1, PlainPCs, ReadHoldStep DEF Early

LEMMA CreateMarkerOk ==
  ASSUME ForwardInv, NEW b \in Callers, CreateMarker(b) PROVE ForwardInv'
<1> b \in Actors
  BY DEF Actors
<1> DEFINE v == NewMarker(0, FALSE, FALSE)
<1>1. /\ pc[b] = "create" /\ pc' = [pc EXCEPT ![b] = "marker2"]
      /\ PutMarker(b, v) /\ Quiet(b) /\ HoldReceipt(b) /\ accepted' = accepted
  BY DEF CreateMarker, Step, Quiet
<1>2. v \in Marker /\ v.here /\ ~v.acc
  BY Types, NewMarkerType
<1> HIDE DEF v
<1>3. MEff(b) /\ (marker' = marker \/ marker' = v)
  BY <1>1, <1>2, PutMarkerEff
<1>4. REff(b) /\ receipt' = receipt
  BY <1>1, HoldReceiptEff
<1>5. Vouched(receipt)' /\ (receipt = "forwarded" => Recorded')
  BY <1>1, <1>4, ReceiptFacts DEF Vouched, Recorded, Quiet, world
<1>6. "marker2" \in PCs
  BY PlainPCs
<1> QED
  BY <1>1, <1>2, <1>3, <1>4, <1>5, <1>6, QuietStep DEF Early

LEMMA CreatedMarkerOk ==
  ASSUME ForwardInv, NEW b \in Callers, CreatedMarker(b) PROVE ForwardInv'
<1> b \in Actors
  BY DEF Actors
<1> DEFINE q == IF marker.here THEN "receipt" ELSE "idle"
<1>1. /\ pc[b] = "marker2" /\ pc' = [pc EXCEPT ![b] = q]
      /\ Quiet(b) /\ ReadMarker(b) /\ HoldReceipt(b)
      /\ q \in {"receipt", "idle"} /\ (q = "receipt" => marker.here)
  BY DEF CreatedMarker, Step
<1> HIDE DEF q
<1> QED BY <1>1, PlainPCs, ReadHoldStep DEF Early

\* A caller or a sweep has read marker and receipt.
LEMMA ReadsReceiptStep ==
  ASSUME ForwardInv, NEW a \in Actors, NEW z \in {"pending2", "truth"},
         pc[a] = "receipt", Quiet(a), HoldMarker(a), ReadReceipt(a),
         pc' = [pc EXCEPT ![a] =
           IF m[a].acc THEN "commit"
           ELSE CASE receipt \in {"forwarded", "rejected"} -> "delete"
                  [] receipt = "pending" -> "claim"
                  [] OTHER -> z]
  PROVE  ForwardInv'
<1> DEFINE q == IF m[a].acc THEN "commit"
                ELSE CASE receipt \in {"forwarded", "rejected"} -> "delete"
                       [] receipt = "pending" -> "claim"
                       [] OTHER -> z
<1>1. /\ pc' = [pc EXCEPT ![a] = q]
      /\ \/ m[a].acc /\ q = "commit"
         \/ receipt \in {"forwarded", "rejected"} /\ q = "delete"
         \/ q \in {"claim", "pending2"}
         \/ receipt # "forwarded" /\ q = "truth"
  OBVIOUS
<1> HIDE DEF q
<1>2. receipt \in {"forwarded", "rejected"} => Recorded
  BY ReceiptFacts DEF Vouched, Recorded
<1>3. q \in PCs
  BY <1>1, PlainPCs
<1>4. q \notin Hot \/ (q = "commit" /\ accepted) \/ (q = "delete" /\ Recorded)
        \/ (q = "truth" /\ receipt # "forwarded")
  BY <1>1, <1>2, MarkerFacts, PlainPCs
<1> QED BY <1>1, <1>3, <1>4, HoldReadStep DEF Early

LEMMA CallerReadsReceiptOk ==
  ASSUME ForwardInv, NEW b \in Callers, CallerReadsReceipt(b) PROVE ForwardInv'
  BY ReadsReceiptStep DEF CallerReadsReceipt, Step, Actors

LEMMA MakePendingOk ==
  ASSUME ForwardInv, NEW b \in Callers, MakePending(b) PROVE ForwardInv'
<1> b \in Actors
  BY DEF Actors
<1>1. /\ pc[b] = "receipt" /\ pc' = [pc EXCEPT ![b] = "claim"]
      /\ receipt # "forwarded" /\ WriteReceipt(b, "pending")
      /\ Quiet(b) /\ HoldMarker(b) /\ accepted' = accepted
  BY DEF MakePending, Step, Quiet
<1>2. MEff(b) /\ marker' = marker
  BY <1>1, HoldMarkerEff
<1>3. REff(b) /\ receipt' = "pending"
  BY <1>1, WriteReceiptEff DEF Receipts
<1>4. Vouched(receipt)'
  BY <1>3 DEF Vouched
<1>5. "claim" \in PCs
  BY PlainPCs
<1> QED
  BY <1>1, <1>2, <1>3, <1>4, <1>5, QuietStep DEF Early

LEMMA PendingByOtherOk ==
  ASSUME ForwardInv, NEW b \in Callers, PendingByOther(b) PROVE ForwardInv'
<1> b \in Actors
  BY DEF Actors
<1> DEFINE q == IF receipt = "pending" THEN "claim" ELSE "idle"
<1>1. /\ pc[b] = "pending2" /\ pc' = [pc EXCEPT ![b] = q] /\ Still(b)
      /\ q \in {"claim", "idle"}
  BY DEF PendingByOther, Step
<1> HIDE DEF q
<1> QED BY <1>1, PlainPCs, StillStep DEF Early, Hot

LEMMA TakeGenerationOk ==
  ASSUME ForwardInv, NEW a \in Actors, NEW mk \in Marker, mk.here,
         mk.acc => accepted, TakeGeneration(a, mk)
  PROVE  ForwardInv'
<1> DEFINE v == [mk EXCEPT !.gen = @ + 1, !.att = FALSE, !.live = TRUE]
           x == mk.gen + 1
<1>1. /\ pc[a] = "claim" /\ pc' = [pc EXCEPT ![a] = "send"] /\ mk.gen < MaxGen
      /\ WriteMarker(a, v) /\ g' = [g EXCEPT ![a] = x]
      /\ top' \in {x, top} /\ HoldReceipt(a)
      /\ UNCHANGED <<world, accepted, envelopes, goal, fails, tries>>
  BY DEF TakeGeneration, Step
<1>2. v \in Marker /\ v.here = mk.here /\ v.acc = mk.acc
  BY <1>1, Claimed
<1> HIDE DEF v
<1>3. x \in 0..MaxGen /\ x > 0
  BY <1>1, ForwardAssumption DEF Marker
<1> HIDE DEF x
<1>4. top' \in 0..MaxGen
  BY <1>1, <1>3, Types
<1>5. Frame(a) /\ pc'[a] = "send" /\ g'[a] = x /\ Vouched(goal[a])'
  BY <1>1, <1>3, <1>4, FrameKeep, Types, PlainPCs
<1>6. MEff(a) /\ marker' = v
  BY <1>1, <1>2, WriteMarkerEff
<1>7. REff(a) /\ receipt' = receipt
  BY <1>1, HoldReceiptEff
<1> QED
  BY <1>1, <1>2, <1>3, <1>5, <1>6, <1>7, LooseStep DEF Early

LEMMA CallerClaimsOk ==
  ASSUME ForwardInv, NEW b \in Callers, CallerClaims(b) PROVE ForwardInv'
<1>1. b \in Actors
  BY DEF Actors
<1> QED
  BY <1>1, MarkerFacts, TakeGenerationOk DEF CallerClaims

LEMMA CallerLosesOk ==
  ASSUME ForwardInv, NEW b \in Callers, CallerLoses(b) PROVE ForwardInv'
<1> b \in Actors
  BY DEF Actors
<1> DEFINE q == IF marker.here THEN "winner" ELSE "idle"
<1>1. /\ pc[b] = "claim" /\ pc' = [pc EXCEPT ![b] = q] /\ Still(b)
      /\ q \in {"winner", "idle"}
  BY DEF CallerLoses, Step
<1> HIDE DEF q
<1> QED BY <1>1, PlainPCs, StillStep DEF Early, Hot

LEMMA ReadWinnerOk ==
  ASSUME ForwardInv, NEW b \in Callers, ReadWinner(b) PROVE ForwardInv'
<1> b \in Actors
  BY DEF Actors
<1> DEFINE q == IF marker.here /\ marker.gen > 0 THEN "resend" ELSE "idle"
           x == IF marker.here THEN marker.gen ELSE 0
<1>1. /\ pc[b] = "winner" /\ pc' = [pc EXCEPT ![b] = q] /\ q \in {"resend", "idle"}
      /\ g' = [g EXCEPT ![b] = x] /\ HoldMarker(b) /\ HoldReceipt(b)
      /\ UNCHANGED <<world, accepted, envelopes, top, goal, fails, tries>>
  BY DEF ReadWinner, Step
<1>2. x \in 0..MaxGen /\ (q = "resend" => x > 0)
  BY MarkerFacts, Types DEF Marker
<1> HIDE DEF q, x
<1>3. Frame(b) /\ pc'[b] = q /\ g'[b] = x /\ Vouched(goal[b])'
  BY <1>1, <1>2, FrameKeep, Types, PlainPCs
<1>4. MEff(b) /\ marker' = marker
  BY <1>1, HoldMarkerEff
<1>5. REff(b) /\ receipt' = receipt
  BY <1>1, HoldReceiptEff
<1> QED
  BY <1>1, <1>2, <1>3, <1>4, <1>5, LooseStep DEF Early

LEMMA ResendOk ==
  ASSUME ForwardInv, NEW b \in Callers, Resend(b) PROVE ForwardInv'
<1> b \in Actors
  BY DEF Actors
<1>1. /\ pc[b] = "resend" /\ pc' = [pc EXCEPT ![b] = "ack"]
      /\ envelopes' = envelopes \cup {g[b]} /\ g' = [g EXCEPT ![b] = 0]
      /\ HoldMarker(b) /\ HoldReceipt(b)
      /\ UNCHANGED <<world, accepted, top, goal, fails, tries>>
  BY DEF Resend, Step
<1>2. g[b] \in 1..MaxGen
  BY <1>1, Types DEF ForwardInv, StepInv
<1>3. Frame(b) /\ pc'[b] = "ack" /\ Vouched(goal[b])'
  BY <1>1, <1>2, FrameKeep, Types, PlainPCs
<1>4. MEff(b) /\ marker' = marker
  BY <1>1, HoldMarkerEff
<1>5. REff(b) /\ receipt' = receipt
  BY <1>1, HoldReceiptEff
<1> QED
  BY <1>1, <1>3, <1>4, <1>5, LooseStep DEF Early

LEMMA CallerOk ==
  ASSUME ForwardInv, NEW b \in Callers, CallerStep(b) PROVE ForwardInv'
  BY CreateMarkerOk, CreatedMarkerOk, CallerReadsReceiptOk, MakePendingOk,
     PendingByOtherOk, CallerClaimsOk, CallerLosesOk, ReadWinnerOk, ResendOk
     DEF CallerStep

-----------------------------------------------------------------------------
(* The steps of the sweep and of ingress                                   *)

LEMMA SweepOk ==
  ASSUME ForwardInv, NEW k \in Sweepers, Sweep(k) PROVE ForwardInv'
<1> k \in Actors /\ k \notin Callers \cup Ingress
  BY ForwardAssumption DEF Actors
<1>1. /\ pc[k] = "idle" /\ pc' = [pc EXCEPT ![k] = "receipt"]
      /\ ReadMarker(k) /\ Quiet(k) /\ HoldReceipt(k)
  BY DEF Sweep, Step
<1> QED BY <1>1, PlainPCs, ReadHoldStep

LEMMA SweepReadsReceiptOk ==
  ASSUME ForwardInv, NEW k \in Sweepers, SweepReadsReceipt(k) PROVE ForwardInv'
  BY ReadsReceiptStep DEF SweepReadsReceipt, Step, Actors

LEMMA SweepRepairedOk ==
  ASSUME ForwardInv, NEW k \in Sweepers, SweepRepaired(k) PROVE ForwardInv'
<1> k \in Actors
  BY DEF Actors
<1> DEFINE q == IF receipt = "pending" THEN "claim" ELSE "idle"
<1>1. /\ pc[k] = "repair2" /\ pc' = [pc EXCEPT ![k] = q]
      /\ Quiet(k) /\ HoldMarker(k) /\ ReadReceipt(k) /\ q \in {"claim", "idle"}
  BY DEF SweepRepaired, Step
<1> HIDE DEF q
<1> QED
  BY <1>1, PlainPCs, HoldReadStep DEF Early

LEMMA SweepClaimsOk ==
  ASSUME ForwardInv, NEW k \in Sweepers, SweepClaims(k) PROVE ForwardInv'
<1>1. k \in Actors
  BY DEF Actors
<1> QED
  BY <1>1, MarkerFacts, TakeGenerationOk DEF SweepClaims

LEMMA SweepLeavesOk ==
  ASSUME ForwardInv, NEW k \in Sweepers, SweepLeaves(k) PROVE ForwardInv'
<1> k \in Actors
  BY DEF Actors
<1>1. /\ pc[k] = "claim" /\ pc' = [pc EXCEPT ![k] = "idle"] /\ Still(k)
  BY DEF SweepLeaves, Step
<1> QED BY <1>1, PlainPCs, StillStep DEF Early

LEMMA SweeperOk ==
  ASSUME ForwardInv, NEW k \in Sweepers, SweepStep(k) PROVE ForwardInv'
<1> k \in Actors
  BY DEF Actors
<1> QED
  BY SweepReadsReceiptOk, SweepClaimsOk, SweepLeavesOk, MailboxHasItOk,
     MailboxIsSilentOk, RepairReceiptOk, SweepRepairedOk
     DEF SweepStep

LEMMA IngressForwardsOk ==
  ASSUME ForwardInv, NEW i \in Ingress, IngressForwards(i) PROVE ForwardInv'
<1>1. i \in Actors /\ i \notin Callers
  BY ForwardAssumption DEF Actors
<1> QED
  BY <1>1, AcceptStep DEF IngressForwards, Step

LEMMA IngressReadsMarkerOk ==
  ASSUME ForwardInv, NEW i \in Ingress, NEW p \in {"marker", "marker2"},
         NEW z \in {"create", "done"}, IngressReadsMarker(i, p, z)
  PROVE  ForwardInv'
<1> i \in Actors /\ i \notin Callers
  BY ForwardAssumption DEF Actors
<1> DEFINE q == CASE ~marker.here -> z
                  [] marker.here /\ marker.acc -> "receipt"
                  [] OTHER -> "accept"
           x == CASE q = "done" -> 0 [] q = "create" -> 1 [] OTHER -> marker.gen
           y == IF q = "done" THEN "absent" ELSE goal[i]
<1>1. /\ pc[i] = p /\ pc' = [pc EXCEPT ![i] = q]
      /\ g' = [g EXCEPT ![i] = CASE pc'[i] = "done" -> 0
                                 [] pc'[i] = "create" -> 1
                                 [] OTHER -> marker.gen]
      /\ goal' = [goal EXCEPT ![i] = IF pc'[i] = "done" THEN "absent" ELSE goal[i]]
      /\ ReadMarker(i) /\ HoldReceipt(i)
      /\ UNCHANGED <<world, accepted, envelopes, top, fails, tries>>
  BY DEF IngressReadsMarker, Step
<1>2. q \in {"create", "done", "receipt", "accept"}
  OBVIOUS
<1> HIDE DEF q
<1>3. pc'[i] = q
  BY <1>1 DEF ForwardInv, TypeOK
<1>4. goal' = [goal EXCEPT ![i] = y] /\ g' = [g EXCEPT ![i] = x]
  BY <1>1, <1>3
<1>5. y \in Receipts /\ y \in {goal[i], "absent"}
  BY Types
<1>6. x \in 0..MaxGen
  BY MarkerFacts, Types, ForwardAssumption DEF Marker
<1> HIDE DEF y, x
<1>7. /\ ReadMarker(i) /\ HoldReceipt(i) /\ pc' = [pc EXCEPT ![i] = q]
      /\ UNCHANGED <<world, accepted, envelopes, top, fails, tries>>
  BY <1>1
<1>8. Frame(i) /\ goal'[i] = y
  BY <1>2, <1>4, <1>5, <1>6, <1>7, FrameIf, Types, PlainPCs
<1>9. MEff(i) /\ marker' = marker
  BY <1>7, ReadMarkerEff
<1>10. REff(i) /\ receipt' = receipt
  BY <1>7, HoldReceiptEff
<1>11. Vouched(goal[i])'
  BY <1>5, <1>7, <1>8, Types DEF Vouched, world
<1>12. accepted' /\ pc[i] # "idle"
  BY <1>1, <1>7 DEF ForwardInv, StepInv
<1> QED
  BY <1>2, <1>3, <1>8, <1>9, <1>10, <1>11, <1>12, LooseStep

LEMMA IngressCreatesOk ==
  ASSUME ForwardInv, NEW i \in Ingress, IngressCreates(i) PROVE ForwardInv'
<1> i \in Actors
  BY DEF Actors
<1> DEFINE v == NewMarker(1, TRUE, TRUE)
<1>1. /\ pc[i] = "create" /\ pc' = [pc EXCEPT ![i] = "marker2"]
      /\ PutMarker(i, v) /\ Quiet(i) /\ HoldReceipt(i) /\ accepted' = accepted
  BY DEF IngressCreates, Step, Quiet
<1>2. v \in Marker /\ v.here /\ ~v.acc
  <2>1. 1 \in 0..MaxGen
    BY ForwardAssumption
  <2> QED BY <2>1, NewMarkerType
<1> HIDE DEF v
<1>3. MEff(i) /\ (marker' = marker \/ marker' = v)
  BY <1>1, <1>2, PutMarkerEff
<1>4. REff(i) /\ receipt' = receipt
  BY <1>1, HoldReceiptEff
<1>5. Vouched(receipt)' /\ (receipt = "forwarded" => Recorded')
  BY <1>1, <1>4, ReceiptFacts DEF Vouched, Recorded, Quiet, world
<1>6. "marker2" \in PCs
  BY PlainPCs
<1> QED
  BY <1>1, <1>2, <1>3, <1>4, <1>5, <1>6, QuietStep DEF Early

LEMMA IngressReadsReceiptOk ==
  ASSUME ForwardInv, NEW i \in Ingress, IngressReadsReceipt(i) PROVE ForwardInv'
<1> i \in Actors
  BY DEF Actors
<1>1. /\ pc[i] = "receipt" /\ pc' = [pc EXCEPT ![i] = "commit"]
      /\ ReadReceipt(i) /\ Quiet(i) /\ HoldMarker(i)
  BY DEF IngressReadsReceipt, Step
<1>2. accepted
  BY <1>1 DEF ForwardInv, StepInv
<1> QED BY <1>1, <1>2, PlainPCs, HoldReadStep DEF Early

LEMMA IngressOk ==
  ASSUME ForwardInv, NEW i \in Ingress, IngressStep(i) PROVE ForwardInv'
  BY IngressReadsMarkerOk, IngressCreatesOk, IngressReadsReceiptOk DEF IngressStep

-----------------------------------------------------------------------------
(* What happens around the actors                                          *)

LEMMA AroundStep ==
  ASSUME ForwardInv, TypeOK', UNCHANGED <<m, mFresh, r, pc, g, goal, raw, accepted>>,
         marker'.here = marker.here, marker'.acc = marker.acc,
         rFresh' = {} \/ (rFresh' = rFresh /\ receipt' = receipt),
         Vouched(receipt)', \A v \in Receipts : Vouched(v) => Vouched(v)',
         Settled => Settled', Recorded => Recorded'
  PROVE  ForwardInv'
<1>1. ReceiptIsTrue' /\ (marker'.acc => marker'.here)
  BY DEF ForwardInv, ReceiptIsTrue
<1>2. ASSUME NEW a \in Actors PROVE SnapshotInv(a)' /\ StepInv(a)'
  <2>1. /\ SnapshotInv(a) /\ StepInv(a) /\ r[a] \in Receipts /\ goal[a] \in Receipts
    BY DEF ForwardInv, TypeOK
  <2>2. Vouched(r[a])' /\ Vouched(goal[a])'
    BY <2>1 DEF SnapshotInv, StepInv, Vouched
  <2>3. SnapshotInv(a)'
    BY <2>1, <2>2 DEF SnapshotInv, Vouched
  <2>4. StepInv(a)'
    BY <2>1, <2>2 DEF StepInv, Vouched
  <2> QED BY <2>3, <2>4
<1> QED BY <1>1, <1>2 DEF ForwardInv

LEMMA DropEnvelopeOk ==
  ASSUME ForwardInv, NEW e \in 1..MaxGen, DropEnvelope(e) PROVE ForwardInv'
<1>1. TypeOK'
  BY DEF ForwardInv, TypeOK, DropEnvelope, mVars, rVars, world, local
<1>2. Vouched(receipt) /\ (Recorded => Recorded') /\ (Settled => Settled')
  BY DEF DropEnvelope, rVars, world, ForwardInv, ReceiptIsTrue, Recorded, Settled
<1>3. \A v \in Receipts : Vouched(v) => Vouched(v)'
  BY DEF DropEnvelope, world, Vouched
<1>4. Vouched(receipt)'
  BY <1>2 DEF DropEnvelope, rVars, world, Vouched
<1> QED
  BY <1>1, <1>2, <1>3, <1>4, AroundStep DEF DropEnvelope, mVars, rVars, world, local

LEMMA LeaseExpiresOk ==
  ASSUME ForwardInv, LeaseExpires PROVE ForwardInv'
<1>0. /\ marker' \in Marker /\ marker'.here = marker.here /\ marker'.acc = marker.acc
  BY Released DEF LeaseExpires, ForwardInv, TypeOK
<1>1. TypeOK'
  BY <1>0 DEF ForwardInv, TypeOK, LeaseExpires, rVars, world, local
<1>2. Vouched(receipt) /\ (Recorded => Recorded') /\ (Settled => Settled')
  BY DEF LeaseExpires, rVars, world, ForwardInv, ReceiptIsTrue, Recorded, Settled
<1>3. \A v \in Receipts : Vouched(v) => Vouched(v)'
  BY DEF LeaseExpires, world, Vouched
<1>4. Vouched(receipt)'
  BY <1>2 DEF LeaseExpires, rVars, world, Vouched
<1>5. UNCHANGED <<m, mFresh, r, pc, g, goal, raw, accepted, receipt, rFresh>>
  BY DEF LeaseExpires, rVars, world, local
<1> QED
  BY <1>0, <1>1, <1>2, <1>3, <1>4, <1>5, AroundStep

LEMMA MailboxChangesOk ==
  ASSUME ForwardInv, MailboxChanges PROVE ForwardInv'
<1>0. /\ UNCHANGED <<marker, m, mFresh, receipt, r, rFresh, pc, g, goal, raw, refused>>
      /\ UNCHANGED <<accepted, envelopes, top, fails, tries>>
      /\ truth' \in {"stored", "deleted"} /\ truth \in {"none", "stored"}
      /\ truth = "stored" => truth' = "deleted"
  BY DEF MailboxChanges, mVars, rVars, local
<1>1. TypeOK'
  BY <1>0 DEF ForwardInv, TypeOK
<1>2. Vouched(receipt) /\ Recorded' /\ Settled'
  BY <1>0 DEF ForwardInv, ReceiptIsTrue, Recorded, Settled
<1>3. \A v \in Receipts : Vouched(v) => Vouched(v)'
  BY <1>0 DEF Vouched
<1>4. Vouched(receipt)'
  BY <1>0, <1>2, <1>3 DEF Vouched
<1> QED
  BY <1>0, <1>1, <1>2, <1>3, <1>4, AroundStep

LEMMA QueueFinalizesOk ==
  ASSUME ForwardInv, NEW v \in {"stored", "deleted", "mismatch"}, QueueFinalizes(v)
  PROVE  ForwardInv'
<1>0. /\ UNCHANGED <<marker, m, mFresh, r, pc, g, goal, raw, truth, refused>>
      /\ UNCHANGED <<accepted, envelopes, top, fails, tries>>
      /\ receipt' = v /\ rFresh' = {} /\ receipt # "forwarded"
      /\ v = "stored" => truth # "none"
      /\ v = "deleted" => truth = "deleted"
      /\ v = "mismatch" => raw = "mismatch"
  BY DEF QueueFinalizes, mVars, local, world
<1>1. TypeOK'
  BY <1>0 DEF ForwardInv, TypeOK, Receipts
<1>2. (Recorded => Recorded') /\ (Settled => Settled')
  BY <1>0 DEF Recorded, Settled
<1>3. \A w \in Receipts : Vouched(w) => Vouched(w)'
  BY <1>0 DEF Vouched
<1>4. Vouched(receipt)'
  BY <1>0 DEF Vouched
<1> QED
  BY <1>0, <1>1, <1>2, <1>3, <1>4, AroundStep

LEMMA RejectionLandsOk ==
  ASSUME ForwardInv, RejectionLands PROVE ForwardInv'
<1>0. /\ UNCHANGED <<marker, m, mFresh, r, pc, g, goal, raw, truth>>
      /\ UNCHANGED <<accepted, envelopes, top, fails, tries>>
      /\ receipt' = "rejected" /\ rFresh' = {} /\ refused' = TRUE
  BY DEF RejectionLands, mVars, local
<1>1. TypeOK'
  BY <1>0 DEF ForwardInv, TypeOK, Receipts
<1>2. Recorded' /\ Settled'
  BY <1>0 DEF Recorded, Settled
<1>3. \A w \in Receipts : Vouched(w) => Vouched(w)'
  BY <1>0 DEF Vouched
<1>4. Vouched(receipt)'
  BY <1>0 DEF Vouched
<1> QED
  BY <1>0, <1>1, <1>2, <1>3, <1>4, AroundStep

-----------------------------------------------------------------------------
(* The theorems                                                            *)

LEMMA InitOk == Init => ForwardInv
<1> SUFFICES ASSUME Init PROVE ForwardInv
  OBVIOUS
<1>1. TypeOK
  <2>1. 0 \in 0..MaxGen /\ 0 \in 0..(MaxTries - 1) /\ 0 \in 0..MaxFails
    BY ForwardAssumption
  <2>2. receipt \in Receipts /\ raw \in {"intact", "mismatch", "missing"}
    BY ForwardAssumption DEF Init, Receipts
  <2>3. "absent" \in Receipts /\ "idle" \in PCs
    BY DEF Receipts, PCs
  <2>4. marker \in Marker /\ m \in [Actors -> Marker]
    BY NoMarkerType DEF Init
  <2>5. /\ r \in [Actors -> Receipts] /\ goal \in [Actors -> Receipts]
        /\ pc \in [Actors -> PCs]
    BY <2>3 DEF Init
  <2>6. g \in [Actors -> 0..MaxGen] /\ tries \in [Actors -> 0..(MaxTries - 1)]
    BY <2>1 DEF Init
  <2> QED BY <2>1, <2>2, <2>4, <2>5, <2>6 DEF Init, TypeOK
<1>2. Vouched(receipt) /\ Vouched("absent")
  BY ForwardAssumption DEF Init, Vouched
<1>3. ASSUME NEW a \in Actors PROVE SnapshotInv(a) /\ StepInv(a)
  BY <1>2, NoMarkerType DEF Init, SnapshotInv, StepInv
<1> QED
  BY <1>1, <1>2, <1>3, NoMarkerType DEF Init, ForwardInv, ReceiptIsTrue

LEMMA AdvanceOk ==
  ASSUME ForwardInv, NEW a \in Actors, Advance(a) PROVE ForwardInv'
  BY SharedOk, ConsumerOk, CallerOk, SweeperOk, IngressOk DEF Advance

LEMMA NextOk == ForwardInv /\ [Next]_vars => ForwardInv'
<1> SUFFICES ASSUME ForwardInv, [Next]_vars PROVE ForwardInv'
  OBVIOUS
<1>1. CASE \E a \in Actors :
        Advance(a) \/ EnrichGivenUp(a) \/ KeepMarker(a) \/ SendFails(a) \/ Crash(a)
  BY <1>1, AdvanceOk, EnrichGivenUpOk, KeepMarkerOk, SendFailsOk, CrashOk
<1>2. CASE \E c \in Consumers :
        MailUnanswered(c) \/ \E e \in 1..MaxGen : Deliver(c, e)
  BY <1>2, MailUnansweredOk, DeliverOk
<1>3. CASE \/ \E b \in Callers : Call(b)
           \/ \E k \in Sweepers : Sweep(k)
           \/ \E i \in Ingress : IngressForwards(i)
  BY <1>3, CallOk, SweepOk, IngressForwardsOk
<1>4. CASE \/ \E e \in 1..MaxGen : DropEnvelope(e)
           \/ LeaseExpires \/ MailboxChanges \/ RejectionLands
           \/ \E v \in {"stored", "deleted", "mismatch"} : QueueFinalizes(v)
  BY <1>4, DropEnvelopeOk, LeaseExpiresOk, MailboxChangesOk, RejectionLandsOk,
     QueueFinalizesOk
<1>5. CASE UNCHANGED vars
  BY <1>5 DEF vars, mVars, rVars, world, local, ForwardInv, TypeOK, ReceiptIsTrue,
     SnapshotInv, StepInv, Vouched, Recorded, Settled
<1> QED BY <1>1, <1>2, <1>3, <1>4, <1>5 DEF Next

\* The inductive invariant of the protocol holds for any number of consumers,
\* callers, sweeps and ingress calls, any bound on generations and failures,
\* with or without attempts that outlive their lease.
THEOREM ForwardInvariant == Spec => []ForwardInv
<1>1. Init => ForwardInv
  BY InitOk
<1>2. ForwardInv /\ [Next]_vars => ForwardInv'
  BY NextOk
<1> QED BY <1>1, <1>2, PTL DEF Spec

\* A receipt or an accepted marker never says more than what happened: in
\* particular forwarded is written only after the provider took the message.
THEOREM ReceiptsAreTrue == Spec => []ReceiptIsTrue
<1>1. ForwardInv => ReceiptIsTrue
  BY DEF ForwardInv
<1> QED BY <1>1, ForwardInvariant, PTL

\* Once beginEmergencyForward has returned, the sweep finds the marker of a
\* message that is not settled, in spite of the unconditional deletes.
THEOREM NobodyIsStranded == Spec => []NothingIsStranded
<1>1. ForwardInv => NothingIsStranded
  BY DEF ForwardInv, StepInv, NothingIsStranded, Actors
<1> QED BY <1>1, ForwardInvariant, PTL

\* No step but a deletion takes an acceptance from the marker.
LEMMA AccHeld ==
  ASSUME ForwardInv, NEW a \in Actors, marker.acc,
         HoldMarker(a) \/ ReadMarker(a) \/ marker' = marker
  PROVE  marker'.acc
  BY DEF HoldMarker, ReadMarker

LEMMA AccTaken ==
  ASSUME ForwardInv, NEW a \in Actors, marker.acc, NEW mk \in Marker,
         mk.acc = marker.acc, TakeGeneration(a, mk)
  PROVE  marker'.acc
  BY Claimed DEF TakeGeneration, WriteMarker

LEMMA AccPut ==
  ASSUME ForwardInv, NEW a \in Actors, marker.acc, NEW v \in Marker,
         PutMarker(a, v), pc[a] \notin UsesMarker \/ v.acc = m[a].acc \/ v.acc
  PROVE  marker'.acc
<1>1. MarkerMatches(a) /\ pc[a] \notin UsesMarker => ~marker.here
  BY NoMarkerType DEF ForwardInv, SnapshotInv, MarkerMatches
<1>2. MarkerMatches(a) => m[a].acc = marker.acc \/ ~marker.here
  BY MarkerFacts DEF MarkerMatches
<1> QED
  BY <1>1, <1>2, MarkerFacts DEF PutMarker, WriteMarker, HoldMarker

LEMMA SharedHolds ==
  ASSUME ForwardInv, NEW a \in Actors, marker.acc, Shared(a)
  PROVE  marker'.acc \/ Recorded
<1>1. CASE DeleteMarker(a)
  BY <1>1 DEF DeleteMarker, Step, ForwardInv, StepInv
<1>2. CASE Unclaim(a)
  BY <1>2, AccHeld, Released, MarkerFacts DEF Unclaim, WriteMarker
<1>3. CASE RecordAccepted(a)
  <2> DEFINE k == IF m[a].here THEN m[a] ELSE NewMarker(g[a], TRUE, TRUE)
             v == [k EXCEPT !.acc = TRUE, !.live = TRUE]
  <2>1. k \in Marker
    BY MarkerFacts, NewMarkerType, Types
  <2>2. PutMarker(a, v)
    BY <1>3 DEF RecordAccepted
  <2> HIDE DEF k
  <2>3. v \in Marker /\ v.acc
    BY <2>1, Stamped
  <2> HIDE DEF v
  <2> QED BY <2>2, <2>3, AccPut
<1>4. CASE EnrichMarker(a)
  BY <1>4 DEF EnrichMarker
<1>5. CASE Commit(a) \/ Committed(a) \/ EnrichReceipt(a) \/ Suppressed(a) \/ SendEnvelope(a)
  BY <1>5, AccHeld DEF Commit, Committed, EnrichReceipt, Suppressed, SendEnvelope, Still
<1>6. CASE RecordedAccepted(a) \/ RecordsAgain(a) \/ RecordsNoMore(a) \/ Return(a)
  BY <1>6, AccHeld DEF RecordedAccepted, RecordsAgain, RecordsNoMore, Ends, Return
<1>7. CASE Suppress(a)
  BY <1>7, AccHeld DEF Suppress, Still
<1> QED BY <1>1, <1>2, <1>3, <1>4, <1>5, <1>6, <1>7 DEF Shared

LEMMA ConsumerHolds ==
  ASSUME ForwardInv, NEW a \in Consumers, marker.acc, ConsumerStep(a)
  PROVE  marker'.acc
<1> a \in Actors
  BY DEF Actors
<1>1. CASE RecreateMarker(a)
  <2>1. CASE raw = "intact"
    <3> DEFINE v == NewMarker(g[a], FALSE, TRUE)
    <3>1. v \in Marker
      BY Types, NewMarkerType
    <3>2. PutMarker(a, v) /\ pc[a] \notin UsesMarker
      BY <1>1, <2>1 DEF RecreateMarker, Step, UsesMarker
    <3> HIDE DEF v
    <3> QED BY <3>1, <3>2, AccPut
  <2>2. CASE raw # "intact"
    BY <1>1, <2>2, AccHeld DEF RecreateMarker
  <2> QED BY <2>1, <2>2
<1>2. CASE Heartbeat(a)
  <2> DEFINE v == [m[a] EXCEPT !.att = TRUE, !.live = TRUE]
  <2>1. v \in Marker /\ v.acc = m[a].acc
    BY Beaten, MarkerFacts
  <2>2. PutMarker(a, v)
    BY <1>2 DEF Heartbeat
  <2> HIDE DEF v
  <2> QED BY <2>1, <2>2, AccPut
<1>3. CASE \/ ConsumerReadsMarker(a) \/ RecreatedMarker(a)
           \/ HeartbeatHeld(a) \/ HeartbeatLost(a) \/ MailAccepted(a)
  BY <1>3, AccHeld DEF ConsumerReadsMarker, RecreatedMarker, HeartbeatHeld,
     HeartbeatLost, Still, MailAccepted
<1>4. CASE ConsumerRepaired(a) \/ Restored(a)
  BY <1>4, AccHeld DEF ConsumerRepaired, Restored
<1>5. CASE \/ \E p \in {"truth", "truth2"} : MailboxHasIt(a, p)
           \/ \E p, q \in PCs : MailboxIsSilent(a, p, q) \/ RepairReceipt(a, p, q)
  BY <1>5, AccHeld DEF MailboxHasIt, MailboxIsSilent, Still, RepairReceipt
<1> QED
  BY <1>1, <1>2, <1>3, <1>4, <1>5, PlainPCs DEF ConsumerStep

LEMMA CallerHolds ==
  ASSUME ForwardInv, NEW a \in Callers, marker.acc, CallerStep(a)
  PROVE  marker'.acc
<1> a \in Actors
  BY DEF Actors
<1>1. CASE CreateMarker(a)
  <2> DEFINE v == NewMarker(0, FALSE, FALSE)
  <2>1. v \in Marker
    BY Types, NewMarkerType
  <2>2. PutMarker(a, v) /\ pc[a] \notin UsesMarker
    BY <1>1 DEF CreateMarker, Step, UsesMarker
  <2> HIDE DEF v
  <2> QED BY <2>1, <2>2, AccPut
<1>2. CASE CallerClaims(a)
  BY <1>2, AccTaken, MarkerFacts DEF CallerClaims
<1>3. CASE \/ CreatedMarker(a) \/ CallerReadsReceipt(a) \/ MakePending(a)
           \/ PendingByOther(a) \/ CallerLoses(a) \/ ReadWinner(a) \/ Resend(a)
  BY <1>3, AccHeld DEF CreatedMarker, CallerReadsReceipt, MakePending,
     PendingByOther, CallerLoses, ReadWinner, Resend, Still
<1> QED BY <1>1, <1>2, <1>3 DEF CallerStep

LEMMA SweepHolds ==
  ASSUME ForwardInv, NEW a \in Sweepers, marker.acc, SweepStep(a)
  PROVE  marker'.acc
<1> a \in Actors
  BY DEF Actors
<1>1. CASE SweepClaims(a)
  BY <1>1, AccTaken, MarkerFacts DEF SweepClaims
<1>2. CASE SweepReadsReceipt(a) \/ SweepRepaired(a) \/ SweepLeaves(a)
  BY <1>2, AccHeld DEF SweepReadsReceipt, SweepRepaired, SweepLeaves, Still
<1>3. CASE \/ MailboxHasIt(a, "truth") \/ MailboxIsSilent(a, "truth", "repair")
           \/ RepairReceipt(a, "repair", "repair2")
  BY <1>3, AccHeld DEF MailboxHasIt, MailboxIsSilent, Still, RepairReceipt
<1> QED BY <1>1, <1>2, <1>3 DEF SweepStep

LEMMA IngressHolds ==
  ASSUME ForwardInv, NEW a \in Ingress, marker.acc, IngressStep(a)
  PROVE  marker'.acc
<1> a \in Actors
  BY DEF Actors
<1>1. CASE IngressCreates(a)
  <2> DEFINE v == NewMarker(1, TRUE, TRUE)
  <2>1. v \in Marker
    <3>1. 1 \in 0..MaxGen
      BY ForwardAssumption
    <3> QED BY <3>1, NewMarkerType
  <2>2. PutMarker(a, v) /\ pc[a] \notin UsesMarker
    BY <1>1 DEF IngressCreates, Step, UsesMarker
  <2> HIDE DEF v
  <2> QED BY <2>1, <2>2, AccPut
<1>2. CASE \/ IngressReadsMarker(a, "marker", "create")
           \/ IngressReadsMarker(a, "marker2", "done") \/ IngressReadsReceipt(a)
  BY <1>2, AccHeld DEF IngressReadsMarker, IngressReadsReceipt
<1> QED BY <1>1, <1>2 DEF IngressStep

LEMMA NextHolds ==
  ForwardInv /\ [Next]_vars => (marker.acc /\ ~marker'.acc => Recorded)
<1> SUFFICES ASSUME ForwardInv, [Next]_vars, marker.acc PROVE marker'.acc \/ Recorded
  OBVIOUS
<1>1. ASSUME NEW a \in Actors,
        Advance(a) \/ EnrichGivenUp(a) \/ KeepMarker(a) \/ SendFails(a) \/ Crash(a)
      PROVE marker'.acc \/ Recorded
  <2>1. CASE Advance(a)
    BY <2>1, SharedHolds, ConsumerHolds, CallerHolds, SweepHolds, IngressHolds
       DEF Advance
  <2>2. CASE EnrichGivenUp(a) \/ KeepMarker(a) \/ SendFails(a) \/ Crash(a)
    BY <2>2, AccHeld DEF EnrichGivenUp, KeepMarker, SendFails, Crash, Ends, Still
  <2> QED BY <1>1, <2>1, <2>2
<1>2. CASE \E c \in Consumers :
        MailUnanswered(c) \/ \E e \in 1..MaxGen : Deliver(c, e)
  BY <1>2, AccHeld DEF MailUnanswered, Deliver, Actors
<1>3. CASE \/ \E b \in Callers : Call(b)
           \/ \E k \in Sweepers : Sweep(k)
           \/ \E i \in Ingress : IngressForwards(i)
  BY <1>3, AccHeld DEF Call, Sweep, IngressForwards, Actors
<1>4. CASE LeaseExpires
  BY <1>4, Released DEF LeaseExpires, ForwardInv, TypeOK
<1>5. CASE \/ \E e \in 1..MaxGen : DropEnvelope(e)
           \/ MailboxChanges \/ RejectionLands \/ UNCHANGED vars
           \/ \E v \in {"stored", "deleted", "mismatch"} : QueueFinalizes(v)
  BY <1>5 DEF DropEnvelope, MailboxChanges, RejectionLands, QueueFinalizes, vars, mVars
<1> QED BY <1>1, <1>2, <1>3, <1>4, <1>5 DEF Next

\* The marker's record of an acceptance is never lost to a later claim,
\* heartbeat, repair or late write: only a deletion takes it away, once the
\* receipt says forwarded or the message is settled otherwise.
THEOREM AcceptanceStays == Spec => AcceptanceIsKept
<1>1. ForwardInv /\ [Next]_vars => [marker.acc /\ ~marker'.acc => Recorded]_vars
  BY NextHolds
<1> QED BY <1>1, ForwardInvariant, PTL DEF Spec, AcceptanceIsKept
=============================================================================
