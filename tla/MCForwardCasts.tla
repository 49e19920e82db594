--------------------------- MODULE MCForwardCasts ---------------------------
(* EmergencyForward for TLC.  One run explores four casts: who takes       *)
(* part, in which circumstances, and within which bounds.                  *)
EXTENDS MCEmergencyForward

VARIABLE cast

One == {CHOOSE c \in Consumers : TRUE}

\* Both lanes and every circumstance; the sweep with a lane, when no caller is
\* at work, and with a caller; ingress and a failure.
Casts ==
  {[who |-> Consumers \cup Callers, first |-> FirstReceipts, raws |-> RawStates,
    truths |-> {"stored", "deleted"}, gens |-> 2, fails |-> 0],
   [who |-> One \cup Callers \cup Sweepers, first |-> {"absent"},
    raws |-> {"intact"}, truths |-> {"stored"}, gens |-> 1, fails |-> 0],
   [who |-> Callers \cup Sweepers, first |-> {"absent"},
    raws |-> {"intact"}, truths |-> {"stored"}, gens |-> 1, fails |-> 0],
   [who |-> One \cup Callers \cup Ingress, first |-> FirstReceipts,
    raws |-> RawStates, truths |-> {}, gens |-> 2, fails |-> 1]}

CastInit == cast \in Casts /\ Init /\ receipt \in cast.first /\ raw \in cast.raws

Resting(a) == pc[a] \in {"idle", "done"}
InTurn == cast.gens = 1 /\ One \subseteq cast.who

CastNext ==
  /\ Next /\ UNCHANGED cast
  /\ \A a \in Actors \ cast.who : pc'[a] = pc[a]
  /\ truth' \in {"none"} \cup cast.truths
  /\ top' <= cast.gens /\ fails' <= cast.fails
  /\ cast.gens = 1 /\ pc' = pc => envelopes' = envelopes
  /\ cast.gens = 1 => tries' = tries
  /\ InTurn /\ (\E b \in Callers : ~Resting(b)) => \A a \in Actors \ Callers : pc'[a] = pc[a]

CastSpec == CastInit /\ [][CastNext]_<<vars, cast>>
=============================================================================
