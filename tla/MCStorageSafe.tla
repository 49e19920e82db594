--------------------------- MODULE MCStorageSafe ----------------------------
(* The objects of a mailbox, its semantic index and its automation rules   *)
(* in one run.  They share no state here, so a behaviour explores one of   *)
(* them, chosen at the start, while the others stay in an initial state.   *)
EXTENDS R2Ownership, AutomationRules, SemanticIndex, TLC

VARIABLE which

\* Lease tokens are interchangeable; the index takes them for its own.
Symmetry == Permutations(Leases)
AllTokens == Leases \cup {NoLease}

\* A message with an attachment; one that changes twice; two in one page of the
\* backfill, or in two.
Subjects ==
  CASE which = "edited" -> {2} [] which \in {"one page", "two pages"} -> {2, 3} [] OTHER -> {1}
IndexCasts == {"attached", "edited", "one page", "two pages"}

Index ==
  /\ IndexInit /\ batch = (IF which = "one page" THEN 2 ELSE 1)
  /\ \A m \in Emails \ Subjects : mail[m].place = "gone"
  /\ which \in IndexCasts \/ mail[1].place = "in"

\* Two messages are explored with one change and no failure.
Projects ==
  /\ IndexNext /\ \A m \in Emails \ Subjects : mail'[m] = mail[m]
  /\ IF Cardinality(Subjects) = 2 THEN edits' <= 1 /\ faults' = 0
     ELSE /\ NoLease \in Unused'
          /\ which = "attached" => edits' <= 1

Wish(hits, labels, move, stop) == [hits |-> hits, labels |-> labels, move |-> move, stop |-> stop]

ForEdits == {Wish({1}, {"l"}, NoFolder, FALSE), Wish({1}, {}, "f", FALSE)}
ForOrder == {Wish({1}, {"l"}, "g", FALSE), Wish({1}, {}, "f", FALSE),
             Wish({1}, {"l"}, NoFolder, TRUE), Wish({}, {"l"}, "f", TRUE)}
ForTalk == {Wish({1, 2}, {"l"}, "g", FALSE), Wish({1}, {}, "f", FALSE)}
MCDefinitions == ForEdits \cup ForOrder \cup ForTalk

\* n rules, created, tested and enabled one after the other, and seen by editors;
\* their tests have expired.
Ready(n, wishes) ==
  /\ \E d \in [1..n -> wishes] :
       /\ version = [r \in Rules |-> IF r <= n THEN <<d[r]>> ELSE <<>>]
       /\ proven = [r \in Rules |-> IF r <= n THEN {d[r]} ELSE {}]
  /\ rule = [r \in Rules |->
       IF r <= n THEN [state |-> "enabled", active |-> 1, draft |-> 0, position |-> r, revision |-> 2]
       ELSE NoRule]
  /\ refs = [r \in Rules |-> IF r <= n THEN {1} ELSE {}] /\ order = n
  /\ tests = [r \in Rules |-> [d \in Definitions |-> "none"]]
  /\ view = [e \in Members |-> [rules |-> rule, order |-> order]] /\ exists = Targets /\ blind = FALSE
  /\ box = [m \in Mails |-> [folder |-> "none", labels |-> {}]]
  /\ run = [m \in Mails |-> NoRun] /\ runRefs = [m \in Mails |-> {}]

Automation ==
  CASE which = "ordered rules" -> Ready(3, ForOrder)
    [] which \in {"moving rules", "conversation"} -> Ready(2, ForTalk)
    [] OTHER -> RulesInit

\* One member edits, the other looks no more once that has begun.
OneEdits(seen) == \E e \in Members : \A r \in Rules : view'[e].rules[r].revision <= seen

\* One rule, two definitions and one folder, and mail up to n.
OneRule(n) ==
  /\ \A r \in Rules : rule'[r] # NoRule => r = 1
  /\ \A i \in DOMAIN version'[1] : version'[1][i] \in ForEdits
  /\ \A d \in Definitions \ ForEdits : tests'[1][d] = "none"
  /\ "g" \in exists' /\ \A m \in Mails : box'[m].folder = "none" \/ (m <= n /\ box'[m].folder # "g")

\* Two members at one rule; one at two rules that change places; a rule that
\* changes, and fails no test, while its run is open; three rules and a message;
\* two rules and the two messages of a conversation.
Rule ==
  /\ which \in {"ordered rules", "conversation"} => UNCHANGED editVars
  /\ which \in {"shared rule", "moving rules"} => UNCHANGED <<box, runVars>>
  /\ RulesNext
  /\ which = "shared rule" => OneRule(0) /\ order' <= 3
  /\ which = "changing rule" =>
       /\ OneRule(1) /\ OneEdits(0) /\ order' <= 2 /\ \A m \in Mails : run'[m].attempts <= 1
       /\ \A d \in Definitions : tests'[1][d] # "failed"
  /\ which = "moving rules" =>
       OneEdits(2) /\ \A r \in Rules : rule'[r] # NoRule => r <= 2 /\ Len(version'[r]) = 1
  /\ which = "ordered rules" => box'[2].folder = "none"

StorageInit ==
  /\ which \in {"objects", "attached", "edited", "one page", "two pages", "shared rule",
               "moving rules", "changing rule", "ordered rules", "conversation"}
  /\ Init /\ Index /\ Automation

StorageNext ==
  /\ UNCHANGED which
  /\ \/ which = "objects" /\ Next /\ UNCHANGED <<semanticVars, autoVars>>
     \/ which \in IndexCasts /\ Projects /\ UNCHANGED <<vars, autoVars>>
     \/ /\ which \in {"shared rule", "moving rules", "changing rule", "ordered rules", "conversation"}
        /\ Rule /\ UNCHANGED <<vars, semanticVars>>

StorageSpec == StorageInit /\ [][StorageNext]_<<which, vars, semanticVars, autoVars>>
=============================================================================
