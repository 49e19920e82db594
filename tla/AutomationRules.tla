-------------------------- MODULE AutomationRules --------------------------
(***************************************************************************)
(* Automation rules of a mailbox.                                          *)
(*                                                                         *)
(* Members edit rules side by side: what they saw is checked against a     *)
(* revision when the edit lands, after the fingerprint of the definition   *)
(* has been awaited.  A draft becomes active once a test of exactly its    *)
(* definition has passed.  A message that arrives captures the enabled     *)
(* versions in order; an alarm carries its run out later, on the mailbox   *)
(* as it is then.  Labels and folders that a rule or an open run needs     *)
(* cannot be deleted.                                                      *)
(*                                                                         *)
(*   workers/lib/automation-rules/index.ts            rules and runs       *)
(*   workers/lib/automation-rules/mailbox-runtime.ts  what a run sees, does *)
(*   workers/durableObject/index.ts                   the alarm, deletions *)
(***************************************************************************)
EXTENDS Naturals, Sequences, FiniteSets, FiniteSetsExt

CONSTANTS
  Rules,
  Members,      \* who edits rules
  Mails,     \* live inbound messages, all of one conversation
  Labels,
  Folders,      \* that rules may move mail to
  NoFolder,
  Definitions,  \* records of hits, labels, move and stop
  MaxEnabled,   \* maxEnabledRules
  MaxAttempts,  \* maxAttempts
  MaxVersions,  \* bound on the versions of a rule; maxVersionsPerRule is larger
  MaxRevision,  \* bound on the changes of a rule
  MaxOrder      \* bound on the changes of the order

ASSUME RulesAssumption ==
  /\ IsFiniteSet(Rules) /\ NoFolder \notin Folders
  /\ Definitions \subseteq [hits : SUBSET Mails, labels : SUBSET Labels,
                            move : Folders \cup {NoFolder}, stop : BOOLEAN]
  /\ MaxEnabled \in Nat /\ MaxAttempts \in Nat \ {0}

Targets == Labels \cup Folders
Places == {"none", "inbox", "elsewhere", "gone"}
Open == {"pending", "processing"}

VARIABLES
  rule,     \* automation_rules
  version,  \* automation_rule_versions: the definitions of each rule
  refs,     \* automation_rule_label_refs and _folder_refs, by version
  order,    \* order_revision
  tests,    \* automation_rule_tests: the outcome of the latest of a definition
  view,     \* the list of rules a member looks at
  exists,   \* the labels and folders there are
  box,      \* where each message is, and its labels
  run,      \* automation_runs with automation_run_rules
  runRefs,  \* automation_run_label_refs and _folder_refs
  proven,   \* ghost: definitions of each rule that passed a test once
  blind     \* ghost: somebody changed what they had not seen

editVars == <<rule, version, refs, order, tests, view, proven, blind>>
runVars == <<run, runRefs>>
autoVars == <<editVars, exists, box, runVars>>

NoRule == [state |-> "none", active |-> 0, draft |-> 0, position |-> 0, revision |-> 0]
NoRun == [state |-> "none", attempts |-> 0, rules |-> <<>>]

RulesTypeOK ==
  /\ \A r \in Rules :
       /\ rule[r].state \in {"none", "draft", "enabled", "disabled", "archived"}
       /\ {rule[r].active, rule[r].draft} \subseteq 0..Len(version[r])
       /\ rule[r].state \in {"enabled", "disabled"} => rule[r].active > 0
       /\ refs[r] \subseteq 1..Len(version[r])
       /\ tests[r] \in [Definitions -> {"none", "failed", "passed"}]
  /\ exists \subseteq Targets
  /\ \A m \in Mails :
       /\ box[m].folder \in Places \cup Folders /\ box[m].labels \subseteq Labels
       /\ run[m].state \in {"none", "no_match", "applied", "applied_with_skips", "failed"} \cup Open
       /\ run[m].attempts \in 0..MaxAttempts /\ runRefs[m] \subseteq Targets
  /\ blind \in BOOLEAN

RulesInit ==
  /\ rule = [r \in Rules |-> NoRule] /\ version = [r \in Rules |-> <<>>]
  /\ refs = [r \in Rules |-> {}] /\ order = 0
  /\ tests = [r \in Rules |-> [d \in Definitions |-> "none"]]
  /\ view = [e \in Members |-> [rules |-> rule, order |-> order]]
  /\ exists = Targets
  /\ box = [m \in Mails |-> [folder |-> "none", labels |-> {}]]
  /\ run = [m \in Mails |-> NoRun] /\ runRefs = [m \in Mails |-> {}]
  /\ proven = [r \in Rules |-> {}] /\ blind = FALSE

TargetsOf(d) == d.labels \cup ({d.move} \cap Folders)
Listed == {r \in Rules : rule[r].state \notin {"none", "archived"}}
Enabled == {r \in Rules : rule[r].state = "enabled"}
InForce(r) == {rule[r].active, rule[r].draft} \ {0}

-----------------------------------------------------------------------------
(* Rules and their editors                                                 *)

\* listAutomationRules
Looks(e) ==
  /\ view' = [view EXCEPT ![e] = [rules |-> rule, order |-> order]]
  /\ UNCHANGED <<rule, version, refs, order, tests, proven, blind, exists, box, runVars>>

\* Slip: the edit is checked before the fingerprint is awaited, not after.
NeverChecked(e, r) == TRUE

\* assertRevision: nobody has changed the rule since the member looked.
Checked(e, r) == view[e].rules[r].revision = rule[r].revision
Notes(e, r) == blind' = (blind \/ view[e].rules[r] # rule[r])

Rewrites(r, record) ==
  /\ rule[r].revision < MaxRevision
  /\ rule' = [rule EXCEPT ![r] = [record EXCEPT !.revision = rule[r].revision + 1]]

\* createDraft: after the others, in an order the member has seen.
CreateDraft(e, r, d) ==
  /\ rule[r].state = "none" /\ order < MaxOrder
  /\ view[e].order = order
  /\ TargetsOf(d) \subseteq exists
  /\ Rewrites(r, [rule[r] EXCEPT !.state = "draft", !.draft = 1,
       !.position = 1 + FoldSet(LAMBDA s, n : IF rule[s].position > n THEN rule[s].position
                                              ELSE n, 0, Listed)])
  /\ version' = [version EXCEPT ![r] = <<d>>]
  /\ refs' = [refs EXCEPT ![r] = {1}]
  /\ order' = order + 1
  /\ blind' = (blind \/ \E s \in Rules : view[e].rules[s].position # rule[s].position)
  /\ UNCHANGED <<tests, view, proven, exists, box, runVars>>

\* Slip: only the new version's targets are still referred to.
NewestOnly(r, record, n) == {n}

\* removeInactiveReferences, once the record is written.
Referred(r, record, n) == (refs[r] \cup {n}) \cap {record.active, record.draft}

\* updateDraft; restoreVersion is the same with the definition of a version.
UpdateDraft(e, r, d) ==
  /\ rule[r].state \notin {"none", "archived"} /\ Len(version[r]) < MaxVersions
  /\ Checked(e, r)
  /\ TargetsOf(d) \subseteq exists
  /\ LET n == Len(version[r]) + 1
         record == [rule[r] EXCEPT !.draft = n, !.state = IF rule[r].active = 0 THEN "draft" ELSE @]
     IN /\ Rewrites(r, record)
        /\ refs' = [refs EXCEPT ![r] = Referred(r, record, n)]
  /\ version' = [version EXCEPT ![r] = Append(@, d)]
  /\ Notes(e, r)
  /\ UNCHANGED <<order, tests, view, proven, exists, box, runVars>>

\* dryRunAutomationRule: any definition may be tested beside the current draft; a
\* test passes when it matched something, or the member accepts that it did not.
DryRun(e, r, d) ==
  /\ r \in Listed /\ view[e].rules[r].draft # 0
  /\ view[e].rules[r].draft = rule[r].draft
  /\ \E outcome \in {"failed", "passed"} :
       /\ tests' = [tests EXCEPT ![r][d] = outcome]
       /\ proven' = [proven EXCEPT ![r] = IF outcome = "passed" THEN @ \cup {d} ELSE @]
  /\ UNCHANGED <<rule, version, refs, order, view, blind, exists, box, runVars>>

\* Tests expire after thirty days, or are pruned.
Forgets(r, d) ==
  /\ tests[r][d] # "none"
  /\ tests' = [tests EXCEPT ![r][d] = "none"]
  /\ UNCHANGED <<rule, version, refs, order, view, proven, blind, exists, box, runVars>>

\* Slip: any passing test of the rule will do.
SomeTest(r) == \E d \in Definitions : tests[r][d] = "passed"

\* latestPassingTest, by the fingerprint of the draft
DraftPassed(r) == tests[r][version[r][rule[r].draft]] = "passed"

\* enable: the draft becomes the active version.
Enable(e, r) ==
  /\ r \in Listed /\ rule[r].draft # 0
  /\ Checked(e, r)
  /\ DraftPassed(r)
  /\ Cardinality(Enabled \ {r}) < MaxEnabled
  /\ LET record == [rule[r] EXCEPT !.state = "enabled", !.active = rule[r].draft, !.draft = 0]
     IN /\ Rewrites(r, record)
        /\ refs' = [refs EXCEPT ![r] = Referred(r, record, record.active)]
  /\ Notes(e, r)
  /\ UNCHANGED <<version, order, tests, view, proven, exists, box, runVars>>

\* setEnabled; a rule with a draft is enabled by enable.
SetEnabled(e, r) ==
  /\ r \in Listed /\ rule[r].active # 0
  /\ rule[r].state = "enabled" \/ rule[r].draft = 0
  /\ Checked(e, r)
  /\ Rewrites(r, [rule[r] EXCEPT !.state = IF @ = "enabled" THEN "disabled" ELSE "enabled"])
  /\ Notes(e, r)
  /\ UNCHANGED <<version, refs, order, tests, view, proven, exists, box, runVars>>

\* archive
Archive(e, r) ==
  /\ r \in Listed /\ order < MaxOrder
  /\ Checked(e, r)
  /\ Rewrites(r, [rule[r] EXCEPT !.state = "archived"])
  /\ refs' = [refs EXCEPT ![r] = {}]
  /\ order' = order + 1
  /\ Notes(e, r)
  /\ UNCHANGED <<version, tests, view, proven, exists, box, runVars>>

\* Slip: moving a rule is not a change of it.
SameRevision(p) == [r \in Rules |-> IF r \in Listed THEN [rule[r] EXCEPT !.position = p[r]]
                                    ELSE rule[r]]

Moved(p) == [r \in Rules |->
  IF r \in Listed THEN [rule[r] EXCEPT !.position = p[r], !.revision = @ + 1] ELSE rule[r]]

\* reorder, of a list and an order the member has seen.
Reorder(e) ==
  /\ Listed # {} /\ order < MaxOrder /\ \A r \in Listed : rule[r].revision < MaxRevision
  /\ view[e].order = order
  /\ \E p \in Bijection(Listed, 1..Cardinality(Listed)) : rule' = Moved(p)
  /\ order' = order + 1
  /\ blind' = (blind \/ \E s \in Rules : view[e].rules[s].position # rule[s].position)
  /\ UNCHANGED <<version, refs, tests, view, proven, exists, box, runVars>>

-----------------------------------------------------------------------------
(* Labels, folders and messages                                            *)

\* #automationTargetUsage, and the foreign keys that restrict deletions
InUse(t) ==
  \/ \E r \in Rules : \E v \in refs[r] : t \in TargetsOf(version[r][v])
  \/ \E m \in Mails : t \in runRefs[m]

\* deleteLabel and deleteFolder, of an empty folder
DeleteTarget(t) ==
  /\ t \in exists /\ ~InUse(t)
  /\ \A m \in Mails : box[m].folder # t
  /\ exists' = exists \ {t}
  /\ box' = [m \in Mails |-> [box[m] EXCEPT !.labels = @ \ {t}]]
  /\ UNCHANGED <<editVars, runVars>>

\* The enabled rules by position
InOrder ==
  {list \in Bijection(1..Cardinality(Enabled), Enabled) :
     \A i, j \in DOMAIN list : i < j => rule[list[i]].position <= rule[list[j]].position}

\* captureLiveInbound, in the transaction that stores the message: the active
\* versions of the first of them, and what they refer to.
Captures(m, list) ==
  LET rules == [i \in {j \in DOMAIN list : j <= MaxEnabled} |->
                  version[list[i]][rule[list[i]].active]]
      referred == {i \in DOMAIN rules : rule[list[i]].active \in refs[list[i]]}
  IN /\ run' = [run EXCEPT ![m] =
          [NoRun EXCEPT !.state = IF rules = <<>> THEN "no_match" ELSE "pending",
                        !.rules = rules]]
     /\ runRefs' = [runRefs EXCEPT ![m] = UNION {TargetsOf(rules[i]) : i \in referred}]

Accept(m) ==
  /\ box[m].folder = "none"
  /\ box' = [box EXCEPT ![m].folder = "inbox"]
  /\ \E list \in InOrder : Captures(m, list)
  /\ UNCHANGED <<editVars, exists>>

\* Members file and label messages, or delete them and with them their runs.
FileMail(m) ==
  /\ box[m].folder \notin {"none", "gone"}
  /\ \/ \E f \in {"inbox", "elsewhere"} \cup (Folders \cap exists) :
          box' = [box EXCEPT ![m].folder = f] /\ UNCHANGED runVars
     \/ \E l \in Labels \cap exists :
          box' = [box EXCEPT ![m].labels = @ \cup {l}] /\ UNCHANGED runVars
     \/ /\ box' = [box EXCEPT ![m] = [folder |-> "gone", labels |-> {}]]
        /\ run' = [run EXCEPT ![m] = NoRun] /\ runRefs' = [runRefs EXCEPT ![m] = {}]
  /\ UNCHANGED <<editVars, exists>>

-----------------------------------------------------------------------------
(* Runs                                                                    *)

InInbox == {m \in Mails : box[m].folder = "inbox"}

\* Slip: the last rule that moves the message wins.
LastMove(plan, d) == IF d.move = NoFolder THEN plan.move ELSE d.move

\* The first rule that moves the message wins.
FirstMove(plan, d) == IF plan.move = NoFolder THEN d.move ELSE plan.move

\* One rule of planAutomationRun.
Considers(m, plan, d) ==
  LET heard == [plan EXCEPT !.matched = TRUE]
      conflict == plan.move # NoFolder /\ d.move \notin {NoFolder, plan.move}
  IN IF plan.stopped \/ m \notin d.hits THEN plan
     ELSE IF m \notin InInbox THEN [heard EXCEPT !.skips = TRUE, !.stopped = d.stop]
     ELSE IF ~(TargetsOf(d) \subseteq exists) THEN [heard EXCEPT !.skips = TRUE]
     ELSE [heard EXCEPT !.labels = @ \cup d.labels, !.move = FirstMove(plan, d),
                        !.skips = @ \/ conflict, !.stopped = d.stop]

NoPlan == [matched |-> FALSE, skips |-> FALSE, stopped |-> FALSE, labels |-> {}, move |-> NoFolder]

\* The rules in order, one after the other.
Plan(m, rules) ==
  LET plan[i \in 0..Len(rules)] ==
        IF i = 0 THEN NoPlan ELSE Considers(m, plan[i - 1], rules[i])
  IN plan[Len(rules)]

Outcome(plan) ==
  IF ~plan.matched THEN "no_match" ELSE IF plan.skips THEN "applied_with_skips" ELSE "applied"

\* applyAutomationActionPlan: to the conversation, as far as it is in the inbox.
After(m, plan) ==
  [x \in Mails |->
     IF {x, m} \subseteq InInbox
     THEN [folder |-> IF plan.move = NoFolder THEN "inbox" ELSE plan.move,
           labels |-> box[x].labels \cup plan.labels]
     ELSE box[x]]

\* Leases that ran out: the run is tried again, or has had its attempts.
Settled(lapsed) ==
  [m \in Mails |->
     IF m \in lapsed
     THEN [run[m] EXCEPT !.state = IF run[m].attempts < MaxAttempts THEN "pending" ELSE "failed"]
     ELSE run[m]]

\* Runs that have failed need nothing any more.
Kept(runs) == [m \in Mails |-> IF runs[m].state = "failed" THEN {} ELSE runRefs[m]]

\* claimNextRun, and without an await the plan and its execution in one
\* transaction.  When that throws the run waits, or fails after its last attempt;
\* when that throws too, its lease has to run out.
Turn ==
  \E lapsed \in SUBSET {m \in Mails : run[m].state = "processing"} :
    LET runs == Settled(lapsed)
        ends(m, state, kept) ==
          /\ run' = [runs EXCEPT ![m].state = state, ![m].attempts = @ + 1]
          /\ runRefs' = [Kept(runs) EXCEPT ![m] = IF kept THEN @ ELSE {}]
    IN /\ \/ /\ lapsed # {} /\ run' = runs /\ runRefs' = Kept(runs) /\ UNCHANGED box
          \/ \E m \in Mails :
               /\ runs[m].state = "pending"
               /\ \/ LET plan == Plan(m, run[m].rules)
                     IN ends(m, Outcome(plan), FALSE) /\ box' = After(m, plan)
                  \/ /\ IF runs[m].attempts + 1 < MaxAttempts THEN ends(m, "pending", TRUE)
                        ELSE ends(m, "failed", FALSE)
                     /\ UNCHANGED box
                  \/ ends(m, "processing", TRUE) /\ UNCHANGED box
       /\ UNCHANGED <<editVars, exists>>

RulesNext ==
  \/ \E e \in Members :
       \/ Looks(e) \/ Reorder(e)
       \/ \E r \in Rules :
            \/ Enable(e, r) \/ SetEnabled(e, r) \/ Archive(e, r)
            \/ \E d \in Definitions : CreateDraft(e, r, d) \/ UpdateDraft(e, r, d) \/ DryRun(e, r, d)
  \/ \E r \in Rules, d \in Definitions : Forgets(r, d)
  \/ \E t \in Targets : DeleteTarget(t)
  \/ \E m \in Mails : Accept(m) \/ FileMail(m)
  \/ Turn

RulesSpec == RulesInit /\ [][RulesNext]_autoVars

-----------------------------------------------------------------------------
(* Properties                                                              *)

\* A label or folder outlives every version in force and every open run that
\* refers to it: deletions ask rules and runs, edits drop references, runs copy
\* them.
TargetsAreKept ==
  /\ \A r \in Listed : \A v \in InForce(r) : TargetsOf(version[r][v]) \subseteq exists
  /\ \A m \in Mails : run[m].state \in Open =>
       \A i \in DOMAIN run[m].rules : TargetsOf(run[m].rules[i]) \subseteq exists

\* Nothing acts on mail that has not passed a test, however drafts were changed
\* between the test and the activation.
ActiveWasTested ==
  \A r \in Rules : rule[r].active # 0 => version[r][rule[r].active] \in proven[r]

\* No edit lands on a rule, or on an order, its author has not seen.
EditsAreSeen == ~blind

\* What an open run would do now: every matching rule acts, in order, up to the
\* first that stops; the message goes where the first of them says; it is
\* "applied" only if all of them had their way.
RunsAreOrderly ==
  \A m \in Mails : run[m].state \in Open =>
    LET ds == run[m].rules
        hits == {i \in DOMAIN ds : m \in ds[i].hits}
        acting == {i \in hits : \A j \in hits : j < i => ~ds[j].stop}
        moves == {i \in acting : ds[i].move # NoFolder}
        plan == Plan(m, ds)
        then == After(m, plan)[m]
    IN /\ Outcome(plan) = "no_match" <=> hits = {}
       /\ m \in InInbox =>
            /\ then.labels = box[m].labels \cup UNION {ds[i].labels : i \in acting}
            /\ then.folder = IF moves = {} THEN "inbox" ELSE ds[Min(moves)].move
       /\ Outcome(plan) = "applied" =>
            m \in InInbox /\ \A i \in moves : ds[i].move = then.folder

\* Labels and folders outlive the rules and runs that need them, what acts has
\* been tested, edits land only on what their authors saw, and runs act in order.
RulesAreKept ==
  RulesTypeOK /\ TargetsAreKept /\ ActiveWasTested /\ EditsAreSeen /\ RunsAreOrderly
=============================================================================
