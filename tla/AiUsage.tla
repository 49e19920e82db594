------------------------------ MODULE AiUsage ------------------------------
(***************************************************************************)
(* What artificial intelligence may cost.                                  *)
(*                                                                         *)
(* A request reserves an estimate in the month's ledger, marks that it is  *)
(* about to call the provider, calls it, and settles the reservation with  *)
(* what it observed.  Requests of all isolates share the ledger, may stop  *)
(* at any step, and may outlive the quarter of an hour after which any     *)
(* other request settles their reservation for them.  Administrators raise *)
(* the budget; months pass.                                                *)
(*                                                                         *)
(*   workers/lib/ai-cost-control.ts                the controller          *)
(*   workers/lib/ai-cost-control-d1.ts             its statements          *)
(*   migrations/0004_create_ai_cost_controls.sql   the triggers            *)
(*   workers/lib/agent-context.ts, agent/index.ts  two of its callers      *)
(***************************************************************************)
EXTENDS Naturals, FiniteSets

CONSTANTS
  Requests,    \* paid requests
  MaxMonth,    \* bound on the months that pass
  Alert,       \* alertThresholdMicros
  Review,      \* reviewThresholdMicros: the budget of a month nobody raised
  Budgets,     \* what administrators approve; above Review
  Estimates,   \* of paid requests; above 0
  Costs        \* what a call turns out to cost; above 0, perhaps more

ASSUME UsageAssumption ==
  /\ IsFiniteSet(Requests) /\ MaxMonth \in Nat \ {0} /\ Alert \in Nat /\ Review \in Nat
  /\ Budgets \subseteq Nat /\ Estimates \subseteq Nat \ {0} /\ Costs \subseteq Nat \ {0}

Months == 1..MaxMonth

VARIABLES
  month,   \* the current month
  ledger,  \* ai_usage_months
  event,   \* ai_usage_events of paid requests
  caller,  \* where a request is, and what it has read
  cost,    \* what the provider charges for a request's call; 0: not called
  alerted, \* alert_emitted_at: the months whose threshold somebody has met
  told     \* how many requests were told to raise the alarm for a month

alarmVars == <<alerted, told>>
aiVars == <<month, ledger, event, caller, cost, alerted, told>>

NoEvent == [state |-> "none", month |-> 0, estimate |-> 0, started |-> FALSE, old |-> FALSE,
            actual |-> 0]

Place(at) == [at |-> at, tier |-> "none", month |-> 0, estimate |-> 0, limit |-> 0, seen |-> 0]

Ledgers == [spent : Nat, reserved : Nat, approved : {Review} \cup Budgets]
Events ==
  [state : {"none", "reserved", "completed", "failed"}, month : {0} \cup Months,
   estimate : {0} \cup Estimates, started : BOOLEAN, old : BOOLEAN,
   actual : {0} \cup Estimates \cup Costs]
Callers ==
  [at : {"new", "read", "reserve", "held", "started", "calling", "answered", "settle", "done"},
   tier : {"none", "cheap", "strong"}, month : {0} \cup Months, estimate : {0} \cup Estimates,
   limit : Nat, seen : {0} \cup Costs]

UsageTypeOK ==
  /\ month \in Months /\ ledger \in [Months -> Ledgers]
  /\ event \in [Requests -> Events] /\ caller \in [Requests -> Callers]
  /\ cost \in [Requests -> {0} \cup Costs] /\ alerted \subseteq Months /\ told \in [Months -> Nat]

UsageInit ==
  /\ month = 1
  /\ ledger = [m \in Months |-> [spent |-> 0, reserved |-> 0, approved |-> Review]]
  /\ event = [r \in Requests |-> NoEvent]
  /\ caller = [r \in Requests |-> Place("new")]
  /\ cost = [r \in Requests |-> 0] /\ alerted = {} /\ told = [m \in Months |-> 0]

Total(m) == ledger[m].spent + ledger[m].reserved
\* A request goes on with what it counted; the rest it needs no more.
Goes(r, at) ==
  caller' = [caller EXCEPT ![r] = [Place(at) EXCEPT !.seen = IF at = "settle" THEN caller[r].seen
                                                          ELSE 0]]

\* What requests cost in "to" beyond "from": every micro is its request and its
\* number.
Zero == [r \in Requests |-> 0]
Micros(S, from, to) == UNION {{r} \X ((from[r] + 1)..to[r]) : r \in S}
Cost(S, from, to) == Cardinality(Micros(S, from, to))

Estimated == [r \in Requests |-> event[r].estimate]
Actual == [r \in Requests |-> event[r].actual]

\* The triggers on a transition out of "reserved": estimates leave the month's
\* reservations, charges enter what it has spent.
Settles(S, state, charge) ==
  LET of(m) == {r \in S : event[r].month = m}
      freed(m) == Cost(of(m), Zero, Estimated)
      spent(m) == Cost(of(m), Zero, charge)
  IN /\ event' = [r \in Requests |->
          IF r \in S THEN [event[r] EXCEPT !.state = state, !.actual = charge[r], !.old = FALSE]
          ELSE event[r]]
     /\ ledger' = [m \in Months |->
          [ledger[m] EXCEPT !.reserved = IF freed(m) > @ THEN 0 ELSE @ - freed(m),
                            !.spent = @ + spent(m)]]

\* Slip: a settlement does not ask whether there has been another.
OnceReserved(r) == IF event[r].state # "none" THEN {r} ELSE {}

\* WHERE id = ? AND state = 'reserved'
StillReserved(r) == IF event[r].state = "reserved" THEN {r} ELSE {}

-----------------------------------------------------------------------------
(* Reservations                                                            *)

\* The charge when nobody observed one: what has started may have cost something.
Presumed(r) == IF event[r].started THEN event[r].estimate ELSE 0

\* reapExpiredReservations
Reap ==
  Settles({r \in Requests : event[r].state = "reserved" /\ event[r].old}, "failed",
          [r \in Requests |-> Presumed(r)])

\* beginUsage: reservations that have run out are settled first.
Begin(r) ==
  /\ caller[r].at = "new"
  /\ \E tier \in {"cheap", "strong"}, estimate \in Estimates :
       caller' = [caller EXCEPT ![r].at = "read", ![r].tier = tier, ![r].month = month,
                                ![r].estimate = estimate]
  /\ Reap /\ UNCHANGED <<month, cost, alarmVars>>

\* The strong model pauses at the alert threshold.
LimitOf(tier, approved) == IF tier = "strong" /\ Alert < approved THEN Alert ELSE approved

\* ... then the month is read, and the request blocked or its limit fixed.
ReadMonth(r) ==
  /\ caller[r].at = "read"
  /\ LET c == caller[r]
         limit == LimitOf(c.tier, ledger[c.month].approved)
         fits == Total(c.month) + c.estimate <= limit
     IN IF fits THEN caller' = [caller EXCEPT ![r].at = "reserve", ![r].limit = limit]
        ELSE Goes(r, "done")
  /\ UNCHANGED <<month, ledger, event, cost, alarmVars>>

\* Slip: the month that was read still has room.
RoomAsRead(c) == c.limit > 0

\* The inserting statement looks at the ledger once more.
StillRoom(c) == Total(c.month) + c.estimate <= c.limit

\* tryReserve
Reserve(r) ==
  /\ caller[r].at = "reserve"
  /\ LET c == caller[r]
     IN IF StillRoom(c)
        THEN /\ event' = [event EXCEPT ![r] = [NoEvent EXCEPT !.state = "reserved",
                                                 !.month = c.month, !.estimate = c.estimate]]
             /\ ledger' = [ledger EXCEPT ![c.month].reserved = @ + c.estimate]
             /\ Goes(r, "held")
        ELSE Goes(r, "done") /\ UNCHANGED <<event, ledger>>
  /\ UNCHANGED <<month, cost, alarmVars>>

\* Slip: what has been settled is marked as started too.
AnyEvent(r) == event[r].state # "none"

\* markReservationStarted: what has been settled is not started.
MayStart(r) == event[r].state = "reserved"

\* startUsage, whose answer may be lost; or the request turns back before it.
Start(r) ==
  /\ caller[r].at = "held"
  /\ \/ /\ MayStart(r) /\ event' = [event EXCEPT ![r].started = TRUE]
        /\ Goes(r, "started") \/ Goes(r, "settle")
     \/ Goes(r, "settle") /\ UNCHANGED event
  /\ UNCHANGED <<month, ledger, cost, alarmVars>>

\* The provider is called; or the request is aborted after all.
Call(r) ==
  /\ caller[r].at = "started"
  /\ \/ Goes(r, "calling") /\ \E c \in Costs : cost' = [cost EXCEPT ![r] = c]
     \/ Goes(r, "settle") /\ UNCHANGED cost
  /\ UNCHANGED <<month, ledger, event, alarmVars>>

\* An answer that counts its tokens; or one that does not, or none.
Answer(r) ==
  /\ caller[r].at = "calling"
  /\ \/ caller' = [caller EXCEPT ![r].at = "answered", ![r].seen = cost[r]]
     \/ Goes(r, "answered") \/ Goes(r, "settle")
  /\ UNCHANGED <<month, ledger, event, cost, alarmVars>>

-----------------------------------------------------------------------------
(* Settlement                                                              *)

\* measuredCost || ESTIMATED_..._COST_MICROS
Observed(r) == IF caller[r].seen > 0 THEN caller[r].seen ELSE event[r].estimate

\* Slip: whoever completes above the threshold is told.
EachAbove(m) == ledger'[m].spent >= Alert

\* The second statement of completeReservation: only the first is told.
FirstAbove(m) == m \notin alerted /\ ledger'[m].spent >= Alert

\* completeUsage; a caller that gets no answer, or fails later, fails the usage.
Complete(r) ==
  /\ caller[r].at = "answered" /\ (Goes(r, "done") \/ Goes(r, "settle"))
  /\ Settles(StillReserved(r), "completed", [s \in Requests |-> Observed(s)])
  /\ LET m == event[r].month
     IN IF FirstAbove(m) THEN alerted' = alerted \cup {m} /\ told' = [told EXCEPT ![m] = @ + 1]
        ELSE UNCHANGED alarmVars
  /\ UNCHANGED <<month, cost>>

\* failUsage: what was counted is charged, or else what is presumed.
Fail(r) ==
  /\ caller[r].at = "settle" /\ Goes(r, "done")
  /\ Settles(StillReserved(r), "failed",
             [s \in Requests |-> IF caller[s].seen > 0 THEN caller[s].seen ELSE Presumed(s)])
  /\ UNCHANGED <<month, cost, alarmVars>>

\* A quarter of an hour after the reservation.
RunsOut(r) ==
  /\ event[r].state = "reserved" /\ ~event[r].old
  /\ event' = [event EXCEPT ![r].old = TRUE]
  /\ UNCHANGED <<month, ledger, caller, cost, alarmVars>>

-----------------------------------------------------------------------------
(* The administrators and the calendar                                     *)

\* getCurrentMonth, by the page or before an approval
Look == Reap /\ UNCHANGED <<month, caller, cost, alarmVars>>

\* approveBudget: the cap rises, above what has been used.
Approve(budget) ==
  /\ budget > ledger[month].approved /\ budget > Total(month)
  /\ ledger' = [ledger EXCEPT ![month].approved = budget]
  /\ UNCHANGED <<month, event, caller, cost, alarmVars>>

MonthPasses ==
  /\ month < MaxMonth /\ month' = month + 1
  /\ UNCHANGED <<ledger, event, caller, cost, alarmVars>>

UsageNext ==
  \/ \E r \in Requests :
       \/ Begin(r) \/ ReadMonth(r) \/ Reserve(r) \/ Start(r) \/ Call(r) \/ Answer(r)
       \/ Complete(r) \/ Fail(r) \/ RunsOut(r)
  \/ Look \/ MonthPasses \/ \E budget \in Budgets : Approve(budget)

UsageSpec == UsageInit /\ [][UsageNext]_aiVars

-----------------------------------------------------------------------------
(* Properties                                                              *)

Of(m) == {r \in Requests : event[r].month = m}
Open(m) == {r \in Of(m) : event[r].state = "reserved"}

\* The ledger adds up: a month's reservations are those of its open events, its
\* spending the charges of the others, although an event is settled by whoever
\* comes first, its caller or anybody else, and perhaps in another month.
LedgerAdds ==
  \A m \in Months :
    /\ ledger[m].reserved = Cost(Open(m), Zero, Estimated)
    /\ ledger[m].spent = Cost(Of(m) \ Open(m), Zero, Actual)

\* Work is charged: a call of the provider is covered by a reservation that had
\* started, and settles for its estimate or for what it cost; what never started
\* costs nothing.
WorkIsCharged ==
  \A r \in Requests :
    /\ cost[r] > 0 => event[r].started
    /\ event[r].state \in {"completed", "failed"} =>
         event[r].actual \in IF event[r].started THEN {event[r].estimate, cost[r]} \ {0} ELSE {0}

\* The budget holds: what is spent and reserved exceeds what was approved at
\* most by what calls cost beyond their estimates, whatever requests that saw
\* the same month reserve together.
WithinBudget ==
  \A m \in Months : Total(m) <= ledger[m].approved + Cost(Of(m), Estimated, Actual)

\* One request is told to raise the alarm for a month.
AlarmedOnce == \A m \in Months : told[m] <= 1

\* The ledger adds up, every call is charged to it, the budget holds but for
\* overruns, and the alarm is raised once.
UsageIsCharged ==
  UsageTypeOK /\ LedgerAdds /\ WorkIsCharged /\ WithinBudget /\ AlarmedOnce

=============================================================================
