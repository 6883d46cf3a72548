---------------------------- MODULE AiCostLedger ----------------------------
(***************************************************************************)
(* The ledger of estimated AI costs: a durable intent before every call of *)
(* a provider, one outcome per intent, an event for every price, a metric  *)
(* per UTC day, and the windows that the admin metrics read from them.     *)
(*                                                                         *)
(* Several processes share the tables; an attempt may stop anywhere, as a  *)
(* process that crashes does.                                              *)
(***************************************************************************)
EXTENDS Integers, FiniteSets

CONSTANTS
  Attempts,     \* calls of an AI provider
  Readers,      \* requests for a recorded window
  Estimates,    \* prices, in micro-USD
  Unknown,      \* no price: null
  DayLength,    \* length of a UTC day on the clock
  MetricsStart, \* metricsStartAt: set by the database when it was migrated
  MaxClock      \* bound: the clock stops here

ASSUME ConstantsAssumption ==
  /\ IsFiniteSet(Attempts)
  /\ Estimates \subseteq Nat /\ Unknown \notin Nat
  /\ DayLength \in Nat \ {0}
  /\ MetricsStart \in Nat \ {0} /\ MaxClock \in Nat \ {0}

VARIABLES
  clock,        \* the time, from 1 on: 0 stands for a null date
  activatedAt,  \* captureActivatedAt
  intents,      \* ai_cost_intents
  events,       \* ai_cost_events
  daily,        \* ai_daily_cost_metrics, a missing row as zeros
  attempt,      \* where each attempt is
  report        \* where each reader is, and what it was told

vars == <<clock, activatedAt, intents, events, daily, attempt, report>>

Times == 1..MaxClock
Days  == 0..(MaxClock \div DayLength)

Intent == [state: {"absent", "pending", "uncosted", "costed"},
           startedAt: Nat, effectiveAt: Nat]
Event  == [intent: Attempts, kind: {"estimate", "resolution"},
           amount: Estimates, effectiveAt: Times]
Metric == [estimated: Nat, costed: Nat, uncosted: Nat]

\* effectiveAt and price: what the attempt is about to record, or has recorded.
Attempt == [pc: {"new", "activate", "create", "calling", "finalize", "done",
                 "failed"},
            startedAt: Nat, effectiveAt: Nat, price: Estimates \cup {Unknown}]
Report  == [pc: {"new", "reading", "unavailable", "unresolved", "complete"},
            from: Nat, to: Nat, total: Nat]

\* The unsigned metric columns are part of it: no decrement goes below zero.
TablesOK ==
  /\ clock \in Times
  /\ activatedAt \in Nat
  /\ intents \in [Attempts -> Intent]
  /\ events \subseteq Event
  /\ daily \in [Days -> Metric]
  /\ attempt \in [Attempts -> Attempt]

TypeOK == TablesOK /\ report \in [Readers -> Report]

Init ==
  /\ clock = 1
  /\ activatedAt = 0
  /\ intents = [a \in Attempts |->
                  [state |-> "absent", startedAt |-> 0, effectiveAt |-> 0]]
  /\ events = {}
  /\ daily = [d \in Days |-> [estimated |-> 0, costed |-> 0, uncosted |-> 0]]
  /\ attempt = [a \in Attempts |->
       [pc |-> "new", startedAt |-> 0, effectiveAt |-> 0, price |-> Unknown]]
  /\ report = [r \in Readers |->
                 [pc |-> "new", from |-> 0, to |-> 0, total |-> 0]]

-----------------------------------------------------------------------------
\* Attempts.
At(a, pc)   == attempt[a].pc = pc
Goto(a, pc) == attempt' = [attempt EXCEPT ![a].pc = pc]

\* utcDay
Day(t) == t \div DayLength

Begin(a) ==
  /\ At(a, "new")
  /\ attempt' = [attempt EXCEPT ![a].pc = "activate", ![a].startedAt = clock]
  /\ UNCHANGED <<clock, activatedAt, intents, events, daily, report>>

\* Only the first attempt sets captureActivatedAt.
Activation(a) ==
  IF activatedAt = 0 THEN attempt[a].startedAt ELSE activatedAt

\* An attempt before the boundary is refused: the application's clock may lag
\* the database's, which set it.
Activate(a) ==
  /\ At(a, "activate")
  /\ IF attempt[a].startedAt < MetricsStart
       THEN Goto(a, "failed") /\ UNCHANGED activatedAt
       ELSE Goto(a, "create") /\ activatedAt' = Activation(a)
  /\ UNCHANGED <<clock, intents, events, daily, report>>

CreateIntent(a) ==
  /\ At(a, "create")
  /\ intents' = [intents EXCEPT ![a].state = "pending",
                                ![a].startedAt = attempt[a].startedAt]
  /\ Goto(a, "calling")
  /\ UNCHANGED <<clock, activatedAt, events, daily, report>>

\* The provider answers, with or without usage that can be priced.
Answer(a, price) ==
  /\ At(a, "calling")
  /\ attempt' = [attempt EXCEPT ![a].pc = "finalize", ![a].price = price,
                                ![a].effectiveAt = clock]
  /\ UNCHANGED <<clock, activatedAt, intents, events, daily, report>>

\* Transport fails, or it is not known whether the provider accepted: the
\* intent stays pending.
TransportFails(a) ==
  /\ At(a, "calling")
  /\ Goto(a, "failed")
  /\ UNCHANGED <<clock, activatedAt, intents, events, daily, report>>

\* Mutant: the outcome of a replay counts again.
UnfinalizedAlways(a) == intents[a].state # "absent"

\* The filter of the conditional update in finalizeInTransaction.
Unfinalized(a) == intents[a].state = "pending"

\* Mutant: the day on which the transaction runs.
MetricDayNow(a) == Day(clock)

\* The day on which the provider answered.
MetricDay(a) == Day(attempt[a].effectiveAt)

\* finalizeAttempt, in one transaction.  A replay of what is recorded answers
\* and any other outcome is a conflict: neither writes.
Finalize(a) ==
  LET price == attempt[a].price
      at    == attempt[a].effectiveAt
      d     == MetricDay(a) IN
  /\ At(a, "finalize")
  /\ IF ~Unfinalized(a)
       THEN UNCHANGED <<intents, events, daily>>
     ELSE IF price = Unknown
       THEN /\ intents' = [intents EXCEPT ![a].state = "uncosted",
                                          ![a].effectiveAt = at]
            /\ daily' = [daily EXCEPT ![d].uncosted = @ + 1]
            /\ UNCHANGED events
       ELSE /\ intents' = [intents EXCEPT ![a].state = "costed",
                                          ![a].effectiveAt = at]
            /\ events' = events \cup
                 {[intent |-> a, kind |-> "estimate", amount |-> price,
                   effectiveAt |-> at]}
            /\ daily' = [daily EXCEPT ![d].estimated = @ + price,
                                      ![d].costed = @ + 1]
  /\ Goto(a, "done")
  /\ UNCHANGED <<clock, activatedAt, report>>

\* The transaction fails and is rolled back: AiAttemptRecordingError.
FinalizeFails(a) ==
  /\ At(a, "finalize")
  /\ Goto(a, "failed")
  /\ UNCHANGED <<clock, activatedAt, intents, events, daily, report>>

\* The same outcome is delivered again, after a lost answer.
Redeliver(a) ==
  /\ At(a, "done")
  /\ Goto(a, "finalize")
  /\ UNCHANGED <<clock, activatedAt, intents, events, daily, report>>

\* The filter of the conditional update in resolveUncosted.
Resolvable(a) == intents[a].state = "uncosted"

\* resolveUncosted: a price that became known later, on the day of the call.
Resolve(a, amount) ==
  LET d == Day(intents[a].effectiveAt) IN
  /\ Resolvable(a)
  /\ intents' = [intents EXCEPT ![a].state = "costed"]
  /\ events' = events \cup
       {[intent |-> a, kind |-> "resolution", amount |-> amount,
         effectiveAt |-> intents[a].effectiveAt]}
  /\ daily' = [daily EXCEPT ![d].estimated = @ + amount,
                            ![d].costed = @ + 1,
                            ![d].uncosted = @ - 1]
  /\ UNCHANGED <<clock, activatedAt, attempt, report>>

-----------------------------------------------------------------------------
\* Reports.
\* A sum of amounts is the number of the units that they add up to.
Units(E) == UNION {{e} \X (1..e.amount) : e \in E}
SumOf(E) == Cardinality(Units(E))

Later(s, t)   == IF s > t THEN s ELSE t
Earlier(s, t) == IF s < t THEN s ELSE t

Within(t, from, to) == from <= t /\ t < to
EventsIn(from, to)  == {e \in events : Within(e.effectiveAt, from, to)}

ActiveFrom == Later(activatedAt, MetricsStart)

\* getRecordedFinancials: the requested range, cut to what is recorded and to
\* the time of the request.
AskWindow(r, from, to) ==
  LET start == Later(from, ActiveFrom)
      end   == Earlier(to, clock) IN
  /\ report[r].pc = "new"
  /\ report' = [report EXCEPT ![r] =
       IF activatedAt # 0 /\ start < end
         THEN [pc |-> "reading", from |-> start, to |-> end, total |-> 0]
         ELSE [pc |-> "unavailable", from |-> 0, to |-> 0, total |-> 0]]
  /\ UNCHANGED <<clock, activatedAt, intents, events, daily, attempt>>

\* Mutant: only outcomes without a price are unresolved.
UnresolvedUncosted(from, to) ==
  {a \in Attempts : /\ intents[a].state = "uncosted"
                    /\ Within(intents[a].effectiveAt, from, to)}

\* What getRecordedWindow and getCoverage count before they trust a window.
Unresolved(from, to) ==
  {a \in Attempts :
     /\ intents[a].startedAt < to
     /\ \/ intents[a].state = "pending"
        \/ /\ intents[a].state = "uncosted"
           /\ Within(intents[a].effectiveAt, from, to)}

\* Mutant: the day on which the window ends is taken for a whole one.
IsWholeToEnd(d, from, to) == from <= d * DayLength /\ d * DayLength < to

IsWhole(d, from, to) == from <= d * DayLength /\ (d + 1) * DayLength <= to

\* Whole days from the metrics, the cut ones from the events.
DayTotal(d, from, to) ==
  IF IsWhole(d, from, to)
    THEN daily[d].estimated
    ELSE SumOf(EventsIn(Later(from, d * DayLength),
                      Earlier(to, (d + 1) * DayLength)))

DayUnits(from, to) ==
  UNION {{d} \X (1..DayTotal(d, from, to)) : d \in Day(from)..Day(to - 1)}

WindowTotal(from, to) == Cardinality(DayUnits(from, to))

\* getRecordedWindow: one REPEATABLE READ transaction, that is, one snapshot.
ReadWindow(r) ==
  LET from == report[r].from
      to   == report[r].to IN
  /\ report[r].pc = "reading"
  /\ report' = [report EXCEPT ![r] =
       IF Unresolved(from, to) # {}
         THEN [pc |-> "unresolved", from |-> from, to |-> to, total |-> 0]
         ELSE [pc |-> "complete", from |-> from, to |-> to,
               total |-> WindowTotal(from, to)]]
  /\ UNCHANGED <<clock, activatedAt, intents, events, daily, attempt>>

Tick ==
  /\ clock < MaxClock
  /\ clock' = clock + 1
  /\ UNCHANGED <<activatedAt, intents, events, daily, attempt, report>>

AttemptNext(a) ==
  \/ Begin(a) \/ Activate(a) \/ CreateIntent(a)
  \/ \E price \in Estimates \cup {Unknown} : Answer(a, price)
  \/ TransportFails(a) \/ Finalize(a) \/ FinalizeFails(a) \/ Redeliver(a)
  \/ \E amount \in Estimates : Resolve(a, amount)

ReportNext(r) ==
  \/ \E from, to \in Times : from < to /\ AskWindow(r, from, to)
  \/ ReadWindow(r)

Next ==
  \/ Tick
  \/ \E a \in Attempts : AttemptNext(a)
  \/ \E r \in Readers : ReportNext(r)

Spec == Init /\ [][Next]_vars

-----------------------------------------------------------------------------
Recorded(state, d) ==
  {a \in Attempts : /\ intents[a].state = state
                    /\ Day(intents[a].effectiveAt) = d}

EventsOn(d) == {e \in events : Day(e.effectiveAt) = d}

DailyAmounts == \A d \in Days : daily[d].estimated = SumOf(EventsOn(d))

DailyCounts ==
  \A d \in Days :
    /\ daily[d].costed = Cardinality(Recorded("costed", d))
    /\ daily[d].uncosted = Cardinality(Recorded("uncosted", d))

\* The metric of a day is what its intents and events add up to, whatever
\* outcomes, replays and resolutions cross and however late they commit.
DailyMatchesLedger == DailyAmounts /\ DailyCounts

\* No attempt is priced twice, and none without its outcome: an attempt has one
\* event when it is costed, at the time of its outcome, and none before.
OnePricePerAttempt ==
  \A a \in Attempts :
    LET own == {e \in events : e.intent = a} IN
    IF intents[a].state = "costed"
      THEN \E e \in own : own = {e} /\ e.effectiveAt = intents[a].effectiveAt
      ELSE own = {}

\* Nothing was recorded before the time from which capture counts as active, so
\* that no window cut to it misses a cost.
NothingBeforeActivation ==
  \A a \in Attempts :
    intents[a].effectiveAt # 0 =>
      activatedAt # 0 /\ intents[a].effectiveAt >= ActiveFrom

\* A window reported as complete holds the price of every call that a provider
\* answered in it, from then on: no outcome that was on its way, and no call
\* that began before its end, lands in it afterwards.
ReportCountsEveryCall ==
  \A r \in Readers :
    LET from == report[r].from
        to   == report[r].to IN
    report[r].pc = "complete" =>
      \A a \in Attempts :
        Within(attempt[a].effectiveAt, from, to)
          => \E e \in EventsIn(from, to) : e.intent = a

\* Nothing is added to a window that a report has called complete, nor taken
\* from it: no late outcome, replay or resolution changes what was reported.
CompleteIsClosed ==
  [][\A r \in Readers :
       report[r].pc = "complete" =>
         LET own(E) == {e \in E : Within(e.effectiveAt, report[r].from, report[r].to)}
         IN own(events') = own(events)]_vars

\* The total that a complete report gave is the sum of the events of its window
\* for ever: whole days and cut ones are added up without gap or overlap.
ReportIsFinal ==
  \A r \in Readers :
    report[r].pc = "complete" =>
      report[r].total = SumOf(EventsIn(report[r].from, report[r].to))

=============================================================================
