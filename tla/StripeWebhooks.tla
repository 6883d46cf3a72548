---------------------------- MODULE StripeWebhooks ----------------------------
(***************************************************************************)
(* Stripe changes the subscription of one user and emits events about it   *)
(* and about money; each is delivered at least once, in any order and also *)
(* concurrently.  A delivery reads the subscription from Stripe, then      *)
(* writes receipt, row, metrics and effects in one transaction, at READ    *)
(* COMMITTED: what it reads in the transaction may be overwritten before   *)
(* it commits.  Evidence that Stripe did not have yet leaves a pending     *)
(* case, which retry workers lease, at most MaxAttempts times.             *)
(***************************************************************************)
EXTENDS Naturals, Sequences, FiniteSets, SubscriptionLifecycle

CONSTANTS
  Deliveries,   \* webhook requests that may be handled at the same time
  Workers,      \* processes with an evidence retry timer
  Scripts,      \* what Stripe emits: sequences of events
  FeeOf,        \* fee of each balance transaction: "charged", "zero", or in a
                \* currency that is not recorded, "foreign"
  MaxAttempts,  \* MAX_EVIDENCE_ATTEMPTS
  MaxFaults     \* bound: failing calls and dying callers

OfSubscription == {"checkout", "updated", "deleted", "invoice"}

\* An event, the subscription at Stripe after it, and its balance transaction.
StripeEvent ==
  [type: OfSubscription \cup {"charge", "refund", "refund_pending", "movement"},
   to: States, tx: DOMAIN FeeOf]

\* Stripe tells every change of the subscription, and its deletion last.
Tells(s) ==
  \A i, j \in DOMAIN s : i <= j =>
    /\ (\A k \in i + 1 .. j : s[k].type \notin OfSubscription) =>
         s[j].to = s[i].to
    /\ s[i].type = "deleted" => s[i].to.status = "canceled" /\ s[j].to = s[i].to

ASSUME WebhookConstants ==
  /\ Deliveries \cap Workers = {}
  /\ Scripts \subseteq Seq(StripeEvent) /\ \A s \in Scripts : Tells(s)
  /\ FeeOf \in [DOMAIN FeeOf -> {"charged", "zero", "foreign"}]
  /\ MaxAttempts \in Nat /\ MaxFaults \in Nat

VARIABLES
  script, emitted,  \* the events of Stripe, and how many it has emitted
  visible,          \* balance transactions that Stripe can already show
  sub,              \* subscriptions row: state, linked to the Stripe one or not
  limits,           \* plan whose limits the usage_limits row has
  receipts,         \* stripe_webhook_events
  lifecycle,        \* subscription_lifecycle_events
  daily,            \* billing_daily_subscription_metrics, summed
  effects,          \* revenue, refund, fee and movement rows, with their source
  counted,          \* the daily counters of each kind of effect
  case,             \* billing_financial_evidence_cases
  call,             \* what each caller is doing
  batch,            \* the claims each worker still has to process
  crossed,          \* history: two handlers of the subscription overlapped
  faultsLeft

stripeVars == <<script, emitted, visible>>
rowVars    == <<sub, limits, receipts, lifecycle, daily>>
moneyVars  == <<effects, counted, case>>
vars == <<stripeVars, rowVars, moneyVars, call, batch, crossed, faultsLeft>>

Callers == Deliveries \cup Workers
Kinds   == {"revenue", "refund", "fee", "movement"}
Parts   == {"fee", "movement"}
Emitted == 1..emitted
Type(e) == script[e].type

\* The subscription at Stripe, after the events so far.
Current == script[emitted].to

\* begin: the evidence an event must bring.
Needs(e) ==
  (IF Type(e) \in {"invoice", "charge", "refund", "refund_pending", "movement"}
     THEN {"fee"} ELSE {}) \cup
  (IF Type(e) = "movement" THEN {"movement"} ELSE {})

NoCase == [state |-> "none", attempts |-> 0, fence |-> 0, lease |-> "none"]
Idle   == [pc |-> "idle", event |-> 0, reading |-> {}, seen |-> FALSE,
           prior |-> {}, part |-> "fee", fence |-> 0]

Init ==
  /\ script \in Scripts /\ emitted = 0 /\ visible = {}
  /\ sub = [status |-> "active", plan |-> "free", linked |-> FALSE]
  /\ limits = "free" /\ receipts = {} /\ lifecycle = <<>> /\ daily = NoDelta
  /\ effects = {} /\ counted = [k \in Kinds |-> 0]
  /\ case = [e \in 1..Len(script) |-> [p \in Parts |-> NoCase]]
  /\ call = [c \in Callers |-> Idle]
  /\ batch = [w \in Workers |-> {}]
  /\ crossed = FALSE /\ faultsLeft = MaxFaults

-----------------------------------------------------------------------------
StripeMoves ==
  /\ emitted < Len(script)
  /\ emitted' = emitted + 1
  /\ UNCHANGED <<script, visible, rowVars, moneyVars, call, batch, crossed,
                 faultsLeft>>

\* Stripe books the balance transaction of an event it has emitted.
Booked ==
  /\ \E e \in Emitted : /\ Needs(e) # {} /\ script[e].tx \notin visible
                        /\ visible' = visible \cup {script[e].tx}
  /\ UNCHANGED <<script, emitted, rowVars, moneyVars, call, batch, crossed,
                 faultsLeft>>

At(c, pc)    == call[c].pc = pc
Goto(c, pc)  == call' = [call EXCEPT ![c].pc = pc]
Event(c)     == call[c].event

\* A delivery is over; a worker releases its claim, if it is still its own.
Over(c) ==
  /\ call' = [call EXCEPT ![c] = Idle]
  /\ UNCHANGED batch

Released(w) ==
  LET e == Event(w)   p == call[w].part   row == case[e][p]
  IN  IF row.state = "pending" /\ row.fence = call[w].fence
        THEN [case EXCEPT ![e][p].lease = "none"] ELSE case

\* handleWebhook, up to its first look at Stripe: an event with a receipt is a
\* duplicate; the cases of its evidence are opened (createMany, skipDuplicates).
Opened(e) ==
  [case EXCEPT ![e] = [p \in Parts |->
     IF p \in Needs(e) /\ @[p].state = "none"
       THEN [NoCase EXCEPT !.state = "pending"] ELSE @[p]]]

Receive(d) ==
  /\ At(d, "idle")
  /\ \E e \in Emitted \ receipts :
       /\ call' = [call EXCEPT ![d].pc = "read", ![d].event = e]
       /\ case' = Opened(e)
  /\ UNCHANGED <<stripeVars, rowVars, effects, counted, batch, crossed,
                 faultsLeft>>

\* loadCurrentStripeSubscription, and the balance transaction of the event.  A
\* deletion is its own evidence of the state.
Read(c) ==
  /\ At(c, "read")
  /\ LET e == Event(c) IN
       call' = [call EXCEPT ![c].pc = "begin",
         ![c].reading = CASE Type(e) = "deleted" -> script[e].to
                          [] Type(e) \in OfSubscription -> Current
                          [] OTHER -> @,
         ![c].seen = Needs(e) # {} /\ script[e].tx \in visible]
  /\ UNCHANGED <<stripeVars, rowVars, moneyVars, batch, crossed, faultsLeft>>

\* The unique event id makes a second transaction wait for the first ...
NotHeld(c) ==
  \A o \in Callers \ {c} : ~(At(o, "commit") /\ Event(o) = Event(c))

\* ... and then fail: the event was handled in the meantime.
BeginTransaction(c) ==
  /\ At(c, "begin") /\ NotHeld(c) /\ Event(c) \notin receipts
  /\ call' = [call EXCEPT ![c].pc = "commit",
       ![c].prior = IF Type(Event(c)) \in OfSubscription THEN sub ELSE @]
  /\ UNCHANGED <<stripeVars, rowVars, moneyVars, batch, crossed, faultsLeft>>

Duplicate(c) ==
  /\ At(c, "begin") /\ Event(c) \in receipts
  /\ case' = IF c \in Workers THEN Released(c) ELSE case
  /\ Over(c)
  /\ UNCHANGED <<stripeVars, rowVars, effects, counted, crossed, faultsLeft>>

-----------------------------------------------------------------------------
\* Mutant: history and limits are written whether there was a row or not.
FoundAlways(c) == TRUE

\* The row that a handler found when its transaction read it.
Found(c) == Type(Event(c)) = "checkout" \/ call[c].prior.linked

\* Mutant: an older event is applied as it was sent.
AsSent(c) == Entitlement(script[Event(c)].to)

Target(c) ==
  IF Type(Event(c)) = "deleted" THEN [status |-> "canceled", plan |-> "free"]
  ELSE Entitlement(call[c].reading)

\* authoritativeOverride: the event tells another state than Stripe does now.
Override(c) ==
  /\ Type(Event(c)) = "updated"
  /\ Entitlement(script[Event(c)].to) # Entitlement(call[c].reading)

State(row) == [status |-> row.status, plan |-> row.plan]

Transition(c) ==
  LET prev == State(call[c].prior)
      next == Target(c)
      category == IF Override(c) THEN "override"
                  ELSE Category(prev, next, Type(Event(c)) = "deleted")
  IN  [prev |-> prev, next |-> next, category |-> category]

Counts(t) ==
  IF t.category = "override" THEN NoDelta ELSE Delta(t.prev, t.next, t.category)

\* processWebhook on the subscription: the row is matched again by the update,
\* limits and history are written for the row that was found.
WriteSubscription(c) ==
  IF Type(Event(c)) \in OfSubscription
    THEN /\ sub' = IF Type(Event(c)) = "checkout" \/ sub.linked
                     THEN [status |-> Target(c).status, plan |-> Target(c).plan,
                           linked |-> TRUE]
                     ELSE sub
         /\ IF Found(c)
              THEN /\ limits' = Target(c).plan
                   /\ lifecycle' = Append(lifecycle, Transition(c))
                   /\ daily' = Plus(daily, Counts(Transition(c)))
              ELSE UNCHANGED <<limits, lifecycle, daily>>
         /\ crossed' = (crossed \/ \E o \in Callers \ {c} :
              /\ call[o].pc \in {"begin", "commit"}
              /\ Type(Event(o)) \in OfSubscription)
    ELSE UNCHANGED <<sub, limits, lifecycle, daily, crossed>>

\* What identifies an effect: its event, its refund or its balance transaction.
KeyOf(e, kind) ==
  CASE kind = "revenue" -> e
    [] kind = "refund"  -> "refund"
    [] OTHER            -> script[e].tx

Taken(kind, key) == \E x \in effects : x.kind = kind /\ x.key = key

\* The evidence of an event is an effect, unless it is in another currency or a
\* fee of zero.
Effective(e, p) ==
  LET fee == FeeOf[script[e].tx] IN
    fee = "charged" \/ (fee = "zero" /\ p = "movement")

KindsOf(c) ==
  LET e == Event(c) IN
    (IF Type(e) = "invoice" /\ Found(c) THEN {"revenue"} ELSE {}) \cup
    (IF Type(e) = "refund" THEN {"refund"} ELSE {}) \cup
    {p \in Needs(e) : call[c].seen /\ Effective(e, p)}

NewEffects(e, kinds) ==
  {[kind |-> k, key |-> KeyOf(e, k), event |-> e] :
     k \in {k \in kinds : ~Taken(k, KeyOf(e, k))}}

\* Mutant: the daily counter counts the event, not the row it inserted.
CountEvents(new, kinds) ==
  [k \in Kinds |-> counted[k] + One(k \in kinds)]

\* The daily counter is written only for the row that was inserted.
CountRows(new, kinds) ==
  [k \in Kinds |-> counted[k] + Cardinality({x \in new : x.kind = k})]

Verdict(e, p) ==
  CASE ~Effective(e, p) -> IF FeeOf[script[e].tx] = "zero" THEN "resolved_zero"
                           ELSE "excluded"
    [] Effective(e, p) -> IF Taken(p, script[e].tx) THEN "excluded_duplicate"
                          ELSE "resolved_effect"

\* completeInTransaction: without a fence, of cases that are still pending.
Completed(c) ==
  LET e == Event(c) IN
    [case EXCEPT ![e] = [p \in Parts |->
       IF p \in Needs(e) /\ call[c].seen /\ @[p].state = "pending"
         THEN [@[p] EXCEPT !.state = Verdict(e, p), !.lease = "none"]
         ELSE @[p]]]

Commit(c) ==
  LET e == Event(c)   new == NewEffects(e, KindsOf(c)) IN
  /\ At(c, "commit")
  /\ receipts' = receipts \cup {e}
  /\ WriteSubscription(c)
  /\ effects' = effects \cup new
  /\ counted' = CountRows(new, KindsOf(c))
  /\ case' = Completed(c)
  /\ Over(c)
  /\ UNCHANGED <<stripeVars, faultsLeft>>

\* A call to Stripe or the database fails, or the caller dies: nothing of the
\* transaction stays.  Stripe delivers the event again.
Fails(c) ==
  /\ ~At(c, "idle") /\ faultsLeft > 0 /\ faultsLeft' = faultsLeft - 1
  /\ call' = [call EXCEPT ![c] = Idle]
  /\ case' \in IF c \in Workers THEN {case, Released(c)} ELSE {case}
  /\ IF c \in Workers
       THEN \E lost \in {{}, batch[c]} : batch' = [batch EXCEPT ![c] = @ \ lost]
       ELSE UNCHANGED batch
  /\ UNCHANGED <<stripeVars, rowVars, effects, counted, crossed>>

-----------------------------------------------------------------------------
Due(e, p) ==
  /\ case[e][p].state = "pending" /\ case[e][p].attempts < MaxAttempts
  /\ case[e][p].lease # "held"

\* claimDue: of the due cases those that no other worker took first.
Claim(w) ==
  /\ At(w, "idle") /\ batch[w] = {}
  /\ \E claims \in SUBSET {x \in Emitted \X Parts : Due(x[1], x[2])} :
       /\ claims # {}
       /\ case' = [e \in DOMAIN case |-> [p \in Parts |->
            IF <<e, p>> \in claims
              THEN [case[e][p] EXCEPT !.attempts = @ + 1, !.fence = @ + 1,
                                      !.lease = "held"]
              ELSE case[e][p]]]
       /\ batch' = [batch EXCEPT ![w] =
            {[event |-> x[1], part |-> x[2], fence |-> case[x[1]][x[2]].fence + 1]
               : x \in claims}]
  /\ UNCHANGED <<stripeVars, rowVars, effects, counted, call, crossed,
                 faultsLeft>>

\* processCase: the event is read from Stripe; without a receipt it is handled
\* as a delivery, else its evidence is looked up again.
Process(w) ==
  /\ At(w, "idle")
  /\ \E x \in batch[w] :
       /\ batch' = [batch EXCEPT ![w] = @ \ {x}]
       /\ call' = [call EXCEPT ![w] = [Idle EXCEPT
            !.pc = IF x.event \in receipts THEN "evidence" ELSE "read",
            !.event = x.event, !.part = x.part, !.fence = x.fence]]
  /\ UNCHANGED <<stripeVars, rowVars, moneyVars, crossed, faultsLeft>>

LookUp(w) ==
  /\ At(w, "evidence")
  /\ IF script[Event(w)].tx \in visible
       THEN Goto(w, "resolve") /\ UNCHANGED case
       ELSE call' = [call EXCEPT ![w] = Idle] /\ case' = Released(w)
  /\ UNCHANGED <<stripeVars, rowVars, effects, counted, batch, crossed,
                 faultsLeft>>

\* Mutant: the lease is not asked for.
OwnsAny(w) == TRUE

OwnsLease(w) ==
  LET row == case[Event(w)][call[w].part] IN
    row.state = "pending" /\ row.lease = "held" /\ row.fence = call[w].fence

\* The effect, its counter and the verdict in one transaction.
Resolve(w) ==
  LET e == Event(w)   p == call[w].part
      new == IF Effective(e, p) THEN NewEffects(e, {p}) ELSE {}
  IN
  /\ At(w, "resolve")
  /\ IF OwnsLease(w)
       THEN /\ effects' = effects \cup new
            /\ counted' = CountRows(new, IF Effective(e, p) THEN {p} ELSE {})
            /\ case' = [case EXCEPT ![e][p].state = Verdict(e, p),
                                    ![e][p].lease = "none"]
       ELSE case' = Released(w) /\ UNCHANGED <<effects, counted>>
  /\ Over(w)
  /\ UNCHANGED <<stripeVars, rowVars, crossed, faultsLeft>>

\* EVIDENCE_LEASE_MS passes.
LeaseLapses ==
  /\ \E e \in Emitted, p \in Parts :
       /\ case[e][p].lease = "held"
       /\ case' = [case EXCEPT ![e][p].lease = "lapsed"]
  /\ UNCHANGED <<stripeVars, rowVars, effects, counted, call, batch, crossed,
                 faultsLeft>>

Handle(c) ==
  Read(c) \/ BeginTransaction(c) \/ Duplicate(c) \/ Commit(c) \/ Fails(c)

Next ==
  \/ StripeMoves \/ Booked \/ LeaseLapses
  \/ \E c \in Callers : Handle(c)
  \/ \E d \in Deliveries : Receive(d)
  \/ \E w \in Workers : Claim(w) \/ Process(w) \/ LookUp(w) \/ Resolve(w)

Spec == Init /\ [][Next]_vars

-----------------------------------------------------------------------------
\* Once every event of Stripe has its receipt, row and limits are what Stripe
\* has, in whatever order the events came, unless handlers overlapped: then an
\* older reading may have been committed last.
RowFollowsStripe ==
  /\ \E e \in Emitted : Type(e) = "checkout"
  /\ Emitted \subseteq receipts /\ ~crossed
  => State(sub) = Entitlement(Current) /\ limits = sub.plan

Hidden(i) == lifecycle[i].category = "override"

\* The first payment was due and not made: whoever pays later is not counted as
\* a new customer.
Customer(s)     == s.status \in {"active", "past_due"} /\ IsPaid(s.plan)
OverdueFirst(i) ==
  lifecycle[i].next.status = "past_due" /\ ~Customer(lifecycle[i].prev)

\* Unless handlers overlapped, the recorded transitions are a chain that ends in
\* the row, and, unless an override has hidden one, the daily metrics add up to
\* it: its revenue, whether it is paid, and, unless it was overdue first, no more
\* churn than there were customers to lose.
HistoryExplainsRow ==
  ~crossed =>
    /\ \A i \in DOMAIN lifecycle :
         lifecycle[i].next = IF i < Len(lifecycle) THEN lifecycle[i + 1].prev
                             ELSE State(sub)
    /\ (\A i \in DOMAIN lifecycle : ~Hidden(i)) =>
         /\ daily.mrr = Mrr(State(sub))
         /\ daily.activePaid = One(Mrr(State(sub)) > 0)
         /\ (\A i \in DOMAIN lifecycle : ~OverdueFirst(i)) =>
              daily.activePaid + daily.churn <= daily.newPaid + daily.reactivated

\* Webhooks and workers record an effect of a balance transaction or a refund
\* once, and count it once, whatever is delivered or retried twice.
EffectsAreCounted ==
  /\ \A x, y \in effects : x.kind = y.kind /\ x.key = y.key => x = y
  /\ \A k \in Kinds :
       counted[k] = Cardinality({x \in effects : x.kind = k})

\* The verdicts on evidence are true: a case is resolved by an effect exactly if
\* its event is the source of one, and no processed event is without a case or
\* with a case that was closed although nobody recorded its effect.
EvidenceIsTrue ==
  \A e \in receipts : \A p \in Needs(e) :
    LET state == case[e][p].state IN
      /\ state # "none"
      /\ state = "resolved_effect" <=>
           [kind |-> p, key |-> script[e].tx, event |-> e] \in effects
      /\ state # "pending" /\ Effective(e, p) => Taken(p, script[e].tx)

=============================================================================
