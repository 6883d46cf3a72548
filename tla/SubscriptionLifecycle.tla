------------------------- MODULE SubscriptionLifecycle -------------------------
(***************************************************************************)
(* What a subscription entitles to, and what one of its transitions adds to *)
(* the daily metrics.  A state is a record [status, plan].                  *)
(***************************************************************************)
EXTENDS Integers

Statuses == {"active", "trialing", "past_due", "paused", "unpaid", "canceled",
             "incomplete", "incomplete_expired"}
Plans    == {"free", "pro", "premium"}
States   == [status: Statuses, plan: Plans]

\* PLAN_PRICING, in units that keep the order of the prices.
Price(plan)  == CASE plan = "pro" -> 1 [] plan = "premium" -> 2 [] OTHER -> 0
IsPaid(plan) == plan \in {"pro", "premium"}

\* subscriptionEntitlement: the plan counts while the status entitles to it.
Entitlement(s) ==
  [s EXCEPT !.plan =
     IF s.status \in {"active", "trialing", "past_due"} THEN @ ELSE "free"]

Enters(prev, next, status) == next.status = status /\ prev.status # status

Category(prev, next, deletion) ==
  CASE deletion -> "subscription_deletion"
    [] ~deletion /\ prev = next -> "observation"
    [] Enters(prev, next, "trialing") /\ ~deletion -> "trial_start"
    [] Enters(prev, next, "past_due") /\ ~deletion -> "past_due_transition"
    [] Enters(prev, next, "paused")   /\ ~deletion -> "pause_transition"
    [] Enters(prev, next, "unpaid")   /\ ~deletion -> "unpaid_transition"
    [] Enters(prev, next, "canceled") /\ ~deletion -> "cancellation"
    [] next.status = "active" /\ IsPaid(next.plan) /\ prev # next /\ ~deletion ->
         CASE prev.status = "trialing" -> "trial_conversion"
           [] prev.status \in {"canceled", "paused", "unpaid"} -> "reactivation"
           [] prev.status = "active" /\ IsPaid(prev.plan) ->
                IF Price(next.plan) > Price(prev.plan)
                  THEN "plan_upgrade" ELSE "plan_downgrade"
           [] ~IsPaid(prev.plan) /\ prev.status \in {"active", "incomplete",
                "incomplete_expired", "past_due"} -> "paid_activation"
           [] OTHER -> "observation"
    [] OTHER -> "observation"

\* monthlyRecurringRevenue: only an active subscription recurs.
Mrr(s) == IF s.status = "active" THEN Price(s.plan) ELSE 0

One(b) == IF b THEN 1 ELSE 0

NoDelta == [activePaid |-> 0, mrr |-> 0, newPaid |-> 0, expansion |-> 0,
            contraction |-> 0, churn |-> 0, churnedMrr |-> 0, reactivated |-> 0]

\* metricsDelta with its movement.
Delta(prev, next, category) ==
  LET churned == category \in {"cancellation", "subscription_deletion"}
                   /\ Mrr(prev) > 0
  IN  [activePaid  |-> One(Mrr(next) > 0) - One(Mrr(prev) > 0),
       mrr         |-> Mrr(next) - Mrr(prev),
       newPaid     |-> One(category \in {"paid_activation", "trial_conversion"}),
       expansion   |-> IF category = "plan_upgrade" /\ Mrr(next) > Mrr(prev)
                         THEN Mrr(next) - Mrr(prev) ELSE 0,
       contraction |-> IF category = "plan_downgrade" /\ Mrr(prev) > Mrr(next)
                         THEN Mrr(prev) - Mrr(next) ELSE 0,
       churn       |-> One(churned),
       churnedMrr  |-> IF churned THEN Mrr(prev) ELSE 0,
       reactivated |-> One(category = "reactivation")]

Plus(daily, delta) == [field \in DOMAIN daily |-> daily[field] + delta[field]]

=============================================================================
