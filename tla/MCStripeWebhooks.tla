--------------------------- MODULE MCStripeWebhooks ---------------------------
(* Small instances of StripeWebhooks for TLC. *)
EXTENDS StripeWebhooks, TLC

Sub(type, status, plan) ==
  [type |-> type, to |-> [status |-> status, plan |-> plan], tx |-> "none"]
Money(type, tx) ==
  [type |-> type, to |-> [status |-> "active", plan |-> "pro"], tx |-> tx]

\* Three lives of the subscription, one overdue after its trial; a payment
\* before the checkout that links it; a refund, told twice; a dispute without a
\* fee; a pending refund in a currency that is not recorded.
Lives ==
  {<<Sub("checkout", "active", "pro"), Sub("updated", "active", "premium"),
     Sub("updated", "past_due", "premium"), Sub("deleted", "canceled", "premium")>>,
   <<Sub("checkout", "trialing", "pro"), Sub("updated", "active", "pro"),
     Sub("deleted", "canceled", "pro")>>,
   <<Sub("checkout", "trialing", "pro"), Sub("updated", "past_due", "pro"),
     Sub("updated", "active", "pro")>>,
   <<Money("invoice", "paid"), Sub("checkout", "active", "pro")>>,
   <<Money("refund", "back"), Money("refund", "back")>>,
   <<Money("movement", "drawn")>>,
   <<Money("refund_pending", "other")>>}

Fees == ("none" :> "zero") @@ ("paid" :> "charged") @@ ("back" :> "charged") @@
        ("drawn" :> "zero") @@ ("other" :> "foreign")

\* Bound: no fault, and two handlers at a time, while a refund is told twice.
RefundsGoWell ==
  script[1].type = "refund" =>
    /\ faultsLeft = MaxFaults
    /\ Cardinality({c \in Callers : ~At(c, "idle")}) <= 2

Alike == Permutations(Deliveries) \cup Permutations(Workers)

=============================================================================
