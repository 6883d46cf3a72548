\* Two deliveries at a time and two retry workers, over seven scripts of Stripe
\* events; a case is tried twice; one failing call or dying caller.
CONSTANTS
  Deliveries = {d1, d2}
  Workers = {w1, w2}
  Scripts <- Lives
  FeeOf <- Fees
  MaxAttempts = 2
  MaxFaults = 1
SYMMETRY Alike
CONSTRAINT RefundsGoWell
SPECIFICATION Spec
INVARIANTS
  RowFollowsStripe
  HistoryExplainsRow
  EffectsAreCounted
  EvidenceIsTrue
CHECK_DEADLOCK FALSE
