\* Two attempts and one reader over two days of two ticks; two prices.  Or two
\* requests for match scores of three readings of a CV, over two months.  Or
\* three calls over two months of two ticks; plans of one and two units and an
\* unlimited one; one crash or failing release.
CONSTANTS
  Attempts = {a1, a2}
  Readers = {r1}
  Estimates = {1, 2}
  Unknown = Unknown
  DayLength = 2
  MetricsStart = 2
  MaxClock = 5
  Contents <- Readings
  Offers <- SomeOffers
  Requests = {q1, q2}
  More <- Supplemented
  FirstMonth = 24288
  LastMonth = 24289
  Gone = Gone
  Calls = {c1, c2, c3}
  Limits = {1, 2, 9}
  Unlimited = 9
  Month = 2
  MaxDate = 4
  MaxFaults = 1
CONSTRAINT FewRows
SYMMETRY Symmetry
SPECIFICATION MCSpec
INVARIANTS
  DailyMatchesLedger
  OnePricePerAttempt
  ReportCountsEveryCall
  UsageIsExact
  RefundMissesOnlyRollover
  CachedNeverOverstates
  MoreEvidenceNeverLowers
CHECK_DEADLOCK FALSE
