\* Two deliveries of one document, a requeue call, its duplicate and one that
\* reuses its key, one dispatcher; one crash, rejected await or lapse.
CONSTANTS
  w1 = w1
  w2 = w2
  d1 = d1
  c1 = c1
  c2 = c2
  c3 = c3
  k1 = k1
  None = None
  Workers = {w1, w2}
  MaxAttempts = 2
  JobAttempts = 3
  MaxStalledCount = 1
  ParseFailures = {"provider_transient", "document_unreadable"}
  Entitlements = {"queue"}
  DedicatedWorkers = FALSE
  Faults = {"crash", "throw", "lapse"}
  MaxFaults = 1
  LockMayLapseFirst = TRUE
  Calls = {c1, c2, c3}
  Dispatchers = {d1}
  KeyOf <- ThreeKeys
  ReasonOf <- ThreeReasons
SPECIFICATION Spec
INVARIANTS
  HeldLeaseIsProcessing
  ResumeMirrorsExecution
PROPERTIES
  
  ImplementsLifecycle
CHECK_DEADLOCK FALSE
