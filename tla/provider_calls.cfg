\* Two overlapping requests to the paid providers, or two career-chat answers
\* with one retry on three days of two months (no symmetry: liveness).
CONSTANTS
  Calls = {c1, c2}
  Policies <- Services
  MaxClock = 2
  MaxCrashes = 1
  MaxRetries = 1
  DayLength = 1
  MonthLength = 2
  DailyLimit = 5
  MonthlyLimit = 7
SPECIFICATION MCSpec
INVARIANTS
  AnsweredOnce
  UnitsPayForAnswers
  BoundaryIsKept
  
PROPERTIES
  ProbeEnds
CHECK_DEADLOCK FALSE
