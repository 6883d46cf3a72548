\* Three requests, two payloads; claims live one tick, responses two; one
\* crash or failing write.  Or two discoveries and one board over four hours.
CONSTANTS
  Requests = {r1, r2, r3}
  Fingerprints = {f1, f2}
  PendingTtl = 1
  CompletedTtl = 2
  MaxClock = 3
  MaxFaults = 1
  None = None
  b1 = b1
  p1 = p1
  Boards <- OneBoard
  Listings = {p1}
  BoardOf <- Owner
  Captures = {page}
  Moderators = {m1}
  Discoveries = {d1, d2}
  Ttl = 2
  MaxAge = 1
  Threshold = 1
  ResetAfter = 1
  Slow = 1
  LastHour = 5
  NoOne = NoOne
CONSTRAINT OneRow
SYMMETRY Symmetry
SPECIFICATION MCSpec
INVARIANTS
  WorkIsNotRepeated
  WithdrawnDisappears
PROPERTIES
  FirstDeactivationStands
CHECK_DEADLOCK FALSE
