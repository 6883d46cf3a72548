SPECIFICATION Spec
CONSTANTS
  t1 = t1
  t2 = t2
  x = x
  h1 = h1
  u1 = u1
  a1 = a1
  a2 = a2
  s1 = s1
  s2 = s2
  h2 = h2
  hx = hx
  o1 = o1
  d1 = d1
  d2 = d2
  None = None
  Customers = {u1}
  Admins = {a1}
  Callers = {t1, t2, x, h1, h2, hx, o1}
  Tabs = {t1, t2, x}
  Threads = {h1, h2, hx}
  KindOf <- AllTabs
  TabOf <- AllThreads
  Sids = {s1}
  Desks = {d1, d2}
  Threshold = 1
  BetaSlots = 1
  MaxEvents = 2
  MaxCode = 1
  FailLimit = 1
SYMMETRY Mirrored
CONSTRAINT Bounds
CHECK_DEADLOCK FALSE
INVARIANTS
  SupersededIsKnown
  ClientsNeverReuse
  NoClientIsStuck
 
