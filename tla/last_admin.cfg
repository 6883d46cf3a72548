SPECIFICATION Spec
CONSTANTS
  t1 = t1
  t2 = t2
  x = x
  h1 = h1
  u1 = u1
  a1 = a1
  a2 = a2
  s1 = s1
  s2 = s2
  h2 = h2
  hx = hx
  o1 = o1
  d1 = d1
  d2 = d2
  None = None
  Customers = {}
  Admins = {a1, a2}
  Callers = {}
  Tabs = {}
  Threads = {}
  KindOf <- NoTabs
  TabOf <- NoTabs
  Sids = {}
  Desks = {d1, d2}
  Threshold = 1
  BetaSlots = 1
  MaxEvents = 4
  MaxCode = 1
  FailLimit = 1
SYMMETRY Alike
CONSTRAINT Suspensions
CHECK_DEADLOCK FALSE
INVARIANT AdministratorRemains
