\* Two tabs with the package of one application; two clicks.
CONSTANTS
  Tabs = {t1, t2}
  MaxClicks = 2
  MaxKeys = 1
  MaxLosses = 0
SPECIFICATION ReviewSpec
INVARIANT FrozenIsReviewed
CHECK_DEADLOCK FALSE
