\* Two tabs with the package, two clicks, a lost answer; two resumes and two
\* discoveries on the page of jobs; two tabs on postings, a lost answer; two
\* small files and a large one, of which the plan holds two that are not both
\* large and small, two deletions, one failing write or dying call.
CONSTANTS
  Tabs = {t1, t2}
  MaxClicks = 2
  MaxKeys = 2
  MaxLosses = 1
  ReadyCVs = {r1, r2}
  Postings = {p1, p2}
  NoChoice = NoChoice
  MaxDiscoveries = 2
  MaxFetches = 2
  Sites = {s1, s2}
  Urls = {u1, u2}
  Selectable = {r1}
  Nobody = Nobody
  MaxWishes = 2
  MaxStops = 1
  d1 = d1
  d2 = d2
  f1 = f1
  f2 = f2
  f3 = f3
  Files = {f1, f2, f3}
  Size <- Sizes
  Deletions = {d1, d2}
  MaxResumes = 2
  MaxBytes = 2
  MaxBreaks = 1
CONSTRAINTS FewPages FewUploads
SPECIFICATION MCSpec
INVARIANTS
  OneGenerationPerWish
  TickIsForShownTexts
  PreparedAsRecommended
  OneApplicationPerWish
  UsageMatchesRows
  
CHECK_DEADLOCK FALSE
