SPECIFICATION FairPageSpec
CONSTANTS
  r1 = r1
  r2 = r2
  l1 = l1
  w1 = w1
  w2 = w2
  k1 = k1
  k2 = k2
  Requests = {r1, r2}
  Pages = {r1}
  Listers = {}
  Writers = {w1}
  All = All
  Filters = {}
  CategoryNames = {k1}
  BatchSize = 2
  MaxCommands = 2
  MaxVersion = 3
  Absent = Absent
  Failed = Failed
  Free = Free
INVARIANTS
  TypeOK
  FillsAreSound
  OneFillPerLock
  StaleDetailIsExcused
  OnlyTheProductFailsThePage
  RenderedPagesAreWhole
PROPERTIES
  RequestsAreAnswered
  DetailConverges
  PagesAreAnswered
