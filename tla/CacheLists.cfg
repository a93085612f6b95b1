SPECIFICATION FairListSpec
CONSTANTS
  r1 = r1
  r2 = r2
  l1 = l1
  w1 = w1
  w2 = w2
  k1 = k1
  k2 = k2
  Requests = {}
  Listers = {l1}
  Writers = {w1}
  All = All
  Filters = {All, k1}
  CategoryNames = {k1, k2}
  BatchSize = 2
  MaxCommands = 2
  MaxVersion = 3
  Absent = Absent
  Failed = Failed
  Free = Free
INVARIANTS
  StaleListIsExcused
PROPERTIES
  ListsConverge
