SPECIFICATION FairSpec
CONSTANTS
  p1 = p1
  p2 = p2
  p3 = p3
  r1 = r1
  r2 = r2
  r3 = r3
  Pods = {p1, p2, p3}
  Readers = {r1, r2, r3}
  Stuck = {r1}
  NoPod = NoPod
  Latest = 3
  Files <- FilesOfPods
  Exclusive = {2, 3}
  Rerunnable = {2, 3}
INVARIANTS
  TypeOK
  ServingPodsHaveTheirSchema
  LedgerIsTrue
PROPERTIES
  OnlyARepairEndsTheStop
  ReadsAreNotStarved
  RolloutEnds
