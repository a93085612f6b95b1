SPECIFICATION FairSpec
CONSTANTS
  ann = ann
  bob = bob
  p1 = p1
  p2 = p2
  n1 = n1
  n2 = n2
  c1 = c1
  c2 = c2
  k1 = k1
  k2 = k2
  Operators = {ann, bob}
  Products = {p1, p2}
  Names = {n1, n2}
  Categories = {c1}
  CategoryNames = {k1}
  NoCategory = NoCategory
  NoName = NoName
  NoTarget = NoTarget
  MaxRequests = 2
CHECK_DEADLOCK FALSE
INVARIANTS
  NamesAreUnique
  DeadlocksAreNameSwaps
PROPERTIES
  CommandsAreAtomic
  CommandsAreAnswered
