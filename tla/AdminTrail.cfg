SPECIFICATION RetrySpec
CONSTANTS
  ann = ann
  bob = bob
  p1 = p1
  p2 = p2
  n1 = n1
  n2 = n2
  c1 = c1
  c2 = c2
  k1 = k1
  k2 = k2
  Operators = {ann, bob}
  Products = {p1}
  Names = {n1}
  Categories = {c1, c2}
  CategoryNames = {k1, k2}
  NoCategory = NoCategory
  NoName = NoName
  NoTarget = NoTarget
  MaxRequests = 3
CHECK_DEADLOCK FALSE
SYMMETRY Symmetry
INVARIANTS
  NamesAreUnique
  DeadlocksAreNameSwaps
  TypeOK
  TransactionsAreSound
  VersionTrail
  StatusTrail
PROPERTIES
  RepeatsAreOvertaken
  EditReplacesWhatWasRead
  OnlyLegalEdges
  ReadersSeeCommands
