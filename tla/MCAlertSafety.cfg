SPECIFICATION Spec
CONSTANTS
  w1 = w1
  w2 = w2
  s1 = s1
  s2 = s2
  Workers = {w1, w2}
  Subs = {s1, s2}
  Txs = {1}
  Matching <- MCAllMatch
  Unsafe = {s2}
  Dead = {}
  Stale = 2
  Hold = 2
  Batch = 2
  MaxPosts = 1
  MaxAccepted = 4
  MaxCrashes = 1
  MaxLost = 1
  MaxRejects = 1
  MaxAdmin = 3
INVARIANT TypeOK
INVARIANT ExclusiveClaim
INVARIANT DeliveredWasAccepted
INVARIANT DuplicatesAreExplained
PROPERTY DeliveredIsFinal
PROPERTY ImplementsOutbox
SYMMETRY MCSymmetry
CHECK_DEADLOCK FALSE
