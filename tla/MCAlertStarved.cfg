SPECIFICATION FairSpec
CONSTANTS
  w1 = w1
  w2 = w2
  s1 = s1
  s2 = s2
  Workers = {w1}
  Subs = {s1, s2}
  Txs = {1, 2}
  Matching <- MCOneEach
  Unsafe = {}
  Dead = {s2}
  Stale = 1
  Hold = 1
  Batch = 1
  MaxPosts = 2
  MaxAccepted = 2
  MaxCrashes = 0
  MaxLost = 0
  MaxRejects = 1
  MaxAdmin = 2
PROPERTY EveryMatchDelivered
CHECK_DEADLOCK FALSE
