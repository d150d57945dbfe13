SPECIFICATION FairSpec
CONSTANTS
  w1 = w1
  w2 = w2
  s1 = s1
  s2 = s2
  Workers = {w1}
  Subs = {s1, s2}
  Txs = {1, 2, 3}
  Matching <- MCOtherFirst
  Unsafe = {}
  Dead = {s2}
  Stale = 1
  Hold = 1
  Batch = 2
  MaxPosts = 2
  MaxAccepted = 2
  MaxCrashes = 1
  MaxLost = 0
  MaxRejects = 1
  MaxAdmin = 2
PROPERTY EventuallyDelivered
CHECK_DEADLOCK FALSE
