SPECIFICATION Spec
CONSTANTS
  w1 = w1
  w2 = w2
  t1 = t1
  NoValue = NoValue
  Workers = {w1, w2}
  Subs = {1, 2}
  Txs = {t1}
  Auths <- MCAuths
  Bodies <- MCBodies
  Batch = 2
  MaxPosts = 1
  Poll = 1
  Hold = 1
  MaxLag = 1
  MaxAge = 4
  MaxCrashes = 1
  MaxRejects = 1
  MaxAdmin = 1
INVARIANT TypeOK
INVARIANT AcceptedPassesCheck
INVARIANT RaceIsShort
INVARIANT BurstPickedUp
PROPERTY DebounceHolds
SYMMETRY MCSymmetry
