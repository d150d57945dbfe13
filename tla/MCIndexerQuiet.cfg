SPECIFICATION FairSpec
CONSTANTS
  g = g
  a1 = a1
  a2 = a2
  a3 = a3
  a4 = a4
  a5 = a5
  b1 = b1
  b2 = b2
  b3 = b3
  b4 = b4
  b5 = b5
  none = none
  t1 = t1
  t2 = t2
  t3 = t3
  NoBlock = none
  MaxHeight = 5
  ForkHeight = 1
  Blocks <- MCBlocks
  Height <- MCHeight
  Chain <- MCChain
  Txs <- MCTxs
  Body <- MCBody
  Reverts <- MCReverts
  Triggers = TRUE
  Confirmations = 0
  BatchSize = 2
  CycleCap = 3
  ScanCap = 4
  MaxConcurrent = 2
  FollowMode = TRUE
  Backfills <- MCNoBackfill
  NodePoints <- MCQuietPoints
  MaxReorgs = 2
  MaxInterrupts = 0
  MaxStops = 1
  MaxRpcFailures = 0
INVARIANT IndexedIsCanonical
INVARIANT CheckpointedComplete
INVARIANT FramesOnce
INVARIANT CleanStop
PROPERTY RollbackIsExact
PROPERTY EventuallySynced
PROPERTY CtrlCStops
