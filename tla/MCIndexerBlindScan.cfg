SPECIFICATION FairSpec
CONSTANTS
  g = g
  a1 = a1
  a2 = a2
  a3 = a3
  a4 = a4
  a5 = a5
  b1 = b1
  b2 = b2
  b3 = b3
  b4 = b4
  b5 = b5
  none = none
  t1 = t1
  t2 = t2
  t3 = t3
  NoBlock = none
  MaxHeight = 4
  ForkHeight = 2
  Blocks <- MCBlocks
  Height <- MCHeight
  Chain <- MCChain
  Txs <- MCTxs
  Body <- MCBody
  Reverts <- MCReverts
  Triggers = FALSE
  Confirmations = 1
  BatchSize = 2
  CycleCap = 2
  ScanCap = 10
  MaxConcurrent = 1
  FollowMode = TRUE
  Backfills <- MCNoBackfill
  NodePoints <- MCQuietPoints
  MaxReorgs = 1
  MaxInterrupts = 0
  MaxStops = 0
  MaxRpcFailures = 1
PROPERTY EventuallySynced
