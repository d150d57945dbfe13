SPECIFICATION Spec
CONSTANTS
  g = g
  a1 = a1
  a2 = a2
  a3 = a3
  a4 = a4
  a5 = a5
  b1 = b1
  b2 = b2
  b3 = b3
  b4 = b4
  b5 = b5
  none = none
  t1 = t1
  t2 = t2
  t3 = t3
  NoBlock = none
  MaxHeight = 2
  ForkHeight = 1
  Blocks <- MCBlocks
  Height <- MCHeight
  Chain <- MCChain
  Txs <- MCTxs
  Body <- MCBody
  Reverts <- MCReverts
  Triggers = TRUE
  Confirmations = 0
  BatchSize = 2
  CycleCap = 2
  ScanCap = 10
  MaxConcurrent = 2
  FollowMode = TRUE
  Backfills <- MCRanges
  NodePoints <- MCAllPoints
  MaxReorgs = 1
  MaxInterrupts = 1
  MaxStops = 0
  MaxRpcFailures = 0
INVARIANT TypeOK
INVARIANT CheckpointCovered
INVARIANT ReferencesHold
PROPERTY CheckpointOnlyRewindsInRollback
